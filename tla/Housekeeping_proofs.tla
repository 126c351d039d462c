-------------------------- MODULE Housekeeping_proofs --------------------------
(***************************************************************************)
(* What is proved of the watchers: nobody is terminated without a cause,   *)
(* nobody is bothered again before his time, and what the calibrator       *)
(* proposes rests on sound evidence.                                       *)
(***************************************************************************)
EXTENDS Housekeeping, SumTheorems, SequenceTheorems, TLAPS

-----------------------------------------------------------------------------
(* The idle auto-kill.                                                     *)

\* Its clocks never run ahead of the history, and only processes with a rule have one.
KillInv ==
    /\ killLive \subseteq KillProcs /\ killHeld \subseteq killLive /\ ran \subseteq killLive
    /\ lastActive \in [KillProcs -> Kill!Clocks] /\ quiet \in [KillProcs -> Kill!Clocks]
    /\ \A p \in KillProcs : lastActive[p] <= quiet[p]
    /\ \A p \in KillProcs : p \notin Rules => lastActive[p] = Kill!NoClock

\* No clock is ahead when none has been started.
LEMMA KillStart == Kill!Init => KillInv
BY KillAssumption DEF KillInv, Kill!Init, Kill!ProcsAssumption, Kill!LimitsAssumption, Kill!Clocks,
   Kill!NoClock

\* A sample leaves no clock ahead of the history.
LEMMA KillSample == KillInv /\ Kill!Sample => KillInv'
<1> SUFFICES ASSUME KillInv, Kill!Sample PROVE KillInv'
  OBVIOUS
<1> USE KillAssumption DEF Kill!LimitsAssumption, Kill!Clocks, Kill!NoClock, Kill!Ages
<1> DEFINE idle == {p \in Kill!Sampled : Kill!Elapsed(p) >= KillAfter}
<1>0. /\ lastActive' = [q \in KillProcs |->
              IF q \in idle THEN Kill!NoClock
              ELSE IF q \in Kill!Sampled THEN Kill!Elapsed(q)
              ELSE IF q \in killLive THEN lastActive[q]
              ELSE Kill!NoClock]
      /\ quiet' = [p \in KillProcs |->
              IF p \notin killLive \cap Rules THEN Kill!NoClock
              ELSE IF p \in killHeld THEN quiet[p]
              ELSE IF p \in ran THEN 0 ELSE Kill!Started(quiet[p])]
      /\ ran' = {} /\ UNCHANGED <<killLive, killHeld>>
  <2>1. \A q : (\E p \in idle : Kill!KeyOf(p) = q) <=> q \in idle
    BY DEF Kill!KeyOf
  <2>2. \A q : (\E p \in Kill!Sampled : Kill!KeyOf(p) = q) <=> q \in Kill!Sampled
    BY DEF Kill!KeyOf
  <2>3. \A q : (\E p \in killLive : Kill!KeyOf(p) = q) <=> q \in killLive
    BY DEF Kill!KeyOf
  <2>4. \A q \in Kill!Sampled : (CHOOSE p \in Kill!Sampled : Kill!KeyOf(p) = q) = q
    BY DEF Kill!KeyOf
  <2>5. QED
    BY <2>1, <2>2, <2>3, <2>4 DEF Kill!Sample
<1>1. Kill!Sampled = (killLive \cap Rules) \ killHeld
  BY DEF Kill!Sampled
<1>2. \A p \in KillProcs : Kill!Elapsed(p) = IF p \in ran THEN 0 ELSE Kill!Started(lastActive[p])
  BY DEF Kill!Elapsed, Kill!KeyOf
<1> HIDE DEF idle
<1>3. ASSUME NEW p \in KillProcs
      PROVE  /\ lastActive'[p] \in Kill!Clocks /\ quiet'[p] \in Kill!Clocks
             /\ lastActive'[p] <= quiet'[p]
             /\ p \notin Rules => lastActive'[p] = Kill!NoClock
  BY <1>0, <1>1, <1>2 DEF KillInv, Kill!Started
<1>4. lastActive' \in [KillProcs -> Kill!Clocks] /\ quiet' \in [KillProcs -> Kill!Clocks]
  BY <1>0, <1>3
<1>5. QED
  BY <1>0, <1>3, <1>4 DEF KillInv

\* The invariant of automatic kill is inductive.
LEMMA KillStep == KillInv /\ [Kill!Next]_Kill!vars => KillInv'
<1> SUFFICES ASSUME KillInv, [Kill!Next]_Kill!vars PROVE KillInv'
  OBVIOUS
<1> USE KillAssumption
    DEF Kill!LimitsAssumption, Kill!ProcsAssumption, Kill!Clocks, Kill!NoClock, Kill!Ages
<1>1. CASE Kill!Pass
  <2>1. ASSUME NEW p \in KillProcs
        PROVE  /\ lastActive'[p] \in Kill!Clocks /\ quiet'[p] \in Kill!Clocks
               /\ lastActive'[p] <= quiet'[p]
               /\ p \notin Rules => lastActive'[p] = Kill!NoClock
    BY <1>1 DEF KillInv, Kill!Pass, Kill!Older
  <2>2. lastActive' \in [KillProcs -> Kill!Clocks] /\ quiet' \in [KillProcs -> Kill!Clocks]
    BY <1>1, <2>1 DEF Kill!Pass
  <2>3. QED
    BY <1>1, <2>1, <2>2 DEF KillInv, Kill!Pass
<1>2. CASE Kill!Sample
  BY <1>2, KillSample
<1>3. CASE Kill!List
  BY <1>3 DEF KillInv, Kill!List
<1>4. ASSUME NEW p \in KillProcs,
             Kill!Start(p) \/ Kill!Run(p) \/ Kill!Hold(p) \/ Kill!Release(p)
      PROVE  KillInv'
  BY <1>4 DEF KillInv, Kill!Start, Kill!Run, Kill!Hold, Kill!Release
<1>5. ASSUME NEW p \in KillProcs, Kill!Exit(p) PROVE KillInv'
  BY <1>5 DEF KillInv, Kill!Exit
<1>6. CASE UNCHANGED Kill!vars
  BY <1>6 DEF KillInv, Kill!vars
<1>7. QED
  BY <1>1, <1>2, <1>3, <1>4, <1>5, <1>6 DEF Kill!Next

\* Who is terminated has been quiet for as long as its rule asks.
LEMMA KillQuiet ==
    KillInv /\ [Kill!Next]_Kill!vars
        => [\A p \in killTermed' \ killTermed : quiet'[p] >= KillAfter]_Kill!vars
<1> SUFFICES ASSUME KillInv, Kill!Next, NEW p \in killTermed' \ killTermed
             PROVE  quiet'[p] >= KillAfter
  OBVIOUS
<1> USE KillAssumption DEF Kill!LimitsAssumption, Kill!Clocks, Kill!NoClock, Kill!Ages
<1>1. Kill!Sample
  BY DEF Kill!Next, Kill!Pass, Kill!List, Kill!Start, Kill!Exit, Kill!Run, Kill!Hold, Kill!Release
<1>2. p \in Kill!Sampled /\ Kill!Elapsed(p) >= KillAfter
  BY <1>1 DEF Kill!Sample
<1>3. p \in KillProcs /\ p \in killLive \cap Rules /\ p \notin killHeld
  BY <1>2 DEF Kill!Sampled, KillInv
<1>4. p \notin ran /\ Kill!Started(lastActive[p]) >= KillAfter
  BY <1>2, <1>3 DEF Kill!Elapsed, Kill!KeyOf
<1>5. quiet'[p] = Kill!Started(quiet[p])
  BY <1>1, <1>3, <1>4 DEF Kill!Sample
<1>6. QED
  BY <1>3, <1>4, <1>5 DEF KillInv, Kill!Started

\* The auto-kill ends only a process that it has itself sampled for auto_kill_idle_after
\* without seeing it run (maintenance.rs:205-236), whatever pids are used again.
THEOREM KillsOnlyQuiet == Kill!Spec => Kill!KilledWhenQuiet
<1>1. KillInv /\ [Kill!Next]_Kill!vars
        => [\A p \in killTermed' \ killTermed : quiet'[p] >= KillAfter]_Kill!vars
  BY KillQuiet
<1>2. QED
  BY <1>1, KillStart, KillStep, PTL DEF Kill!Spec, Kill!KilledWhenQuiet

-----------------------------------------------------------------------------
(* The leak guard.                                                         *)

GroupStates == [samples : Seq(Leak!Samples), cool : 0..CooldownSec]

\* The members of f that were older than a.
Elder(f, a) == {i \in Leak!Members(f) : ages[i] > a}

\* A cooldown that is over began a cooldown ago, and a sample counted every member that is
\* now older than it is.
GroupOK(f) ==
    /\ CooldownSec <= groups[f].cool + rested[f]
    /\ \A n \in DOMAIN groups[f].samples :
          Cardinality(Elder(f, groups[f].samples[n].age)) <= groups[f].samples[n].count

LeakInv ==
    /\ leakLive \subseteq LeakPids /\ ages \in [LeakPids -> 0..LeakMaxAge]
    /\ \A i \in LeakPids \ leakLive : ages[i] = 0
    /\ groups \in [Families -> GroupStates] /\ rested \in [Families -> 0..LeakMaxAge]
    /\ \A f \in Families : GroupOK(f)

\* A process knows as its elders those with lower pids.
InOrder ==
    /\ leakLive \subseteq LeakPids /\ elders \in [LeakPids -> SUBSET LeakPids]
    /\ \A i \in leakLive : elders[i] = {j \in leakLive : j < i}

\* The members of a family can be counted.
LEMMA MembersFinite ==
    ASSUME leakLive \subseteq LeakPids
    PROVE  \A f \in Families :
             /\ IsFiniteSet(Leak!Members(f)) /\ Cardinality(Leak!Members(f)) \in Nat
             /\ \A T \in SUBSET Leak!Members(f) :
                   /\ IsFiniteSet(T) /\ Cardinality(T) \in Nat
                   /\ Cardinality(T) <= Cardinality(Leak!Members(f))
<1> USE LeakAssumption DEF Leak!PidsAssumption
<1>0. IsFiniteSet(LeakPids)
  BY DEF Leak!IsFiniteSet, IsFiniteSet
<1>1. ASSUME NEW f \in Families
      PROVE  Leak!Members(f) \subseteq LeakPids /\ IsFiniteSet(Leak!Members(f))
  <2>1. Leak!Members(f) \subseteq LeakPids
    BY DEF Leak!Members
  <2>2. QED
    BY <2>1, <1>0, FS_Subset
<1>2. QED
  BY <1>1, FS_Subset, FS_CardinalityType

\* The rest of a sequence from its place c on.
LEMMA Suffix ==
    ASSUME NEW S, NEW s \in Seq(S), NEW c \in 1..Len(s)
    PROVE  /\ SubSeq(s, c, Len(s)) \in Seq(S) /\ Len(SubSeq(s, c, Len(s))) \in Nat
           /\ Len(SubSeq(s, c, Len(s))) > 0
           /\ \A k \in 1..Len(SubSeq(s, c, Len(s))) :
                 \E m \in 1..Len(s) : SubSeq(s, c, Len(s))[k] = s[m]
           /\ SubSeq(s, c, Len(s))[1] = s[c]
           /\ SubSeq(s, c, Len(s))[Len(SubSeq(s, c, Len(s)))] = s[Len(s)]
<1>1. PICK L \in Nat : L = Len(s)
  OBVIOUS
<1>2. PICK w : w = SubSeq(s, c, L)
  OBVIOUS
<1>3. c \in Int /\ L \in Int /\ c >= 1 /\ c <= L /\ \A i \in c..L : s[i] \in S
  BY <1>1
<1>4. w \in Seq(S) /\ Len(w) = (IF c <= L THEN L - c + 1 ELSE 0)
      /\ \A i \in 1..(L - c + 1) : w[i] = s[c + i - 1]
  BY <1>2, <1>3, SubSeqProperties
<1>5. PICK d \in Nat : d = L - c + 1
  BY <1>3
<1>6. Len(w) = d /\ d > 0 /\ \A i \in 1..d : w[i] = s[c + i - 1]
  BY <1>3, <1>4, <1>5
<1>7. \A i \in 1..d : c + i - 1 \in 1..L
  BY <1>3, <1>5
<1>8. c + 1 - 1 = c /\ c + d - 1 = L /\ 1 \in 1..d /\ d \in 1..d
  BY <1>3, <1>5, <1>6
<1>9. QED
  BY <1>1, <1>2, <1>4, <1>6, <1>7, <1>8

\* What is left in the window: samples that were there, the last among them, and the first
\* of them is young enough.
LEMMA WindowFacts ==
    ASSUME NEW s \in Seq(Leak!Samples), Len(s) > 0, s[Len(s)].age <= WindowSec
    PROVE  /\ Leak!InWindow(s) \in Seq(Leak!Samples) /\ Len(Leak!InWindow(s)) > 0
           /\ \A k \in 1..Len(Leak!InWindow(s)) :
                 \E m \in 1..Len(s) : Leak!InWindow(s)[k] = s[m]
           /\ Leak!InWindow(s)[Len(Leak!InWindow(s))] = s[Len(s)]
           /\ Leak!InWindow(s)[1].age <= WindowSec
<1> DEFINE T == {n \in 1..Len(s) : s[n].age <= WindowSec}
           First(n) == s[n].age <= WindowSec /\ \A m \in 1..(n - 1) : s[m].age > WindowSec
<1>0. Len(s) \in Nat /\ \A n \in 1..Len(s) : s[n].age \in Int
  <2>1. Len(s) \in Nat /\ \A n \in 1..Len(s) : s[n] \in Leak!Samples
    OBVIOUS
  <2>2. LeakMaxAge \in Nat
    BY LeakAssumption DEF Leak!LimitsAssumption
  <2>3. \A e \in Leak!Samples : e.age \in Int
    BY <2>2 DEF Leak!Samples
  <2>4. QED
    BY <2>1, <2>3
<1>1. T \subseteq Nat /\ T # {}
  BY <1>0
<1>2. PICK n \in T : \A m \in T : n <= m
  BY <1>1, Least
<1>3. WindowSec \in Int
  BY LeakAssumption DEF Leak!LimitsAssumption
<1>4. n \in DOMAIN s /\ First(n)
  BY <1>0, <1>2, <1>3
<1>5. PICK c \in DOMAIN s : First(c) /\ Leak!InWindow(s) = SubSeq(s, c, Len(s))
  <2>1. (CHOOSE c \in DOMAIN s : First(c)) \in DOMAIN s
        /\ First(CHOOSE c \in DOMAIN s : First(c))
    BY <1>4
  <2>2. Leak!InWindow(s) = SubSeq(s, CHOOSE c \in DOMAIN s : First(c), Len(s))
    BY DEF Leak!InWindow
  <2>3. QED
    BY <2>1, <2>2
<1>6. c \in 1..Len(s) /\ s[c].age <= WindowSec
  BY <1>5
<1>7. PICK w : w = SubSeq(s, c, Len(s))
  OBVIOUS
<1>8. /\ w \in Seq(Leak!Samples) /\ Len(w) \in Nat /\ Len(w) > 0
      /\ \A k \in 1..Len(w) : \E m \in 1..Len(s) : w[k] = s[m]
      /\ w[1] = s[c] /\ w[Len(w)] = s[Len(s)]
  BY <1>6, <1>7, Suffix, Zenon
<1>9. QED
  BY <1>5, <1>6, <1>7, <1>8

\* What Append puts last.
LEMMA Appended ==
    ASSUME NEW S, NEW s \in Seq(S), NEW e \in S
    PROVE  /\ Append(s, e) \in Seq(S) /\ Len(Append(s, e)) \in Nat /\ Len(Append(s, e)) > 0
           /\ Append(s, e)[Len(Append(s, e))] = e
           /\ \A m \in 1..Len(Append(s, e)) :
                 \/ Append(s, e)[m] = e
                 \/ m \in DOMAIN s /\ Append(s, e)[m] = s[m]
<1>1. /\ Append(s, e) \in Seq(S) /\ Len(Append(s, e)) = Len(s) + 1
      /\ \A i \in 1..Len(s) : Append(s, e)[i] = s[i]
      /\ Append(s, e)[Len(s) + 1] = e
  BY AppendProperties
<1>2. Len(s) \in Nat /\ DOMAIN s = 1..Len(s)
  OBVIOUS
<1>3. \A m \in 1..(Len(s) + 1) : m \in 1..Len(s) \/ m = Len(s) + 1
  BY <1>2
<1>4. PICK a : a = Append(s, e)
  OBVIOUS
<1>5. /\ a \in Seq(S) /\ Len(a) = Len(s) + 1 /\ a[Len(s) + 1] = e
      /\ \A i \in 1..Len(s) : a[i] = s[i]
  BY <1>1, <1>4
<1>6. ASSUME NEW m \in 1..Len(a) PROVE a[m] = e \/ (m \in DOMAIN s /\ a[m] = s[m])
  BY <1>2, <1>3, <1>5
<1>7. QED
  BY <1>2, <1>4, <1>5, <1>6

\* The cardinality that LeakGuard uses is that of FiniteSets.
LEMMA LeakCard == \A T : Leak!Cardinality(T) = Cardinality(T)
BY DEF Leak!Cardinality, Cardinality

\* The limits of the guard, one by one.
LEMMA LeakLimits ==
    /\ LeakMaxAge \in Nat /\ CooldownSec \in Nat /\ CooldownSec <= LeakMaxAge
    /\ WindowSec \in Nat /\ WindowSec <= LeakMaxAge
    /\ MinGroupCount \in Nat \ {0} /\ GrowthOverWindow \in Nat /\ KeepNewest \in Nat
    /\ \A gap \in LeakGaps : gap \in Nat /\ gap > 0
    /\ LeakPids \subseteq Nat
BY LeakAssumption DEF Leak!LimitsAssumption, Leak!PidsAssumption

\* Both invariants of the leak guard hold before its first look.
LEMMA LeakStart == Leak!Init => LeakInv /\ InOrder
<1> SUFFICES ASSUME Leak!Init PROVE LeakInv /\ InOrder
  OBVIOUS
<1> USE LeakLimits
<1>1. Leak!NoGroup \in GroupStates /\ Leak!NoGroup.samples = <<>> /\ Leak!NoGroup.cool = 0
  BY DEF Leak!NoGroup, GroupStates
<1>2. /\ groups \in [Families -> GroupStates] /\ rested \in [Families -> 0..LeakMaxAge]
      /\ leakLive = {} /\ ages \in [LeakPids -> 0..LeakMaxAge]
      /\ \A i \in LeakPids : ages[i] = 0
      /\ elders \in [LeakPids -> SUBSET LeakPids]
  BY <1>1 DEF Leak!Init
<1>3. ASSUME NEW f \in Families PROVE GroupOK(f)
  BY <1>1, <1>3 DEF Leak!Init, GroupOK
<1>4. QED
  BY <1>2, <1>3 DEF LeakInv, InOrder

-----------------------------------------------------------------------------
(* What a look of the guard makes of a family.                             *)

AgesAfter(gap) == [i \in LeakPids |-> IF i \in leakLive THEN Leak!Capped(ages[i] + gap) ELSE 0]
Before(f, gap) == Leak!Dropped(f, Leak!Aged(groups[f], gap))
Now(f, gap)    == IF Leak!Watched(f) THEN Leak!Counted(f, Before(f, gap)) ELSE Before(f, gap)

\* Every sample counted at least the members that are older than it is.
Counts(f, samples, gap) ==
    \A n \in DOMAIN samples :
        Cardinality({i \in Leak!Members(f) : AgesAfter(gap)[i] > samples[n].age})
            <= samples[n].count

\* Time passes for the samples of a family and for its members alike.
LEMMA AgedOK ==
    ASSUME LeakInv, NEW f \in Families, NEW gap \in LeakGaps
    PROVE  LET g == Leak!Aged(groups[f], gap)
           IN /\ g \in GroupStates /\ Counts(f, g.samples, gap)
              /\ g.cool = Leak!Less(groups[f].cool, gap)
<1> USE LeakLimits
<1> DEFINE g == Leak!Aged(groups[f], gap)
           old == groups[f].samples
<1>1. /\ groups[f] \in GroupStates /\ old \in Seq(Leak!Samples)
      /\ groups[f].cool \in 0..CooldownSec
  BY DEF LeakInv, GroupStates
<1>2. g.samples = [n \in DOMAIN old |-> [old[n] EXCEPT !.age = Leak!Capped(@ + gap)]]
      /\ g.cool = Leak!Less(groups[f].cool, gap)
  BY DEF Leak!Aged
<1>3. ASSUME NEW n \in DOMAIN old
      PROVE  /\ g.samples[n] \in Leak!Samples /\ g.samples[n].count = old[n].count
             /\ g.samples[n].age = Leak!Capped(old[n].age + gap) /\ old[n] \in Leak!Samples
  <2>1. old[n] \in Leak!Samples
    BY <1>1
  <2>2. old[n].age \in 0..LeakMaxAge /\ old[n].count \in Nat
    BY <2>1 DEF Leak!Samples
  <2>3. Leak!Capped(old[n].age + gap) \in 0..LeakMaxAge
    BY <2>2 DEF Leak!Capped
  <2>4. QED
    BY <1>2, <2>1, <2>3 DEF Leak!Samples
<1>4. g \in GroupStates
  <2>1. g.cool \in 0..CooldownSec
    BY <1>1, <1>2 DEF Leak!Less
  <2>2. g.samples \in Seq(Leak!Samples)
    <3>1. DOMAIN old = 1..Len(old) /\ Len(old) \in Nat
      BY <1>1
    <3>2. g.samples \in [1..Len(old) -> Leak!Samples]
      BY <1>2, <1>3, <3>1
    <3>3. QED
      BY <3>1, <3>2, SeqDef
  <2>3. g = [samples |-> g.samples, cool |-> g.cool]
    BY DEF Leak!Aged
  <2>4. QED
    BY <2>1, <2>2, <2>3 DEF GroupStates
<1> HIDE DEF g
<1>5. ASSUME NEW n \in DOMAIN g.samples
      PROVE  Cardinality({i \in Leak!Members(f) : AgesAfter(gap)[i] > g.samples[n].age})
                <= g.samples[n].count
  <2> DEFINE Later == {i \in Leak!Members(f) : AgesAfter(gap)[i] > g.samples[n].age}
             Then  == Elder(f, old[n].age)
  <2>1. n \in DOMAIN old
    BY <1>2, <1>5
  <2>2. old[n].age \in Nat /\ old[n].count \in Nat
    BY <2>1, <1>3 DEF Leak!Samples
  <2>3. Cardinality(Then) <= old[n].count
    BY <2>1 DEF LeakInv, GroupOK
  <2>4. ASSUME NEW i \in Later PROVE i \in Then
    <3>1. i \in Leak!Members(f) /\ i \in leakLive /\ i \in LeakPids /\ ages[i] \in Nat
      BY DEF LeakInv, Leak!Members
    <3>2. Leak!Capped(ages[i] + gap) > Leak!Capped(old[n].age + gap)
      BY <2>1, <1>3, <3>1 DEF AgesAfter
    <3>3. ages[i] > old[n].age
      BY <2>2, <3>1, <3>2 DEF Leak!Capped
    <3>4. QED
      BY <3>1, <3>3 DEF Elder
  <2>5. Later \subseteq Then /\ Then \subseteq Leak!Members(f)
    BY <2>4 DEF Elder
  <2>6. IsFiniteSet(Then)
    BY <2>5, MembersFinite DEF LeakInv
  <2>7. Cardinality(Later) <= Cardinality(Then) /\ Cardinality(Later) \in Nat
        /\ Cardinality(Then) \in Nat
    BY <2>5, <2>6, FS_Subset, FS_CardinalityType
  <2>8. g.samples[n].count = old[n].count
    BY <1>3, <2>1
  <2>9. QED
    BY <2>2, <2>3, <2>7, <2>8
<1>6. QED
  BY <1>2, <1>4, <1>5 DEF Counts, g

\* A family that is not below the floor loses nothing; below it, everything.
LEMMA BeforeOK ==
    ASSUME LeakInv, NEW f \in Families, NEW gap \in LeakGaps
    PROVE  LET b == Before(f, gap)
           IN /\ b \in GroupStates /\ Counts(f, b.samples, gap)
              /\ b.cool = IF Cardinality(Leak!Members(f)) < MinGroupCount THEN 0
                          ELSE Leak!Less(groups[f].cool, gap)
<1> USE LeakLimits
<1>1. Leak!NoGroup \in GroupStates /\ Leak!NoGroup.samples = <<>> /\ Leak!NoGroup.cool = 0
  BY DEF Leak!NoGroup, GroupStates
<1>2. Counts(f, Leak!NoGroup.samples, gap)
  BY <1>1 DEF Counts
<1>3. CASE Cardinality(Leak!Members(f)) < MinGroupCount
  BY <1>1, <1>2, <1>3, LeakCard DEF Before, Leak!Dropped
<1>4. CASE ~(Cardinality(Leak!Members(f)) < MinGroupCount)
  <2>1. Before(f, gap) = Leak!Aged(groups[f], gap)
    BY <1>4, LeakCard DEF Before, Leak!Dropped
  <2>2. QED
    BY <1>4, <2>1, AgedOK
<1>5. QED
  BY <1>3, <1>4

\* The samples of a family with the one that is taken now.
LEMMA NowOK ==
    ASSUME LeakInv, NEW f \in Families, NEW gap \in LeakGaps
    PROVE  LET n == Now(f, gap)
           IN /\ n \in GroupStates /\ Counts(f, n.samples, gap)
              /\ n.cool = IF Cardinality(Leak!Members(f)) < MinGroupCount THEN 0
                          ELSE Leak!Less(groups[f].cool, gap)
              /\ Leak!Watched(f) =>
                    /\ Len(n.samples) > 0 /\ n.samples[1].age <= WindowSec
                    /\ n.samples[Len(n.samples)].count = Cardinality(Leak!Members(f))
<1> USE LeakLimits
<1>1. PICK b : b = Before(f, gap)
  OBVIOUS
<1>2. /\ b \in GroupStates /\ Counts(f, b.samples, gap)
      /\ b.cool = IF Cardinality(Leak!Members(f)) < MinGroupCount THEN 0
                  ELSE Leak!Less(groups[f].cool, gap)
  BY <1>1, BeforeOK
<1>3. CASE ~Leak!Watched(f)
  BY <1>1, <1>2, <1>3 DEF Now
<1>4. CASE Leak!Watched(f)
  <2>1. PICK c \in Nat : c = Cardinality(Leak!Members(f))
    BY MembersFinite DEF LeakInv
  <2>2. PICK e : e = [count |-> c, age |-> 0]
    OBVIOUS
  <2>3. e \in Leak!Samples /\ e.age = 0 /\ e.count = c
    BY <2>2 DEF Leak!Samples
  <2>4. PICK s : s = Append(b.samples, e)
    OBVIOUS
  <2>5. b.samples \in Seq(Leak!Samples)
    BY <1>2 DEF GroupStates
  <2>6. /\ s \in Seq(Leak!Samples) /\ Len(s) > 0 /\ s[Len(s)] = e
        /\ \A m \in 1..Len(s) :
              s[m] = e \/ (m \in DOMAIN b.samples /\ s[m] = b.samples[m])
    <3>1. PICK t \in Seq(Leak!Samples) : t = b.samples
      BY <2>5
    <3> DEFINE a == Append(t, e)
    <3>2. /\ a \in Seq(Leak!Samples) /\ Len(a) > 0 /\ a[Len(a)] = e
          /\ \A m \in 1..Len(a) : a[m] = e \/ (m \in DOMAIN t /\ a[m] = t[m])
      BY <2>3, Appended
    <3> HIDE DEF a
    <3>3. s = a
      BY <2>4, <3>1 DEF a
    <3>4. QED
      BY <3>1, <3>2, <3>3
  <2>7. PICK w : w = Leak!InWindow(s)
    OBVIOUS
  <2>8. /\ w \in Seq(Leak!Samples) /\ Len(w) > 0 /\ w[Len(w)] = e /\ w[1].age <= WindowSec
        /\ \A k \in 1..Len(w) : \E m \in 1..Len(s) : w[k] = s[m]
    <3>1. s[Len(s)].age <= WindowSec
      BY <2>3, <2>6
    <3>2. QED
      BY <3>1, <2>6, <2>7, WindowFacts
  <2>9. Now(f, gap) = [b EXCEPT !.samples = w]
    BY <1>1, <1>4, <2>1, <2>2, <2>4, <2>7, LeakCard DEF Now, Leak!Counted
  <2>10. Now(f, gap) \in GroupStates /\ Now(f, gap).samples = w /\ Now(f, gap).cool = b.cool
    BY <1>2, <2>8, <2>9 DEF GroupStates
  <2>11. ASSUME NEW k \in DOMAIN w
         PROVE  Cardinality({i \in Leak!Members(f) : AgesAfter(gap)[i] > w[k].age})
                   <= w[k].count
    <3>1. PICK m \in 1..Len(s) : w[k] = s[m]
      BY <2>8
    <3>2. CASE s[m] = e
      BY <2>1, <2>3, <3>1, <3>2, MembersFinite DEF LeakInv
    <3>3. CASE m \in DOMAIN b.samples /\ s[m] = b.samples[m]
      BY <1>2, <3>1, <3>3 DEF Counts
    <3>4. QED
      BY <2>6, <3>2, <3>3
  <2>12. QED
    BY <1>2, <2>1, <2>3, <2>8, <2>10, <2>11 DEF Counts
<1>5. QED
  BY <1>3, <1>4

-----------------------------------------------------------------------------
\* What a look does, in the terms of this module.
LEMMA Look ==
    ASSUME LeakInv, Leak!Update
    PROVE  \E gap \in LeakGaps :
             /\ struck' = {f \in Families :
                   Leak!Watched(f) /\ Leak!Leaking(f, Now(f, gap)) /\ Now(f, gap).cool = 0}
             /\ groups' = [f \in Families |->
                   IF f \in struck' THEN Leak!Cooling(Now(f, gap)) ELSE Now(f, gap)]
             /\ ages' = AgesAfter(gap)
             /\ rested' = [f \in Families |->
                   IF f \in struck' THEN 0
                   ELSE IF Cardinality(Leak!Members(f)) < MinGroupCount THEN LeakMaxAge
                   ELSE Leak!Capped(rested[f] + gap)]
             /\ leakTermed' = leakTermed \cup UNION {Leak!Stale(f) : f \in struck'}
             /\ UNCHANGED <<leakLive, elders>>
<1>1. PICK gap \in LeakGaps : Leak!Update!(gap)
  BY DEF Leak!Update
<1>2. QED
  BY <1>1, LeakCard DEF Before, Now, AgesAfter

\* After a look every sample has counted those that are older than it, and a cooldown that
\* is over began a cooldown ago.
LEMMA LookOK ==
    ASSUME LeakInv, Leak!Update
    PROVE  LeakInv'
<1> USE LeakLimits
<1>1. PICK gap \in LeakGaps :
         /\ struck' = {f \in Families :
               Leak!Watched(f) /\ Leak!Leaking(f, Now(f, gap)) /\ Now(f, gap).cool = 0}
         /\ groups' = [f \in Families |->
               IF f \in struck' THEN Leak!Cooling(Now(f, gap)) ELSE Now(f, gap)]
         /\ ages' = AgesAfter(gap)
         /\ rested' = [f \in Families |->
               IF f \in struck' THEN 0
               ELSE IF Cardinality(Leak!Members(f)) < MinGroupCount THEN LeakMaxAge
               ELSE Leak!Capped(rested[f] + gap)]
         /\ UNCHANGED leakLive
  BY Look
<1>2. ages' \in [LeakPids -> 0..LeakMaxAge] /\ \A i \in LeakPids \ leakLive : ages'[i] = 0
  BY <1>1 DEF AgesAfter, Leak!Capped, LeakInv
<1>3. ASSUME NEW f \in Families
      PROVE  /\ groups'[f] \in GroupStates /\ rested'[f] \in 0..LeakMaxAge
             /\ CooldownSec <= groups'[f].cool + rested'[f]
             /\ groups'[f].samples = Now(f, gap).samples
  <2>1. /\ Now(f, gap) \in GroupStates
        /\ Now(f, gap).cool = IF Cardinality(Leak!Members(f)) < MinGroupCount THEN 0
                              ELSE Leak!Less(groups[f].cool, gap)
    BY NowOK
  <2>2. /\ groups[f].cool \in 0..CooldownSec /\ rested[f] \in 0..LeakMaxAge
        /\ CooldownSec <= groups[f].cool + rested[f]
    BY DEF LeakInv, GroupOK, GroupStates
  <2>3. CASE f \in struck'
    <3>1. groups'[f] = [Now(f, gap) EXCEPT !.cool = CooldownSec] /\ rested'[f] = 0
      BY <1>1, <2>3 DEF Leak!Cooling
    <3>2. /\ groups'[f] \in GroupStates /\ groups'[f].cool = CooldownSec
          /\ groups'[f].samples = Now(f, gap).samples
      BY <2>1, <3>1 DEF GroupStates
    <3>3. QED
      BY <3>1, <3>2
  <2>4. CASE f \notin struck'
    <3>1. groups'[f] = Now(f, gap)
          /\ rested'[f] = IF Cardinality(Leak!Members(f)) < MinGroupCount THEN LeakMaxAge
                          ELSE Leak!Capped(rested[f] + gap)
      BY <1>1, <2>4
    <3>2. rested'[f] \in 0..LeakMaxAge
      BY <2>2, <3>1 DEF Leak!Capped
    <3>3. CASE Cardinality(Leak!Members(f)) < MinGroupCount
      BY <2>1, <3>1, <3>2, <3>3
    <3>4. CASE ~(Cardinality(Leak!Members(f)) < MinGroupCount)
      <4>1. CooldownSec <= Leak!Less(groups[f].cool, gap) + Leak!Capped(rested[f] + gap)
        BY <2>2 DEF Leak!Less, Leak!Capped
      <4>2. QED
        BY <2>1, <3>1, <3>2, <3>4, <4>1
    <3>5. QED
      BY <3>3, <3>4
  <2>5. QED
    BY <2>3, <2>4
<1>4. ASSUME NEW f \in Families PROVE GroupOK(f)'
  <2>1. Counts(f, groups'[f].samples, gap)
    BY <1>3, NowOK
  <2>2. Leak!Members(f)' = Leak!Members(f)
    BY <1>1 DEF Leak!Members
  <2>3. ASSUME NEW n \in DOMAIN groups'[f].samples
        PROVE  Cardinality({i \in Leak!Members(f)' : ages'[i] > groups'[f].samples[n].age})
                   <= groups'[f].samples[n].count
    BY <1>1, <2>1, <2>2, <2>3 DEF Counts
  <2>4. CooldownSec <= groups'[f].cool + rested'[f]
    BY <1>3
  <2> HIDE DEF Leak!Members
  <2>5. QED
    BY <2>3, <2>4 DEF GroupOK, Elder
<1>5. groups' \in [Families -> GroupStates] /\ rested' \in [Families -> 0..LeakMaxAge]
  BY <1>1, <1>3
<1>6. QED
  BY <1>1, <1>2, <1>4, <1>5 DEF LeakInv

\* A process that comes is older than no sample; one that goes is missed by none.
LEMMA LeakStep == LeakInv /\ [Leak!Next]_Leak!vars => LeakInv'
<1> SUFFICES ASSUME LeakInv, [Leak!Next]_Leak!vars PROVE LeakInv'
  OBVIOUS
<1> USE LeakLimits
<1>1. CASE Leak!Update
  BY <1>1, LookOK
<1>2. ASSUME NEW i \in LeakPids, Leak!Start(i) \/ Leak!Exit(i) PROVE LeakInv'
  <2>1. /\ leakLive' \subseteq LeakPids /\ ages' \in [LeakPids -> 0..LeakMaxAge]
        /\ \A j \in LeakPids \ leakLive' : ages'[j] = 0
        /\ UNCHANGED <<groups, rested>>
    <3>1. CASE Leak!Start(i)
      BY <3>1 DEF Leak!Start, LeakInv
    <3>2. CASE Leak!Exit(i)
      BY <3>2 DEF Leak!Exit, LeakInv
    <3>3. QED
      BY <1>2, <3>1, <3>2
  <2>2. ASSUME NEW j \in leakLive', ages'[j] > 0 PROVE j \in leakLive /\ ages'[j] = ages[j]
    <3>1. CASE Leak!Start(i)
      <4>1. i \notin leakLive /\ leakLive' = leakLive \cup {i} /\ ages' = ages /\ ages[i] = 0
        BY <3>1 DEF Leak!Start, LeakInv
      <4>2. QED
        BY <2>2, <4>1
    <3>2. CASE Leak!Exit(i)
      <4>1. leakLive' = leakLive \ {i} /\ ages' = [ages EXCEPT ![i] = 0]
        BY <3>2 DEF Leak!Exit
      <4>2. ages \in [LeakPids -> 0..LeakMaxAge] /\ leakLive \subseteq LeakPids
        BY DEF LeakInv
      <4>3. QED
        BY <4>1, <4>2
    <3>3. QED
      BY <1>2, <3>1, <3>2
  <2>3. ASSUME NEW f \in Families, NEW n \in DOMAIN groups[f].samples
        PROVE  Cardinality(Elder(f, groups[f].samples[n].age)') <= groups[f].samples[n].count
    <3> DEFINE a == groups[f].samples[n].age
    <3>1. groups[f].samples[n] \in Leak!Samples
      BY DEF LeakInv, GroupStates
    <3>2. a \in Nat /\ groups[f].samples[n].count \in Nat
      BY <3>1 DEF Leak!Samples
    <3> HIDE DEF a
    <3>3. Elder(f, a)' \subseteq Elder(f, a)
      <4>1. a' = a
        BY <2>1 DEF a
      <4>2. ASSUME NEW j \in leakLive', FamilyOf[j] = f, ages'[j] > a
            PROVE  j \in leakLive /\ ages[j] > a
        <5>1. ages'[j] \in Nat
          BY <2>1
        <5>2. ages'[j] > 0
          BY <3>2, <4>2, <5>1
        <5>3. QED
          BY <2>2, <4>2, <5>2
      <4>3. QED
        BY <4>1, <4>2 DEF Elder, Leak!Members
    <3>4. IsFiniteSet(Elder(f, a)) /\ Cardinality(Elder(f, a)) \in Nat
      <4>1. Elder(f, a) \subseteq Leak!Members(f)
        BY DEF Elder
      <4>2. QED
        BY <4>1, MembersFinite DEF LeakInv
    <3>5. Cardinality(Elder(f, a)') <= Cardinality(Elder(f, a))
          /\ Cardinality(Elder(f, a)') \in Nat
      BY <3>3, <3>4, FS_Subset, FS_CardinalityType
    <3>6. Cardinality(Elder(f, a)) <= groups[f].samples[n].count
      BY DEF LeakInv, GroupOK, a
    <3>7. QED
      BY <3>2, <3>4, <3>5, <3>6 DEF a
  <2>4. ASSUME NEW f \in Families PROVE GroupOK(f)'
    BY <2>1, <2>3 DEF GroupOK, LeakInv
  <2>5. QED
    BY <2>1, <2>4 DEF LeakInv
<1>3. CASE UNCHANGED Leak!vars
  BY <1>3 DEF LeakInv, GroupOK, Elder, Leak!Members, Leak!vars
<1>4. QED
  BY <1>1, <1>2, <1>3 DEF Leak!Next

-----------------------------------------------------------------------------
(* Nobody is reaped by the leak guard without a cause.                     *)

\* While pids do not wrap, a process with the lower of two pids is the elder.
LEMMA InOrderStep == ~Wraps /\ InOrder /\ [Leak!Next]_Leak!vars => InOrder'
<1> SUFFICES ASSUME ~Wraps, InOrder, [Leak!Next]_Leak!vars PROVE InOrder'
  OBVIOUS
<1> USE LeakLimits
<1>1. CASE Leak!Update
  BY <1>1 DEF Leak!Update, InOrder
<1>2. ASSUME NEW i \in LeakPids, Leak!Start(i) PROVE InOrder'
  <2>1. /\ i \notin leakLive /\ \A j \in leakLive : j < i
        /\ leakLive' = leakLive \cup {i} /\ elders' = [elders EXCEPT ![i] = leakLive]
    BY <1>2 DEF Leak!Start
  <2>2. leakLive' \subseteq LeakPids /\ elders' \in [LeakPids -> SUBSET LeakPids]
    BY <2>1 DEF InOrder
  <2>3. ASSUME NEW k \in leakLive' PROVE elders'[k] = {j \in leakLive' : j < k}
    <3>1. \A j, m \in leakLive' : j \in Nat /\ m \in Nat /\ (j < m => ~(m < j)) /\ ~(j < j)
      BY <2>2
    <3>2. CASE k = i
      <4>1. elders'[k] = leakLive
        BY <2>1, <3>2 DEF InOrder
      <4>2. QED
        BY <2>1, <3>1, <3>2, <4>1
    <3>3. CASE k # i
      <4>1. k \in leakLive /\ elders'[k] = {j \in leakLive : j < k}
        BY <2>1, <3>3 DEF InOrder
      <4>2. ~(i < k)
        BY <2>1, <3>1, <4>1
      <4>3. QED
        BY <2>1, <4>1, <4>2
    <3>4. QED
      BY <3>2, <3>3
  <2>4. QED
    BY <2>2, <2>3 DEF InOrder
<1>3. ASSUME NEW i \in LeakPids, Leak!Exit(i) PROVE InOrder'
  BY <1>3 DEF Leak!Exit, InOrder
<1>4. CASE UNCHANGED Leak!vars
  BY <1>4 DEF InOrder, Leak!vars
<1>5. QED
  BY <1>1, <1>2, <1>3, <1>4 DEF Leak!Next

\* Only a look reaps.
LEMMA OnlyLooks ==
    ASSUME Leak!Next, NEW f \in struck'
    PROVE  Leak!Update
BY DEF Leak!Next, Leak!Start, Leak!Exit

\* A family that is reaped had GrowthOverWindow members fewer when its oldest sample was
\* taken: as many are no older than that sample.
LEMMA Grown ==
    ASSUME LeakInv, Leak!Update, NEW f \in struck'
    PROVE  Leak!Cardinality({i \in Leak!Members(f) : ages'[i] <= WindowSec})
               >= GrowthOverWindow
<1> USE LeakLimits
<1>1. PICK gap \in LeakGaps :
         /\ struck' = {g \in Families :
               Leak!Watched(g) /\ Leak!Leaking(g, Now(g, gap)) /\ Now(g, gap).cool = 0}
         /\ ages' = AgesAfter(gap)
  BY Look
<1>2. PICK s : s = Now(f, gap).samples
  OBVIOUS
<1>3. f \in Families /\ Leak!Watched(f) /\ Leak!Leaking(f, Now(f, gap))
  BY <1>1
<1>4. PICK c : c = Cardinality(Leak!Members(f))
  OBVIOUS
<1>5. /\ s \in Seq(Leak!Samples) /\ Counts(f, s, gap)
      /\ Len(s) > 0 /\ s[1].age <= WindowSec /\ s[Len(s)].count = c
  BY <1>2, <1>3, <1>4, NowOK DEF GroupStates
<1>6. 1 \in DOMAIN s /\ s[1] \in Leak!Samples /\ s # <<>>
  BY <1>5
<1>7. PICK h \in Nat, a \in Nat : h = s[1].count /\ a = s[1].age
  BY <1>6 DEF Leak!Samples
<1>8. Leak!Less(c, h) >= GrowthOverWindow
  <2>1. Leak!Last(s).count = c /\ Head(s).count = h
    BY <1>5, <1>6, <1>7 DEF Leak!Last
  <2>2. QED
    BY <1>2, <1>3, <2>1 DEF Leak!Leaking
<1> DEFINE Then  == {i \in Leak!Members(f) : AgesAfter(gap)[i] > a}
           Young == {i \in Leak!Members(f) : ages'[i] <= WindowSec}
<1>9. Cardinality(Then) <= h
  BY <1>5, <1>6, <1>7 DEF Counts
<1>10. /\ IsFiniteSet(Leak!Members(f)) /\ c \in Nat
       /\ Cardinality(Then) \in Nat /\ Cardinality(Young) \in Nat /\ IsFiniteSet(Young)
  <2>1. Then \subseteq Leak!Members(f) /\ Young \subseteq Leak!Members(f)
    OBVIOUS
  <2>2. QED
    BY <1>3, <1>4, <2>1, MembersFinite DEF LeakInv
<1>11. Leak!Members(f) \ Then \subseteq Young
  <2>1. ASSUME NEW i \in Leak!Members(f), ~(AgesAfter(gap)[i] > a)
        PROVE  ages'[i] <= WindowSec
    <3>1. i \in leakLive /\ i \in LeakPids /\ ages[i] \in Nat
      BY DEF Leak!Members, LeakInv
    <3>2. AgesAfter(gap)[i] \in Nat
      BY <3>1 DEF AgesAfter, Leak!Capped
    <3>3. a <= WindowSec
      BY <1>5, <1>7
    <3>4. QED
      BY <1>1, <2>1, <3>2, <3>3
  <2>2. QED
    BY <2>1
<1>12. Cardinality(Leak!Members(f) \ Then) = c - Cardinality(Then)
  <2>1. Leak!Members(f) \cap Then = Then
    OBVIOUS
  <2>2. QED
    BY <1>4, <1>10, <2>1, FS_Difference
<1>13. Cardinality(Leak!Members(f) \ Then) <= Cardinality(Young)
  BY <1>10, <1>11, FS_Subset
<1> HIDE DEF Then, Young
<1>14. c - h <= Cardinality(Young)
  BY <1>9, <1>10, <1>12, <1>13
<1>15. Cardinality(Young) >= GrowthOverWindow
  BY <1>8, <1>10, <1>14 DEF Leak!Less
<1>16. QED
  BY <1>15, LeakCard DEF Young

\* Who is reaped has KeepNewest younger members beside him.
LEMMA Spared ==
    ASSUME InOrder, Leak!Update, LeakInv, NEW f \in struck',
           NEW i \in Leak!Members(f) \cap (leakTermed' \ leakTermed)
    PROVE  Leak!Cardinality({j \in Leak!Members(f) : i \in elders[j]}) >= KeepNewest
<1>1. PICK g \in struck' : i \in Leak!Stale(g)
  BY Look
<1>2. g = f
  BY <1>1 DEF Leak!Stale, Leak!Members
<1>3. Leak!Cardinality({j \in Leak!Members(f) : j > i}) >= KeepNewest
  BY <1>1, <1>2 DEF Leak!Stale
<1>4. {j \in Leak!Members(f) : i \in elders[j]} = {j \in Leak!Members(f) : j > i}
  <2>1. Leak!Members(f) \subseteq leakLive /\ leakLive \subseteq Nat
    BY LeakLimits DEF Leak!Members, LeakInv
  <2>2. \A j \in Leak!Members(f) : i \in elders[j] <=> j > i
    BY <2>1 DEF InOrder
  <2>3. QED
    BY <2>2
<1>5. QED
  BY <1>3, <1>4

\* Between two reaps of a family its cooldown went by.
LEMMA Spaced ==
    ASSUME LeakInv, Leak!Update, NEW f \in struck'
    PROVE  \E gap \in LeakGaps : rested[f] + gap >= CooldownSec
<1> USE LeakLimits
<1>1. PICK gap \in LeakGaps :
         struck' = {g \in Families :
               Leak!Watched(g) /\ Leak!Leaking(g, Now(g, gap)) /\ Now(g, gap).cool = 0}
  BY Look
<1>2. f \in Families /\ Leak!Watched(f) /\ Now(f, gap).cool = 0
  BY <1>1
<1>3. ~(Cardinality(Leak!Members(f)) < MinGroupCount)
  <2>1. Cardinality(Leak!Members(f)) \in Nat
    BY <1>2, MembersFinite DEF LeakInv
  <2>2. QED
    BY <1>2, <2>1, LeakCard DEF Leak!Watched
<1>4. Leak!Less(groups[f].cool, gap) = 0
  BY <1>2, <1>3, NowOK
<1>5. /\ groups[f].cool \in 0..CooldownSec /\ rested[f] \in 0..LeakMaxAge
      /\ CooldownSec <= groups[f].cool + rested[f]
  BY <1>2 DEF LeakInv, GroupOK, GroupStates
<1>6. QED
  BY <1>4, <1>5 DEF Leak!Less

\* The leak guard reaps only a family that grew in the window, spares its newest members
\* as long as pids do not wrap, and leaves those that were told to go the time to go
\* (leak_guard.rs:165-212).
THEOREM ReapsWithCause ==
    ASSUME ~Wraps
    PROVE  Leak!Spec => Leak!ReapedHasGrown /\ Leak!NewestSpared /\ Leak!ReapsAreSpaced
<1>1. LeakInv /\ [Leak!Next]_Leak!vars
        => [\A f \in struck' :
               Leak!Cardinality({i \in Leak!Members(f) : ages'[i] <= WindowSec})
                   >= GrowthOverWindow]_Leak!vars
  BY OnlyLooks, Grown
<1>2. LeakInv /\ InOrder /\ [Leak!Next]_Leak!vars
        => [\A f \in struck' : \A i \in Leak!Members(f) \cap (leakTermed' \ leakTermed) :
               Leak!Cardinality({j \in Leak!Members(f) : i \in elders[j]})
                   >= KeepNewest]_Leak!vars
  BY OnlyLooks, Spared
<1>3. LeakInv /\ [Leak!Next]_Leak!vars
        => [\A f \in struck' :
               \E gap \in LeakGaps : rested[f] + gap >= CooldownSec]_Leak!vars
  BY OnlyLooks, Spaced
<1>4. LeakInv /\ InOrder /\ [Leak!Next]_Leak!vars => InOrder'
  BY InOrderStep
<1>5. QED
  BY <1>1, <1>2, <1>3, <1>4, LeakStart, LeakStep, PTL
  DEF Leak!Spec, Leak!ReapedHasGrown, Leak!NewestSpared, Leak!ReapsAreSpaced

\* Nobody is terminated without a cause that is still true, by the auto-kill or by the leak
\* guard, as long as pids do not wrap (maintenance.rs:205-236, leak_guard.rs:165-212).
THEOREM NoKillWithoutCause ==
    ASSUME ~Wraps
    PROVE  Kill!Spec /\ Leak!Spec => TerminatedWithCause
<1>1. Leak!Spec => Leak!ReapedHasGrown /\ Leak!NewestSpared /\ Leak!ReapsAreSpaced
  BY ReapsWithCause
<1>2. QED
  BY <1>1, KillsOnlyQuiet, PTL DEF TerminatedWithCause

-----------------------------------------------------------------------------
(* The measures with a cooldown on the wall clock.                         *)

\* The wall clock makes a measure look no older than it is: it is only put back.
GatesInv ==
    /\ jumps \in Nat
    /\ age \in [Gates!Measures -> {Gates!Never} \cup (0 - GateMaxAge)..GateMaxAge]
    /\ since \in [Gates!Measures -> 0..GateMaxAge]
    /\ \A m \in Gates!Measures :
          IF age[m] = Gates!Never THEN since[m] = GateMaxAge ELSE age[m] <= since[m]

\* The limits of the measures, one by one.
LEMMA GateLimits ==
    /\ GateMaxAge \in Nat /\ GateMaxAge > 0
    /\ \A gap \in GateGaps : gap \in Nat /\ gap > 0
    /\ \A d \in Jumps : d \in Int
    /\ \A m \in Gates!Measures : Cooldown[m] \in Nat /\ 0 < Cooldown[m] /\ Cooldown[m] <= GateMaxAge
<1>1. /\ GateMaxAge \in Nat /\ \A gap \in GateGaps : gap \in Nat /\ gap > 0
      /\ \A d \in Jumps : d \in Int
      /\ Cooldown \in [Gates!Measures -> 1..GateMaxAge]
  BY GatesAssumption DEF Gates!LimitsAssumption
<1>2. "early" \in Gates!Measures
  BY DEF Gates!Measures
<1>3. \A m \in Gates!Measures : Cooldown[m] \in 1..GateMaxAge
  BY <1>1
<1>4. QED
  BY <1>1, <1>2, <1>3

\* No measure has been taken at the start, so that none is in cooldown.
LEMMA GatesStart == Gates!Init => GatesInv
BY GateLimits DEF Gates!Init, GatesInv, Gates!Never

\* A clock that is only put back lets no gate forget how long it has been shut.
LEMMA GatesStep ==
    ASSUME \A d \in Jumps : d <= 0
    PROVE  GatesInv /\ [Gates!Next]_Gates!vars => GatesInv'
<1> SUFFICES ASSUME GatesInv, [Gates!Next]_Gates!vars PROVE GatesInv'
  OBVIOUS
<1> USE GateLimits DEF Gates!Never
<1>1. ASSUME NEW l \in Gates!Levels, NEW gap \in GateGaps, Gates!Cycle(l, gap)
      PROVE  GatesInv'
  <2>1. ASSUME NEW m \in Gates!Measures
        PROVE  /\ age'[m] \in {Gates!Never} \cup (0 - GateMaxAge)..GateMaxAge
               /\ since'[m] \in 0..GateMaxAge
               /\ IF age'[m] = Gates!Never THEN since'[m] = GateMaxAge ELSE age'[m] <= since'[m]
    <3>1. /\ age[m] \in {Gates!Never} \cup (0 - GateMaxAge)..GateMaxAge
          /\ since[m] \in 0..GateMaxAge
          /\ IF age[m] = Gates!Never THEN since[m] = GateMaxAge ELSE age[m] <= since[m]
      BY DEF GatesInv
    <3>2. \/ age'[m] = 0 /\ since'[m] = 0
          \/ age'[m] = Gates!Aged(m, gap) /\ since'[m] = Gates!Capped(since[m] + gap)
      BY <1>1 DEF Gates!Cycle
    <3>3. QED
      BY <3>1, <3>2 DEF Gates!Aged, Gates!Capped
  <2>2. /\ age' \in [Gates!Measures -> {Gates!Never} \cup (0 - GateMaxAge)..GateMaxAge]
        /\ since' \in [Gates!Measures -> 0..GateMaxAge] /\ jumps' = jumps
    BY <1>1, <2>1 DEF Gates!Cycle
  <2>3. QED
    BY <2>1, <2>2 DEF GatesInv
<1>2. ASSUME NEW d \in Jumps, Gates!Jump(d) PROVE GatesInv'
  <2>1. ASSUME NEW m \in Gates!Measures
        PROVE  /\ age'[m] \in {Gates!Never} \cup (0 - GateMaxAge)..GateMaxAge
               /\ IF age'[m] = Gates!Never THEN since[m] = GateMaxAge ELSE age'[m] <= since[m]
    <3>1. /\ age[m] \in {Gates!Never} \cup (0 - GateMaxAge)..GateMaxAge
          /\ since[m] \in 0..GateMaxAge
          /\ IF age[m] = Gates!Never THEN since[m] = GateMaxAge ELSE age[m] <= since[m]
      BY DEF GatesInv
    <3>2. age'[m] = IF age[m] = Gates!Never THEN Gates!Never ELSE Gates!Capped(age[m] + d)
      BY <1>2 DEF Gates!Jump
    <3>3. QED
      BY <3>1, <3>2 DEF Gates!Capped
  <2>2. /\ age' \in [Gates!Measures -> {Gates!Never} \cup (0 - GateMaxAge)..GateMaxAge]
        /\ since' = since /\ jumps' \in Nat
    BY <1>2, <2>1 DEF Gates!Jump, GatesInv
  <2>3. QED
    BY <2>1, <2>2 DEF GatesInv
<1>3. CASE UNCHANGED Gates!vars
  BY <1>3 DEF GatesInv, Gates!vars
<1>4. QED
  BY <1>1, <1>2, <1>3 DEF Gates!Next

\* A measure that is taken has rested for its cooldown.
LEMMA Rested ==
    ASSUME GatesInv, Gates!Next, jumps' = jumps, NEW m \in Gates!Measures, since'[m] = 0
    PROVE  \E gap \in GateGaps : since[m] + gap >= Cooldown[m]
<1> USE GateLimits DEF Gates!Never
<1>1. PICK l \in Gates!Levels, gap \in GateGaps : Gates!Cycle(l, gap)
  BY DEF Gates!Next, Gates!Jump, GatesInv
<1>2. /\ age[m] \in {Gates!Never} \cup (0 - GateMaxAge)..GateMaxAge
      /\ since[m] \in 0..GateMaxAge
      /\ IF age[m] = Gates!Never THEN since[m] = GateMaxAge ELSE age[m] <= since[m]
  BY DEF GatesInv
<1>3. Gates!Cooled(m, Gates!Aged(m, gap)) \/ since'[m] = Gates!Capped(since[m] + gap)
  BY <1>1 DEF Gates!Cycle
<1>4. Gates!Capped(since[m] + gap) # 0
  BY <1>2 DEF Gates!Capped
<1>5. since[m] + gap >= Cooldown[m]
  BY <1>2, <1>3, <1>4 DEF Gates!Cooled, Gates!Aged, Gates!Capped
<1>6. QED
  BY <1>5

\* A measure keeps its cooldown although the wall clock may be put back
\* (early_reclaim.rs:31-36, cache_drop.rs:23-29).
THEOREM CooldownsKept ==
    ASSUME \A d \in Jumps : d <= 0
    PROVE  Gates!Spec => Gates!TakenSparingly
<1>1. GatesInv /\ [Gates!Next]_Gates!vars
        => [\A m \in Gates!Measures : jumps' = jumps /\ since'[m] = 0 =>
               \E gap \in GateGaps : since[m] + gap >= Cooldown[m]]_Gates!vars
  BY Rested
<1>2. GatesInv /\ [Gates!Next]_Gates!vars => GatesInv'
  BY GatesStep
<1>3. QED
  BY <1>1, <1>2, GatesStart, PTL DEF Gates!Spec, Gates!TakenSparingly

-----------------------------------------------------------------------------
(* Idle processes.                                                         *)

Histories ==
    [watched : Idle!Clocks, waited : Idle!Clocks, pushed : Idle!Clocks, spaced : Idle!Clocks]

\* The clock of a pid is no older than what the process that has it went through.
ClockOK(p) ==
    /\ reclaimAge[IdlePidOf[p]] <= seen[p].pushed
    /\ freezeAge[IdlePidOf[p]] <= seen[p].watched
    /\ seen[p].spaced >= Idle!IdleFor(p)
    /\ seen[p].waited >= FreezeAfter

IdleInv ==
    /\ idleLive \subseteq IdleProcs
    /\ \A p, q \in idleLive : IdlePidOf[p] = IdlePidOf[q] => p = q
    /\ reclaimAge \in [IdlePids -> Idle!Clocks] /\ freezeAge \in [IdlePids -> Idle!Clocks]
    /\ seen \in [IdleProcs -> Histories]
    /\ \A p \in IdleProcs \ idleLive : seen[p] = Idle!Unseen
    /\ \A p \in idleLive : ClockOK(p)

\* The limits of the idle watch, one by one.
LEMMA IdleLimits ==
    /\ IdleMaxAge \in Nat /\ IdleFirst \subseteq IdleProcs
    /\ \A p \in IdleProcs : IdlePidOf[p] \in IdlePids /\ Idle!IdleFor(p) \in 1..IdleMaxAge
    /\ \A gap \in IdleGaps : gap \in Nat /\ gap > 0
    /\ FreezeAfter \in 1..IdleMaxAge
    /\ \A p, q \in IdleFirst : IdlePidOf[p] = IdlePidOf[q] => p = q
BY IdleAssumption DEF Idle!ProcsAssumption, Idle!LimitsAssumption, Idle!IdleFor

\* No clock has been started at the start.
LEMMA IdleStart == Idle!Init => IdleInv
<1> SUFFICES ASSUME Idle!Init PROVE IdleInv
  OBVIOUS
<1> USE IdleLimits
<1>1. Idle!Unseen \in Histories /\ Idle!Unseen.watched = -1 /\ Idle!Unseen.pushed = -1
      /\ Idle!Unseen.waited = IdleMaxAge /\ Idle!Unseen.spaced = IdleMaxAge
  BY DEF Idle!Unseen, Histories, Idle!Clocks, Idle!NoClock, Idle!Ages
<1>2. /\ reclaimAge \in [IdlePids -> Idle!Clocks] /\ freezeAge \in [IdlePids -> Idle!Clocks]
      /\ seen \in [IdleProcs -> Histories] /\ \A p \in IdleProcs : seen[p] = Idle!Unseen
      /\ idleLive = IdleFirst
  BY <1>1 DEF Idle!Init, Idle!Clocks
<1>3. ASSUME NEW p \in IdleFirst PROVE ClockOK(p)
  BY <1>1, <1>2 DEF Idle!Init, ClockOK, Idle!NoClock
<1>4. QED
  BY <1>2, <1>3 DEF IdleInv

\* Clocks that go on together keep their order.
LEMMA OlderKeeps ==
    ASSUME NEW a \in Idle!Clocks, NEW b \in Idle!Clocks, NEW gap \in IdleGaps, a <= b
    PROVE  /\ Idle!Older(a, gap) \in Idle!Clocks /\ Idle!Older(a, gap) <= Idle!Older(b, gap)
           /\ a \in Idle!Ages => Idle!Older(a, gap) \in Idle!Ages
           /\ Idle!Older(Idle!NoClock, gap) = Idle!NoClock
           /\ Idle!Older(IdleMaxAge, gap) = IdleMaxAge
           /\ Idle!Started(a) \in Idle!Ages /\ Idle!Started(a) >= a
           /\ Idle!Started(a) <= Idle!Started(b) /\ Idle!Started(b) >= b
           /\ b \in Idle!Ages => Idle!Started(b) = b
           /\ Idle!Elapsed(a) = Idle!Started(a)
           /\ Idle!NoClock <= a
BY IdleLimits DEF Idle!Clocks, Idle!Ages, Idle!NoClock, Idle!Older, Idle!Started, Idle!Elapsed

\* What time does to the history of a process.
LEMMA AgedHistory ==
    ASSUME IdleInv, NEW gap \in IdleGaps, NEW p \in IdleProcs
    PROVE  /\ Idle!Aged(gap)[p] \in Histories
           /\ Idle!Aged(gap)[p].watched = Idle!Older(seen[p].watched, gap)
           /\ Idle!Aged(gap)[p].pushed = Idle!Older(seen[p].pushed, gap)
           /\ Idle!Aged(gap)[p].spaced = seen[p].spaced
           /\ Idle!Aged(gap)[p].waited = seen[p].waited
           /\ p \notin idleLive => Idle!Aged(gap)[p] = Idle!Unseen
<1>1. PICK h \in Histories : h = seen[p]
  BY DEF IdleInv
<1>2. /\ h.watched \in Idle!Clocks /\ h.pushed \in Idle!Clocks
      /\ h.spaced \in Idle!Clocks /\ h.waited \in Idle!Clocks
  BY <1>1 DEF Histories
<1>3. /\ Idle!Older(h.watched, gap) \in Idle!Clocks /\ Idle!Older(h.pushed, gap) \in Idle!Clocks
      /\ Idle!Older(Idle!NoClock, gap) = Idle!NoClock
  BY <1>2, IdleLimits DEF Idle!Older, Idle!Clocks, Idle!Ages, Idle!NoClock
<1>4. Idle!Aged(gap)[p] = [h EXCEPT !.watched = Idle!Older(h.watched, gap),
                                    !.pushed = Idle!Older(h.pushed, gap)]
  BY <1>1 DEF Idle!Aged
<1>5. /\ Idle!Aged(gap)[p] \in Histories
      /\ Idle!Aged(gap)[p].watched = Idle!Older(h.watched, gap)
      /\ Idle!Aged(gap)[p].pushed = Idle!Older(h.pushed, gap)
      /\ Idle!Aged(gap)[p].spaced = h.spaced /\ Idle!Aged(gap)[p].waited = h.waited
  BY <1>2, <1>3, <1>4 DEF Histories
<1>6. ASSUME p \notin idleLive PROVE Idle!Aged(gap)[p] = Idle!Unseen
  <2>1. h = Idle!Unseen
    BY <1>1, <1>6 DEF IdleInv
  <2>2. h.watched = Idle!NoClock /\ h.pushed = Idle!NoClock
    BY <2>1 DEF Idle!Unseen
  <2>3. QED
    BY <1>3, <1>4, <2>1, <2>2 DEF Idle!Unseen
<1>7. QED
  BY <1>1, <1>5, <1>6

\* A cycle without a check.
LEMMA UncheckedOK ==
    ASSUME IdleInv, NEW gap \in IdleGaps, NEW thawed, Idle!Unchecked(gap, thawed),
           UNCHANGED idleLive
    PROVE  IdleInv'
<1> USE IdleLimits
<1>1. /\ reclaimAge' = [i \in IdlePids |-> Idle!Older(reclaimAge[i], gap)]
      /\ freezeAge'  = [i \in IdlePids |-> Idle!Older(freezeAge[i], gap)]
      /\ seen' = Idle!Aged(gap)
  BY DEF Idle!Unchecked
<1>2. \A a \in Idle!Clocks : Idle!Older(a, gap) \in Idle!Clocks
  BY DEF Idle!Older, Idle!Clocks, Idle!Ages, Idle!NoClock
<1>3. /\ reclaimAge' \in [IdlePids -> Idle!Clocks] /\ freezeAge' \in [IdlePids -> Idle!Clocks]
  BY <1>1, <1>2 DEF IdleInv
<1>4. seen' \in [IdleProcs -> Histories] /\ \A p \in IdleProcs \ idleLive : seen'[p] = Idle!Unseen
  <2> DEFINE h(p) == [seen[p] EXCEPT !.watched = Idle!Older(@, gap),
                                     !.pushed = Idle!Older(@, gap)]
  <2>1. seen' = [p \in IdleProcs |-> h(p)]
    BY <1>1, Zenon DEF Idle!Aged
  <2>2. \A p \in IdleProcs : Idle!Aged(gap)[p] = h(p)
    BY DEF Idle!Aged
  <2> HIDE DEF h
  <2>3. \A p \in IdleProcs : h(p) \in Histories /\ (p \notin idleLive => h(p) = Idle!Unseen)
    BY <2>2, AgedHistory
  <2>4. QED
    BY <2>1, <2>3
<1>5. ASSUME NEW p \in idleLive PROVE ClockOK(p)'
  <2>1. PICK h \in Histories : h = seen[p]
    BY DEF IdleInv
  <2>2. PICK a \in Idle!Clocks, b \in Idle!Clocks :
           /\ a = reclaimAge[IdlePidOf[p]] /\ b = freezeAge[IdlePidOf[p]]
           /\ a <= h.pushed /\ b <= h.watched /\ h.spaced >= Idle!IdleFor(p)
           /\ h.waited >= FreezeAfter
           /\ h.watched \in Idle!Clocks /\ h.pushed \in Idle!Clocks
    BY <2>1 DEF IdleInv, ClockOK, Histories, Idle!Clocks
  <2>3. /\ Idle!Older(a, gap) <= Idle!Older(h.pushed, gap)
        /\ Idle!Older(b, gap) <= Idle!Older(h.watched, gap)
    BY <2>2, OlderKeeps
  <2>4. /\ seen'[p].watched = Idle!Older(h.watched, gap)
        /\ seen'[p].pushed = Idle!Older(h.pushed, gap) /\ seen'[p].spaced = h.spaced
        /\ seen'[p].waited = h.waited
    BY <1>1, <2>1, AgedHistory DEF IdleInv
  <2>5. /\ reclaimAge'[IdlePidOf[p]] = Idle!Older(a, gap)
        /\ freezeAge'[IdlePidOf[p]] = Idle!Older(b, gap)
    BY <1>1, <2>2 DEF IdleInv
  <2>6. QED
    BY <2>2, <2>3, <2>4, <2>5 DEF ClockOK, Idle!IdleFor
<1>6. QED
  BY <1>3, <1>4, <1>5 DEF IdleInv

\* What a check makes of the clocks of a process and of its history, p \in tried meaning
\* that its memory was pushed out, p \in frozen that it was stopped, out that it was held
\* and here that it was not and lay in the background.
LEMMA CheckMoves ==
    ASSUME IdleInv, NEW gap \in IdleGaps, NEW s, NEW thawed, Idle!Checked(gap, s, thawed),
           NEW p \in idleLive
    PROVE  \E tried, frozen \in SUBSET idleLive, here, out \in BOOLEAN,
              push, stop \in Idle!Clocks :
             LET i == IdlePidOf[p]
                 h == Idle!Aged(gap)[p]
             IN /\ push \in {Idle!NoClock, Idle!Older(reclaimAge[i], gap)}
                /\ stop \in {Idle!NoClock, Idle!Older(freezeAge[i], gap)}
                /\ out => push = Idle!NoClock /\ stop = Idle!NoClock /\ ~here
                /\ p \in tried => Idle!Elapsed(push) >= Idle!IdleFor(p)
                /\ p \in frozen => Idle!Elapsed(stop) >= FreezeAfter
                /\ reclaimAge'[i] = IF p \in tried THEN 0 ELSE IF here THEN Idle!Started(push)
                                    ELSE push
                /\ IF p \in frozen THEN freezeAge'[i] = Idle!NoClock
                   ELSE freezeAge'[i] = stop \/ (here /\ freezeAge'[i] = Idle!Started(stop))
                /\ seen'[p].watched = IF p \in frozen \/ out THEN Idle!NoClock
                                      ELSE IF here THEN Idle!Started(h.watched) ELSE h.watched
                /\ seen'[p].waited = IF p \in frozen THEN h.watched ELSE h.waited
                /\ seen'[p].pushed = IF p \in tried THEN 0 ELSE IF out THEN Idle!NoClock
                                     ELSE IF here THEN Idle!Started(h.pushed) ELSE h.pushed
                /\ seen'[p].spaced = IF p \in tried THEN h.pushed ELSE h.spaced
<1> DEFINE plan   == idleLive \ (idleHeld \ thawed)
           push   == Idle!Pruned([i \in IdlePids |-> Idle!Older(reclaimAge[i], gap)], plan)
           stop   == Idle!Pruned([i \in IdlePids |-> Idle!Older(freezeAge[i], gap)], plan)
           writes == Idle!FirstOf(Idle!Candidates(plan, push, s), MaxReclaims)
           tried  == writes \cap Reliable
           frozen == Idle!FirstOf(Idle!DueToFreeze(plan, stop), MaxFreezes)
           h      == Idle!Aged(gap)
           i      == IdlePidOf[p]
           here   == p \in Idle!Background(plan)
           out    == p \notin plan
<1>0. p \in IdleProcs /\ i \in IdlePids
  BY IdleLimits DEF IdleInv
<1>1. /\ reclaimAge' = Idle!ReclaimClocks(plan, push, tried)
      /\ freezeAge' = Idle!FreezeClocks(plan, stop, frozen)
      /\ seen' = [q \in IdleProcs |->
             [h[q] EXCEPT
                 !.waited = IF q \in frozen THEN h[q].watched ELSE @,
                 !.watched = IF q \in frozen THEN Idle!NoClock ELSE Idle!Watch(q, plan, @),
                 !.spaced = IF q \in tried THEN h[q].pushed ELSE @,
                 !.pushed = IF q \in tried THEN 0 ELSE Idle!Watch(q, plan, @)]]
  BY Zenon DEF Idle!Checked
<1>2. \A S \in SUBSET idleLive : i \in Idle!Listed(S) <=> p \in S
  BY DEF IdleInv, Idle!Listed
<1>3. /\ plan \subseteq idleLive /\ Idle!Background(plan) \subseteq plan
      /\ Idle!Sizable(plan) \subseteq Idle!Background(plan)
  BY DEF Idle!Background, Idle!Sizable
<1>4. /\ \A q \in tried : q \in Idle!Sizable(plan)
                          /\ Idle!Elapsed(push[IdlePidOf[q]]) >= Idle!IdleFor(q)
      /\ \A q \in frozen : q \in Idle!Sizable(plan)
                          /\ Idle!Elapsed(stop[IdlePidOf[q]]) >= FreezeAfter
  <2>1. \A S, n : Idle!FirstOf(S, n) \subseteq S
    BY DEF Idle!FirstOf
  <2>2. \A q \in Idle!Candidates(plan, push, s) :
           q \in Idle!Sizable(plan) /\ Idle!Elapsed(push[IdlePidOf[q]]) >= Idle!IdleFor(q)
    <3> HIDE DEF plan, push
    <3>1. QED
      BY DEF Idle!Candidates
  <2>3. \A q \in Idle!DueToFreeze(plan, stop) :
           q \in Idle!Sizable(plan) /\ Idle!Elapsed(stop[IdlePidOf[q]]) >= FreezeAfter
    <3> HIDE DEF plan, stop
    <3>1. QED
      BY DEF Idle!DueToFreeze
  <2> HIDE DEF plan, push, stop
  <2>4. QED
    BY <2>1, <2>2, <2>3
<1>5. /\ push[i] \in {Idle!NoClock, Idle!Older(reclaimAge[i], gap)}
      /\ stop[i] \in {Idle!NoClock, Idle!Older(freezeAge[i], gap)}
      /\ push[i] \in Idle!Clocks /\ stop[i] \in Idle!Clocks
  <2>1. \A a \in Idle!Clocks : Idle!Older(a, gap) \in Idle!Clocks
    BY IdleLimits DEF Idle!Older, Idle!Clocks, Idle!Ages, Idle!NoClock
  <2>2. reclaimAge[i] \in Idle!Clocks /\ freezeAge[i] \in Idle!Clocks
    BY <1>0 DEF IdleInv
  <2>3. /\ push[i] = IF i \in Idle!Listed(plan) THEN Idle!Older(reclaimAge[i], gap)
                     ELSE Idle!NoClock
        /\ stop[i] = IF i \in Idle!Listed(plan) THEN Idle!Older(freezeAge[i], gap)
                     ELSE Idle!NoClock
    <3> HIDE DEF plan
    <3>1. QED
      BY <1>0 DEF Idle!Pruned
  <2> HIDE DEF push, stop, plan
  <2>4. QED
    BY <2>1, <2>2, <2>3 DEF Idle!Clocks
<1> HIDE DEF push, stop, writes, tried, frozen, h
<1>6. /\ reclaimAge'[i] = IF p \in tried THEN 0 ELSE IF here THEN Idle!Started(push[i])
                          ELSE push[i]
      /\ tried \subseteq idleLive
  <2>1. tried \subseteq idleLive /\ Idle!Background(plan) \subseteq idleLive
    BY <1>3, <1>4
  <2>2. /\ i \in Idle!Listed(tried) <=> p \in tried
        /\ i \in Idle!Listed(Idle!Background(plan)) <=> here
    BY <1>2, <2>1
  <2> HIDE DEF plan
  <2>3. QED
    BY <1>0, <1>1, <2>1, <2>2 DEF Idle!ReclaimClocks
<1>7. /\ frozen \subseteq idleLive
      /\ IF p \in frozen THEN freezeAge'[i] = Idle!NoClock
         ELSE freezeAge'[i] = stop[i] \/ (here /\ freezeAge'[i] = Idle!Started(stop[i]))
  <2>1. frozen \subseteq idleLive /\ Idle!Sizable(plan) \subseteq idleLive
    BY <1>3, <1>4
  <2>2. /\ i \in Idle!Listed(frozen) <=> p \in frozen
        /\ i \in Idle!Listed(Idle!Sizable(plan)) => here
    BY <1>2, <1>3, <2>1
  <2> HIDE DEF plan
  <2>3. QED
    BY <1>0, <1>1, <2>1, <2>2 DEF Idle!FreezeClocks
<1>8. /\ seen'[p].watched = IF p \in frozen \/ out THEN Idle!NoClock
                            ELSE IF here THEN Idle!Started(h[p].watched) ELSE h[p].watched
      /\ seen'[p].waited = IF p \in frozen THEN h[p].watched ELSE h[p].waited
      /\ seen'[p].pushed = IF p \in tried THEN 0 ELSE IF out THEN Idle!NoClock
                           ELSE IF here THEN Idle!Started(h[p].pushed) ELSE h[p].pushed
      /\ seen'[p].spaced = IF p \in tried THEN h[p].pushed ELSE h[p].spaced
  <2>1. h[p] \in Histories
    BY <1>0, AgedHistory DEF h
  <2>2. \A a : Idle!Watch(p, plan, a) = IF out THEN Idle!NoClock
                                        ELSE IF here THEN Idle!Started(a) ELSE a
    BY DEF Idle!Watch
  <2> HIDE DEF plan, here, out
  <2>3. QED
    BY <1>0, <1>1, <2>1, <2>2 DEF Histories
<1>9. out => push[i] = Idle!NoClock /\ stop[i] = Idle!NoClock /\ ~here
  <2>1. out => ~here /\ i \notin Idle!Listed(plan)
    BY <1>2, <1>3
  <2> HIDE DEF plan, out, here
  <2>2. QED
    BY <1>0, <2>1 DEF Idle!Pruned, push, stop
<1>10. /\ p \in tried => Idle!Elapsed(push[i]) >= Idle!IdleFor(p)
       /\ p \in frozen => Idle!Elapsed(stop[i]) >= FreezeAfter
  BY <1>4
<1> HIDE DEF plan
<1>11. here \in BOOLEAN /\ out \in BOOLEAN
  OBVIOUS
<1> HIDE DEF here, out
<1>12. QED
  BY <1>5, <1>6, <1>7, <1>8, <1>9, <1>10, <1>11 DEF h

\* A check keeps the clocks of the pids behind the histories of the processes.
LEMMA CheckedClocks ==
    ASSUME IdleInv, NEW gap \in IdleGaps, NEW s, NEW thawed, Idle!Checked(gap, s, thawed),
           NEW p \in idleLive
    PROVE  ClockOK(p)'
<1> USE IdleLimits
<1> DEFINE i == IdlePidOf[p]
           h == Idle!Aged(gap)[p]
<1>1. PICK tried, frozen \in SUBSET idleLive, here, out \in BOOLEAN,
           push, stop \in Idle!Clocks :
         /\ push \in {Idle!NoClock, Idle!Older(reclaimAge[i], gap)}
         /\ stop \in {Idle!NoClock, Idle!Older(freezeAge[i], gap)}
         /\ out => push = Idle!NoClock /\ stop = Idle!NoClock /\ ~here
         /\ p \in tried => Idle!Elapsed(push) >= Idle!IdleFor(p)
         /\ p \in frozen => Idle!Elapsed(stop) >= FreezeAfter
         /\ reclaimAge'[i] = IF p \in tried THEN 0 ELSE IF here THEN Idle!Started(push)
                             ELSE push
         /\ IF p \in frozen THEN freezeAge'[i] = Idle!NoClock
            ELSE freezeAge'[i] = stop \/ (here /\ freezeAge'[i] = Idle!Started(stop))
         /\ seen'[p].watched = IF p \in frozen \/ out THEN Idle!NoClock
                               ELSE IF here THEN Idle!Started(h.watched) ELSE h.watched
         /\ seen'[p].waited = IF p \in frozen THEN h.watched ELSE h.waited
         /\ seen'[p].pushed = IF p \in tried THEN 0 ELSE IF out THEN Idle!NoClock
                              ELSE IF here THEN Idle!Started(h.pushed) ELSE h.pushed
         /\ seen'[p].spaced = IF p \in tried THEN h.pushed ELSE h.spaced
  BY CheckMoves
<1>2. p \in IdleProcs /\ i \in IdlePids /\ Idle!IdleFor(p) \in 1..IdleMaxAge
  BY DEF IdleInv
<1>3. PICK a, b \in Idle!Clocks :
         /\ a = Idle!Older(seen[p].pushed, gap) /\ b = Idle!Older(seen[p].watched, gap)
         /\ h.pushed = a /\ h.watched = b /\ h.spaced = seen[p].spaced
         /\ h.waited = seen[p].waited
  BY <1>2, AgedHistory DEF Histories, Idle!Clocks
<1>4. /\ Idle!Older(reclaimAge[i], gap) <= a /\ Idle!Older(freezeAge[i], gap) <= b
      /\ seen[p].spaced >= Idle!IdleFor(p) /\ seen[p].waited >= FreezeAfter
  <2>1. PICK g \in Histories : g = seen[p]
    BY <1>2 DEF IdleInv
  <2>2. PICK c, d \in Idle!Clocks :
           /\ c = reclaimAge[i] /\ d = freezeAge[i] /\ c <= g.pushed /\ d <= g.watched
           /\ g.watched \in Idle!Clocks /\ g.pushed \in Idle!Clocks
           /\ seen[p].spaced >= Idle!IdleFor(p) /\ seen[p].waited >= FreezeAfter
    BY <1>2, <2>1 DEF IdleInv, ClockOK, Histories, Idle!Clocks
  <2>3. Idle!Older(c, gap) <= Idle!Older(g.pushed, gap)
        /\ Idle!Older(d, gap) <= Idle!Older(g.watched, gap)
    BY <2>2, OlderKeeps
  <2>4. QED
    BY <1>3, <2>1, <2>2, <2>3
<1>5. push <= a /\ stop <= b
  BY <1>1, <1>3, <1>4 DEF Idle!Clocks, Idle!Ages, Idle!NoClock
<1> HIDE DEF h, i
<1>6. reclaimAge'[i] <= seen'[p].pushed
  BY <1>1, <1>3, <1>5 DEF Idle!Started, Idle!Clocks, Idle!Ages, Idle!NoClock
<1>7. freezeAge'[i] <= seen'[p].watched
  BY <1>1, <1>3, <1>5 DEF Idle!Started, Idle!Clocks, Idle!Ages, Idle!NoClock
<1>8. seen'[p].spaced >= Idle!IdleFor(p)
  <2>1. CASE p \in tried
    <3>1. push = Idle!Elapsed(push) \/ Idle!Elapsed(push) = 0
      BY DEF Idle!Elapsed
    <3>2. push >= Idle!IdleFor(p) /\ push \in Int /\ a \in Int
      BY <1>1, <1>2, <1>3, <2>1, <3>1 DEF Idle!Clocks, Idle!Ages, Idle!NoClock
    <3>3. QED
      BY <1>1, <1>2, <1>3, <1>5, <2>1, <3>2
  <2>2. CASE p \notin tried
    BY <1>1, <1>3, <1>4, <2>2
  <2>3. QED
    BY <2>1, <2>2
<1>9. seen'[p].waited >= FreezeAfter
  <2>1. CASE p \in frozen
    <3>1. stop = Idle!Elapsed(stop) \/ Idle!Elapsed(stop) = 0
      BY DEF Idle!Elapsed
    <3>2. stop >= FreezeAfter /\ stop \in Int /\ b \in Int
      BY <1>1, <1>3, <2>1, <3>1 DEF Idle!Clocks, Idle!Ages, Idle!NoClock
    <3>3. QED
      BY <1>1, <1>3, <1>5, <2>1, <3>2
  <2>2. CASE p \notin frozen
    BY <1>1, <1>3, <1>4, <2>2
  <2>3. QED
    BY <2>1, <2>2
<1>10. QED
  BY <1>6, <1>7, <1>8, <1>9 DEF ClockOK, Idle!IdleFor, i

\* The types of what a check leaves behind.
LEMMA CheckedTypes ==
    ASSUME IdleInv, NEW gap \in IdleGaps, NEW s, NEW thawed, Idle!Checked(gap, s, thawed)
    PROVE  /\ reclaimAge' \in [IdlePids -> Idle!Clocks]
           /\ freezeAge' \in [IdlePids -> Idle!Clocks]
           /\ seen' \in [IdleProcs -> Histories]
           /\ \A p \in IdleProcs \ idleLive : seen'[p] = Idle!Unseen
<1> USE IdleLimits
<1> DEFINE plan   == idleLive \ (idleHeld \ thawed)
           push   == Idle!Pruned([i \in IdlePids |-> Idle!Older(reclaimAge[i], gap)], plan)
           stop   == Idle!Pruned([i \in IdlePids |-> Idle!Older(freezeAge[i], gap)], plan)
           writes == Idle!FirstOf(Idle!Candidates(plan, push, s), MaxReclaims)
           tried  == writes \cap Reliable
           frozen == Idle!FirstOf(Idle!DueToFreeze(plan, stop), MaxFreezes)
           h      == Idle!Aged(gap)
<1>1. /\ reclaimAge' = Idle!ReclaimClocks(plan, push, tried)
      /\ freezeAge' = Idle!FreezeClocks(plan, stop, frozen)
      /\ seen' = [q \in IdleProcs |->
             [h[q] EXCEPT
                 !.waited = IF q \in frozen THEN h[q].watched ELSE @,
                 !.watched = IF q \in frozen THEN Idle!NoClock ELSE Idle!Watch(q, plan, @),
                 !.spaced = IF q \in tried THEN h[q].pushed ELSE @,
                 !.pushed = IF q \in tried THEN 0 ELSE Idle!Watch(q, plan, @)]]
  BY Zenon DEF Idle!Checked
<1>2. /\ \A i \in IdlePids : push[i] \in Idle!Clocks /\ stop[i] \in Idle!Clocks
  <2>1. \A a \in Idle!Clocks : Idle!Older(a, gap) \in Idle!Clocks
    BY DEF Idle!Older, Idle!Clocks, Idle!Ages, Idle!NoClock
  <2>2. \A i \in IdlePids : reclaimAge[i] \in Idle!Clocks /\ freezeAge[i] \in Idle!Clocks
    BY DEF IdleInv
  <2>3. \A i \in IdlePids : push[i] \in {Idle!Older(reclaimAge[i], gap), Idle!NoClock}
                            /\ stop[i] \in {Idle!Older(freezeAge[i], gap), Idle!NoClock}
    <3> HIDE DEF plan
    <3>1. QED
      BY DEF Idle!Pruned
  <2> HIDE DEF push, stop
  <2>4. QED
    BY <2>1, <2>2, <2>3 DEF Idle!Clocks
<1>3. tried \subseteq idleLive /\ frozen \subseteq idleLive
      /\ Idle!Background(plan) \subseteq idleLive
  BY DEF Idle!FirstOf, Idle!Candidates, Idle!DueToFreeze, Idle!Sizable, Idle!Background
<1>4. 0 \in Idle!Clocks /\ Idle!NoClock \in Idle!Clocks /\ 0 \in Idle!Ages
      /\ \A a \in Idle!Clocks : Idle!Started(a) \in Idle!Clocks
  BY DEF Idle!Clocks, Idle!Ages, Idle!NoClock, Idle!Started
<1> HIDE DEF push, stop, tried, frozen, h, plan
<1>5. reclaimAge' \in [IdlePids -> Idle!Clocks]
  BY <1>1, <1>2, <1>4 DEF Idle!ReclaimClocks
<1>6. freezeAge' \in [IdlePids -> Idle!Clocks]
  BY <1>1, <1>2, <1>4 DEF Idle!FreezeClocks
<1>7. ASSUME NEW q \in IdleProcs
      PROVE  seen'[q] \in Histories /\ (q \notin idleLive => seen'[q] = Idle!Unseen)
  <2>1. h[q] \in Histories /\ (q \notin idleLive => h[q] = Idle!Unseen)
    BY AgedHistory DEF h
  <2>2. /\ h[q].watched \in Idle!Clocks /\ h[q].pushed \in Idle!Clocks
        /\ h[q].spaced \in Idle!Clocks /\ h[q].waited \in Idle!Clocks
    BY <2>1 DEF Histories
  <2>3. /\ \A a \in Idle!Clocks : Idle!Watch(q, plan, a) \in Idle!Clocks
        /\ q \notin idleLive => \A a : Idle!Watch(q, plan, a) = Idle!NoClock
    BY <1>4 DEF Idle!Watch, plan
  <2>4. PICK w, v, d, e \in Idle!Clocks :
           /\ seen'[q] = [h[q] EXCEPT !.waited = v, !.watched = w, !.spaced = d, !.pushed = e]
           /\ q \notin idleLive => /\ w = Idle!NoClock /\ e = Idle!NoClock
                                   /\ d = h[q].spaced /\ v = h[q].waited
    BY <1>1, <1>3, <1>4, <2>2, <2>3
  <2>5. seen'[q] = [watched |-> w, waited |-> v, pushed |-> e, spaced |-> d]
    BY <2>1, <2>4 DEF Histories
  <2>6. q \notin idleLive => seen'[q] = Idle!Unseen
    BY <2>1, <2>4, <2>5 DEF Idle!Unseen
  <2>7. QED
    BY <2>4, <2>5, <2>6 DEF Histories
<1>8. seen' \in [IdleProcs -> Histories]
  <2>1. \A q \in IdleProcs : seen'[q] \in Histories
    BY <1>7
  <2>2. QED
    BY <1>1, <2>1
<1>9. QED
  BY <1>5, <1>6, <1>7, <1>8

\* A cycle of the evictor.
LEMMA CycleOK ==
    ASSUME IdleInv, Idle!CalmTick \/ \E normal \in BOOLEAN : Idle!FullCycle(normal)
    PROVE  IdleInv'
<1>1. PICK gap \in IdleGaps, s \in SwapReadings, thawed \in SUBSET idleHeld :
         Idle!Check(gap, s, thawed) \/ Idle!Unchecked(gap, thawed)
  BY DEF Idle!CalmTick, Idle!FullCycle
<1>2. UNCHANGED idleLive
  BY DEF Idle!CalmTick, Idle!FullCycle
<1>3. CASE Idle!Unchecked(gap, thawed)
  BY <1>2, <1>3, UncheckedOK
<1>4. CASE Idle!Checked(gap, s, thawed)
  BY <1>2, <1>4, CheckedClocks, CheckedTypes DEF IdleInv
<1>5. QED
  BY <1>1, <1>3, <1>4 DEF Idle!Check

\* A process that comes brings no clock along, since a check has missed its pid.
LEMMA IdleStep == ~QuickReuse /\ IdleInv /\ [Idle!Next]_Idle!vars => IdleInv'
<1> SUFFICES ASSUME ~QuickReuse, IdleInv, [Idle!Next]_Idle!vars PROVE IdleInv'
  OBVIOUS
<1> USE IdleLimits
<1>1. CASE Idle!CalmTick \/ \E normal \in BOOLEAN : Idle!FullCycle(normal)
  BY <1>1, CycleOK
<1>2. ASSUME NEW p \in IdleProcs, Idle!Start(p) PROVE IdleInv'
  <2>1. /\ idleLive' = idleLive \cup {p} /\ \A q \in idleLive : IdlePidOf[q] # IdlePidOf[p]
        /\ reclaimAge[IdlePidOf[p]] = Idle!NoClock /\ freezeAge[IdlePidOf[p]] = Idle!NoClock
        /\ UNCHANGED <<reclaimAge, freezeAge, seen>>
    BY <1>2 DEF Idle!Start, Idle!Listed, Idle!evictor
  <2>2. p \notin idleLive /\ seen[p] = Idle!Unseen
    BY <2>1 DEF IdleInv
  <2>3. ClockOK(p)
    BY <2>1, <2>2 DEF ClockOK, Idle!Unseen, Idle!NoClock
  <2>4. ASSUME NEW q \in idleLive' PROVE ClockOK(q)'
    BY <2>1, <2>3 DEF IdleInv, ClockOK, Idle!IdleFor
  <2>5. \A q, r \in idleLive' : IdlePidOf[q] = IdlePidOf[r] => q = r
    BY <2>1 DEF IdleInv
  <2>6. QED
    BY <2>1, <2>4, <2>5 DEF IdleInv
<1>3. ASSUME NEW p \in IdleProcs, Idle!Exit(p) PROVE IdleInv'
  <2>1. /\ idleLive' = idleLive \ {p} /\ seen' = [seen EXCEPT ![p] = Idle!Unseen]
        /\ UNCHANGED <<reclaimAge, freezeAge>>
    BY <1>3 DEF Idle!Exit, Idle!evictor
  <2>2. Idle!Unseen \in Histories
    BY DEF Idle!Unseen, Histories, Idle!Clocks, Idle!NoClock, Idle!Ages
  <2>3. /\ seen' \in [IdleProcs -> Histories]
        /\ \A q \in IdleProcs : seen'[q] = IF q = p THEN Idle!Unseen ELSE seen[q]
    BY <2>1, <2>2 DEF IdleInv
  <2>4. ASSUME NEW q \in idleLive' PROVE ClockOK(q)'
    BY <2>1, <2>3 DEF IdleInv, ClockOK, Idle!IdleFor
  <2>5. QED
    BY <2>1, <2>3, <2>4 DEF IdleInv
<1>4. CASE UNCHANGED <<idleLive, reclaimAge, freezeAge, seen>>
  BY <1>4 DEF IdleInv, ClockOK, Idle!IdleFor
<1>5. ASSUME NEW p \in IdleProcs, Idle!Hold(p) \/ Idle!Release(p)
      PROVE  UNCHANGED <<idleLive, reclaimAge, freezeAge, seen>>
  BY <1>5 DEF Idle!Hold, Idle!Release, Idle!evictor
<1>6. ASSUME NEW i, Idle!Focus(i)
      PROVE  UNCHANGED <<idleLive, reclaimAge, freezeAge, seen>>
  BY <1>6 DEF Idle!Focus, Idle!evictor
<1>7. ASSUME Idle!Reload
      PROVE  UNCHANGED <<idleLive, reclaimAge, freezeAge, seen>>
  BY <1>7 DEF Idle!Reload, Idle!evictor
<1>8. ASSUME UNCHANGED Idle!vars
      PROVE  UNCHANGED <<idleLive, reclaimAge, freezeAge, seen>>
  BY <1>8 DEF Idle!vars, Idle!evictor
<1>9. QED
  BY <1>1, <1>2, <1>3, <1>4, <1>5, <1>6, <1>7, <1>8 DEF Idle!Next

\* An idle process has its memory pushed out, or is stopped, only after the checks have
\* watched it for that long, the first time as well as later, unless its pid is taken again
\* between two checks (idle_reclaim.rs:117-193).
THEOREM WatchedBeforeTouched ==
    ASSUME ~QuickReuse
    PROVE  Idle!Spec => [](Idle!PushedSparingly /\ Idle!FrozenAfterWatch)
<1>1. IdleInv => Idle!PushedSparingly /\ Idle!FrozenAfterWatch
  BY DEF IdleInv, ClockOK, Idle!PushedSparingly, Idle!FrozenAfterWatch
<1>2. IdleInv /\ [Idle!Next]_Idle!vars => IdleInv'
  BY IdleStep
<1>3. QED
  BY <1>1, <1>2, IdleStart, PTL DEF Idle!Spec

\* Nobody is bothered again before his time, neither idle processes nor the page cache, as
\* long as pids are not taken again at once and the wall clock is only put back
\* (idle_reclaim.rs:117-193, early_reclaim.rs:31-36, cache_drop.rs:23-29).
THEOREM NobodyBotheredEarly ==
    ASSUME ~QuickReuse, \A d \in Jumps : d <= 0
    PROVE  Idle!Spec /\ Gates!Spec => NotBotheredAgain
<1>1. Idle!Spec => [](Idle!PushedSparingly /\ Idle!FrozenAfterWatch)
  BY WatchedBeforeTouched
<1>2. Gates!Spec => Gates!TakenSparingly
  BY CooldownsKept
<1>3. QED
  BY <1>1, <1>2, PTL DEF NotBotheredAgain

-----------------------------------------------------------------------------
(* The calibrator: what it proposes.                                       *)

\* The readings and the bins they fall into.
LEMMA BinFacts ==
    /\ Calibrator!Bins \subseteq 0..99 /\ Calibrator!Bins # {} /\ IsFiniteSet(Calibrator!Bins)
    /\ \A r \in Readings : r[1] \in Calibrator!Bins /\ r[2] \in Calibrator!Bins
    /\ FirstReading \in Readings
    /\ \A t \in Calibrator!Threads : Weight[t] \in Nat
    /\ Torn \notin Calibrator!Evidence
<1>1. /\ Readings \subseteq (0..99) \X (0..99) /\ FirstReading \in Readings
      /\ Weight \in [Calibrator!Threads -> Nat \ {0}] /\ Torn \notin Calibrator!Evidence
  BY CalibratorAssumption DEF Calibrator!ReadingsAssumption
<1>2. \A r \in Readings : r[1] \in 0..99 /\ r[2] \in 0..99
  BY <1>1
<1>3. \A r \in Readings : r[1] \in Calibrator!Bins /\ r[2] \in Calibrator!Bins
  BY DEF Calibrator!Bins
<1>4. Calibrator!Bins \subseteq 0..99
  BY <1>2 DEF Calibrator!Bins
<1>5. IsFiniteSet(Calibrator!Bins)
  <2>1. IsFiniteSet(0..99)
    <3>1. 0 \in Int /\ 99 \in Int
      OBVIOUS
    <3>2. QED
      BY <3>1, FS_Interval
  <2>2. QED
    BY <1>4, <2>1, FS_Subset
<1>6. \A t \in Calibrator!Threads : Weight[t] \in Nat
  BY <1>1
<1>7. QED
  BY <1>1, <1>3, <1>4, <1>5, <1>6

\* Sums of a histogram are those of its bins.
LEMMA TotalIsSum ==
    ASSUME NEW hist \in [Calibrator!Bins -> Nat]
    PROVE  /\ Calibrator!Total(hist) = Sum(hist, Calibrator!Bins)
           /\ \A S \in SUBSET Calibrator!Bins : Sum(hist, S) \in Nat
<1>1. Calibrator!Total(hist) = Sum(hist, Calibrator!Bins)
  BY DEF Calibrator!Total, Sum, Calibrator!MapThenSumSet, Calibrator!MapThenFoldSet,
     MapThenSumSet, MapThenFoldSet
<1>2. \A b \in Calibrator!Bins : hist[b] \in Nat
  OBVIOUS
<1>3. QED
  BY <1>1, <1>2, BinFacts, SumIsNat

\* A percentile is the upper edge of a bin, or what stands for it when there is none.
LEMMA PercentileRange ==
    ASSUME NEW hist \in [Calibrator!Bins -> Nat], NEW pct \in {10, 95}, NEW none \in 0..100
    PROVE  Calibrator!Percentile(hist, pct, none) \in 0..100
<1> DEFINE B == Calibrator!Bins
           N == Sum(hist, B)
           UpTo(b) == Sum(hist, {c \in B : c <= b})
           target == (N * pct + 99) \div 100
           T == {b \in B : UpTo(b) >= target}
           First(b) == UpTo(b) >= target /\ \A c \in B : c < b => UpTo(c) < target
<1>0. B # {} /\ \A b \in B : b \in Nat /\ b <= 99
  BY BinFacts
<1>1. N \in Nat /\ \A b : UpTo(b) \in Nat
  BY TotalIsSum
<1>2. target \in Int /\ target <= N
  BY <1>1
<1>3. PICK top \in B : \A b \in B : b <= top
  <2> DEFINE C == {99 - b : b \in B}
  <2>1. C \subseteq Nat /\ C # {}
    BY <1>0
  <2>2. PICK n \in C : \A m \in C : n <= m
    BY <2>1, Least
  <2>3. PICK t \in B : n = 99 - t
    OBVIOUS
  <2>4. ASSUME NEW b \in B PROVE b <= t
    <3>1. n <= 99 - b
      BY <2>2
    <3>2. QED
      BY <1>0, <2>3, <3>1
  <2>5. QED
    BY <2>4
<1>4. top \in T
  <2>1. {c \in B : c <= top} = B
    BY <1>3
  <2>2. UpTo(top) = N
    BY <2>1
  <2>3. QED
    BY <1>1, <1>2, <2>2
<1> HIDE DEF target, N
<1>5. PICK n \in T : \A m \in T : n <= m
  <2>1. T \subseteq Nat
    BY <1>0
  <2>2. QED
    BY <1>4, <2>1, Least
<1>6. n \in B /\ First(n)
  <2>1. ASSUME NEW c \in B, c < n PROVE UpTo(c) < target
    <3>1. c \notin T
      BY <1>0, <1>5, <2>1
    <3>2. QED
      BY <1>1, <1>2, <2>1, <3>1
  <2>2. QED
    BY <1>5, <2>1
<1> DEFINE one == CHOOSE b \in B : First(b)
<1>7. one \in B
  BY <1>6, Zenon
<1>8. Calibrator!Percentile(hist, pct, none)
         = IF N = 0 THEN none ELSE 1 + one
  BY Zenon DEF Calibrator!Percentile, Calibrator!Total, target, N, Sum,
     Calibrator!MapThenSumSet, Calibrator!MapThenFoldSet, MapThenSumSet, MapThenFoldSet
<1> HIDE DEF one
<1>9. QED
  BY <1>0, <1>7, <1>8

\* The thresholds in use are in order, and leave room for any elevated_pct that may be
\* proposed: the upper tiers are not applied with it.
TiersInOrder ==
    /\ Current \in [elevated : Nat, high : Nat, critical : Nat, emergency : Nat,
                    fullCritical : Nat]
    /\ Calibrator!Valid(Current) /\ 15 < Current.high

Usable(s) ==
    /\ Calibrator!Valid(s)
    /\ Calibrator!Valid([Current EXCEPT !.elevated = s.elevated,
                                        !.fullCritical = s.fullCritical])

\* What is proposed is in order by itself, and with the tiers in use.
LEMMA SuggestedUsable ==
    ASSUME TiersInOrder, NEW b \in 0..100, NEW o \in 0..100, NEW f \in 0..100
    PROVE  Usable(Calibrator!Suggested(b, o, f))
<1>1. PICK e : e = Calibrator!Elevated(b, o)
  OBVIOUS
<1>2. e \in 2..15
  <2>1. Calibrator!Clamp(b + 2, 2, 15) \in 2..15
    BY DEF Calibrator!Clamp, Calibrator!Least, Calibrator!Greatest
  <2>2. QED
    BY <1>1, <2>1 DEF Calibrator!Elevated, Calibrator!Greatest
<1>3. PICK c \in 5..50 : c = Calibrator!Clamp(f, 5, 50)
  BY DEF Calibrator!Clamp, Calibrator!Least, Calibrator!Greatest
<1>4. PICK em \in Int : em = (IF 14 * e < 100 THEN 14 * e ELSE 100)
  BY <1>2
<1>5. PICK cr \in Int : cr = (IF 10 * e < em - 1 THEN 10 * e ELSE em - 1)
  BY <1>2
<1>6. PICK hi \in Int : hi = (IF 5 * e < cr - 1 THEN 5 * e ELSE cr - 1)
  BY <1>2
<1>7. Calibrator!Suggested(b, o, f)
         = [elevated |-> e, high |-> hi, critical |-> cr, emergency |-> em,
            fullCritical |-> c]
  BY <1>1, <1>3, <1>4, <1>5, <1>6 DEF Calibrator!Suggested, Calibrator!Least
<1>8. 0 < e /\ e < hi /\ hi < cr /\ cr < em /\ em <= 100 /\ c > 0 /\ e <= 15
  BY <1>2, <1>3, <1>4, <1>5, <1>6
<1>9. PICK s : s = Calibrator!Suggested(b, o, f)
  OBVIOUS
<1>10. /\ s.elevated = e /\ s.high = hi /\ s.critical = cr /\ s.emergency = em
       /\ s.fullCritical = c
  BY <1>7, <1>9
<1>11. Calibrator!Valid(s)
  BY <1>8, <1>10 DEF Calibrator!Valid
<1>12. PICK t : t = [Current EXCEPT !.elevated = e, !.fullCritical = c]
  OBVIOUS
<1>13. /\ t.elevated = e /\ t.high = Current.high /\ t.critical = Current.critical
       /\ t.emergency = Current.emergency /\ t.fullCritical = c
  BY <1>12 DEF TiersInOrder
<1>14. /\ Current.high \in Nat /\ Current.critical \in Nat /\ Current.emergency \in Nat
       /\ Current.high < Current.critical /\ Current.critical < Current.emergency
       /\ Current.emergency <= 100 /\ 15 < Current.high
  BY DEF TiersInOrder, Calibrator!Valid
<1>15. Calibrator!Valid(t)
  BY <1>2, <1>8, <1>13, <1>14 DEF Calibrator!Valid
<1>16. QED
  BY <1>9, <1>10, <1>11, <1>12, <1>15 DEF Usable

\* Whatever the evidence, a suggestion is a usable setting (calibrate.rs:155-197).
LEMMA SuggestionsUsable ==
    ASSUME TiersInOrder, NEW ev \in Calibrator!Evidence
    PROVE  \A s \in Calibrator!Suggestions(ev) : Usable(s)
<1>1. /\ ev.benign \in [Calibrator!Bins -> Nat] /\ ev.stall \in [Calibrator!Bins -> Nat]
      /\ ev.full \in [Calibrator!Bins -> Nat]
  BY DEF Calibrator!Evidence
<1>2. /\ Calibrator!Percentile(ev.benign, 95, 0) \in 0..100
      /\ Calibrator!Percentile(ev.stall, 10, 100) \in 0..100
      /\ Calibrator!Percentile(ev.full, 95, 20) \in 0..100
  <2>1. 0 \in 0..100 /\ 20 \in 0..100 /\ 100 \in 0..100 /\ 10 \in {10, 95} /\ 95 \in {10, 95}
    OBVIOUS
  <2>2. QED
    BY <1>1, <2>1, PercentileRange
<1>3. Usable(Calibrator!Suggested(Calibrator!Percentile(ev.benign, 95, 0),
                                  Calibrator!Percentile(ev.stall, 10, 100),
                                  Calibrator!Percentile(ev.full, 95, 20)))
  BY <1>2, SuggestedUsable
<1>4. QED
  BY <1>3, Zenon DEF Calibrator!Suggestions

-----------------------------------------------------------------------------
(* The calibrator: its evidence.                                           *)

\* The types; what is proposed is usable.
CalTyped ==
    /\ pressure \in Readings /\ evidence \in Calibrator!Evidence
    /\ file \in Calibrator!Evidence \cup {Torn} /\ pending \in Calibrator!Evidence \cup {Torn}
    /\ episodes \in Nat /\ late \in Nat
    /\ \A t \in Calibrator!Threads : flight[t] = NoFlight \/ flight[t].reading \in Readings
    /\ DOMAIN flight = Calibrator!Threads
    /\ \A s \in proposed : Usable(s)

\* The stall that goes on and has not been counted.
Uncounted == IF Calibrator!Stalling(pressure) /\ ~inStall THEN 1 ELSE 0

\* Each stall is counted once, but for what late readings add; so it is on disk.
CalCounted ==
    /\ evidence.events + Uncounted <= episodes + late
    /\ file # Torn => file.events <= episodes + late
    /\ pending # Torn => pending.events <= episodes + late

\* A file that is whole is the last one that was written whole; the daemon has that
\* evidence, and writes nothing less.
CalKept ==
    /\ kept \in Nat
    /\ file # Torn => file.observed = kept
    /\ phase # "exited" => evidence.observed >= kept
    /\ pending # Torn => pending.observed >= kept /\ evidence.observed >= pending.observed

\* What is not in the file is dirty, or being written, or its write has failed.
CalSaved ==
    /\ phase \in {"running", "flushing", "exited"}
    /\ phase # "running" => Calibrator!Idle
    /\ phase = "exited" => pending = Torn /\ (dirty => failed)
    /\ phase = "flushing" => (pending = Torn <=> dirty)
    /\ pending = Torn /\ ~dirty /\ ~failed => evidence = Calibrator!Fresh \/ file = evidence
    /\ pending # Torn /\ ~dirty => pending = evidence

CalInv == CalTyped /\ CalCounted /\ CalKept /\ CalSaved

\* Evidence begins with nothing counted (calibrate.rs:46-56).
LEMMA FreshFacts ==
    /\ Calibrator!Fresh \in Calibrator!Evidence
    /\ Calibrator!Fresh.events = 0 /\ Calibrator!Fresh.observed = 0
BY DEF Calibrator!Fresh, Calibrator!Evidence, Calibrator!NoSecs

\* The invariant of the calibrator holds before anything is observed.
LEMMA CalStart == Calibrator!Init => CalInv
<1> SUFFICES ASSUME Calibrator!Init PROVE CalInv
  OBVIOUS
<1>1. CalTyped
  BY FreshFacts, BinFacts DEF Calibrator!Init, CalTyped
<1>2. CalCounted
  BY FreshFacts DEF Calibrator!Init, CalCounted, Uncounted
<1>3. CalKept
  BY FreshFacts DEF Calibrator!Init, CalKept
<1>4. CalSaved
  BY DEF Calibrator!Init, CalSaved
<1>5. QED
  BY <1>1, <1>2, <1>3, <1>4 DEF CalInv

\* What a reading adds.
LEMMA CountedFacts ==
    ASSUME evidence \in Calibrator!Evidence, NEW r \in Readings, NEW w \in Nat
    PROVE  /\ Calibrator!Counted(r, w) \in Calibrator!Evidence
           /\ Calibrator!Counted(r, w).events = IF Calibrator!Stalling(r) /\ ~inStall
                                                THEN evidence.events + 1 ELSE evidence.events
           /\ Calibrator!Counted(r, w).observed = evidence.observed + w
<1>1. r[1] \in Calibrator!Bins /\ r[2] \in Calibrator!Bins
  BY BinFacts
<1>2. /\ evidence.benign \in [Calibrator!Bins -> Nat]
      /\ evidence.stall \in [Calibrator!Bins -> Nat]
      /\ evidence.full \in [Calibrator!Bins -> Nat]
      /\ evidence.events \in Nat /\ evidence.observed \in Nat
  BY DEF Calibrator!Evidence
<1> DEFINE x == [evidence.benign EXCEPT ![r[1]] = IF Calibrator!Stalling(r) THEN @ ELSE @ + w]
           y == [evidence.stall EXCEPT ![r[1]] = IF Calibrator!Stalling(r) THEN @ + w ELSE @]
           z == [evidence.full EXCEPT ![r[2]] = IF Calibrator!Stalling(r) THEN @ + w ELSE @]
           n == IF Calibrator!Stalling(r) /\ ~inStall THEN evidence.events + 1
                ELSE evidence.events
<1>3. /\ x \in [Calibrator!Bins -> Nat] /\ y \in [Calibrator!Bins -> Nat]
      /\ z \in [Calibrator!Bins -> Nat] /\ n \in Nat
  BY <1>1, <1>2
<1>4. Calibrator!Counted(r, w)
        = [evidence EXCEPT !.events = n, !.observed = evidence.observed + w,
                           !.benign = x, !.stall = y, !.full = z]
  BY DEF Calibrator!Counted, Calibrator!NewStall
<1> HIDE DEF x, y, z, n
<1>5. /\ Calibrator!Counted(r, w) \in Calibrator!Evidence
      /\ Calibrator!Counted(r, w).events = n
      /\ Calibrator!Counted(r, w).observed = evidence.observed + w
  <2>1. PICK m \in Nat : m = evidence.observed + w
    BY <1>2
  <2>2. evidence = [benign |-> evidence.benign, stall |-> evidence.stall,
                    full |-> evidence.full, observed |-> evidence.observed,
                    events |-> evidence.events]
    BY DEF Calibrator!Evidence
  <2>3. PICK c : c = [benign |-> x, stall |-> y, full |-> z, observed |-> m, events |-> n]
    OBVIOUS
  <2>4. Calibrator!Counted(r, w) = c
    BY <1>4, <2>1, <2>2, <2>3
  <2>5. c \in Calibrator!Evidence /\ c.events = n /\ c.observed = m
    BY <1>3, <2>1, <2>3 DEF Calibrator!Evidence
  <2>6. QED
    BY <2>1, <2>4, <2>5
<1>6. QED
  BY <1>5 DEF n

\* A reading that is observed adds to the evidence unless processes are held, and is late
\* when the kernel would by now say otherwise.
LEMMA Observed ==
    ASSUME CalTyped, NEW t \in Calibrator!Threads, Calibrator!Observe(t)
    PROVE  \E r \in Readings :
             /\ UNCHANGED <<pressure, treated, pending, phase, file, proposed, episodes, kept,
                            failed>>
             /\ flight' = [flight EXCEPT ![t] = NoFlight]
             /\ inStall' = Calibrator!Stalling(r)
             /\ late' = IF Calibrator!Stalling(r) = Calibrator!Stalling(pressure) THEN late
                        ELSE late + 1
             /\ \/ evidence' = evidence /\ dirty' = dirty
                \/ /\ dirty' = TRUE /\ evidence' \in Calibrator!Evidence
                   /\ evidence'.observed >= evidence.observed
                   /\ evidence'.events = IF Calibrator!Stalling(r) /\ ~inStall
                                         THEN evidence.events + 1 ELSE evidence.events
<1>1. PICK r \in Readings : r = flight[t].reading
  BY DEF Calibrator!Observe, CalTyped
<1>2. Weight[t] \in Nat /\ evidence \in Calibrator!Evidence
  BY BinFacts DEF CalTyped
<1>3. PICK c : c = Calibrator!Counted(r, Weight[t])
  OBVIOUS
<1>4. /\ c \in Calibrator!Evidence /\ c.observed = evidence.observed + Weight[t]
      /\ c.events = IF Calibrator!Stalling(r) /\ ~inStall
                    THEN evidence.events + 1 ELSE evidence.events
  BY <1>2, <1>3, CountedFacts
<1>5. c.observed >= evidence.observed
  BY <1>2, <1>4 DEF Calibrator!Evidence
<1>6. /\ inStall' = Calibrator!Stalling(r)
      /\ late' = IF Calibrator!Stalling(r) = Calibrator!Stalling(pressure) THEN late
                 ELSE late + 1
      /\ flight' = [flight EXCEPT ![t] = NoFlight]
      /\ UNCHANGED <<pressure, treated, pending, phase, file, proposed, episodes, kept, failed>>
      /\ evidence' = IF treated THEN evidence ELSE c
      /\ dirty' = IF treated THEN dirty ELSE TRUE
  BY <1>1, <1>3 DEF Calibrator!Observe, Calibrator!Excluded, Calibrator!DirtyAfter,
     Calibrator!disk
<1>7. CASE treated
  BY <1>6, <1>7
<1>8. CASE ~treated
  BY <1>4, <1>5, <1>6, <1>8
<1>9. QED
  BY <1>7, <1>8

\* Evidence stays evidence, on disk too.
LEMMA CalTypedStep ==
    ASSUME TiersInOrder, CalTyped, [Calibrator!Next]_Calibrator!vars
    PROVE  CalTyped'
<1> USE DEF Calibrator!disk
<1>1. ASSUME NEW r \in Readings, Calibrator!Change(r) PROVE CalTyped'
  <2>1. episodes' \in Nat
    BY <1>1 DEF Calibrator!Change, CalTyped
  <2>2. QED
    BY <1>1, <2>1 DEF Calibrator!Change, CalTyped, Usable
<1>2. ASSUME NEW t \in Calibrator!Threads, Calibrator!Read(t) PROVE CalTyped'
  <2>1. /\ flight' = [flight EXCEPT ![t] = [reading |-> pressure, treated |-> treated]]
        /\ pressure \in Readings
    BY <1>2 DEF Calibrator!Read, CalTyped
  <2>2. \A u \in Calibrator!Threads : flight'[u] = NoFlight \/ flight'[u].reading \in Readings
    BY <2>1 DEF CalTyped
  <2>3. DOMAIN flight' = Calibrator!Threads
    BY <2>1 DEF CalTyped
  <2>4. QED
    BY <1>2, <2>2, <2>3 DEF Calibrator!Read, CalTyped, Usable
<1>3. ASSUME NEW t \in Calibrator!Threads, Calibrator!Observe(t) PROVE CalTyped'
  <2>0. PICK r \in Readings :
           /\ UNCHANGED <<pressure, treated, pending, file, proposed, episodes>>
           /\ flight' = [flight EXCEPT ![t] = NoFlight]
           /\ late' = IF Calibrator!Stalling(r) = Calibrator!Stalling(pressure) THEN late
                      ELSE late + 1
           /\ evidence' = evidence \/ evidence' \in Calibrator!Evidence
    BY <1>3, Observed
  <2>1. /\ UNCHANGED <<pressure, treated, pending, file, proposed, episodes>>
        /\ flight' = [flight EXCEPT ![t] = NoFlight]
        /\ evidence' \in Calibrator!Evidence /\ late' \in Nat
    BY <2>0 DEF CalTyped
  <2>2. \A u \in Calibrator!Threads : flight'[u] = NoFlight \/ flight'[u].reading \in Readings
    BY <2>1 DEF CalTyped
  <2>3. DOMAIN flight' = Calibrator!Threads
    BY <2>1 DEF CalTyped
  <2>4. QED
    BY <2>1, <2>2, <2>3 DEF CalTyped, Usable
<1>4. CASE Calibrator!Treat
  BY <1>4 DEF Calibrator!Treat, CalTyped, Usable
<1>5. CASE Calibrator!FlushTake
  BY <1>5 DEF Calibrator!FlushTake, CalTyped, Usable
<1>6. CASE Calibrator!FlushWrite
  <2>1. pending \in Calibrator!Evidence
    BY <1>6 DEF Calibrator!FlushWrite, CalTyped
  <2>2. \A s \in proposed' : Usable(s)
    <3>1. proposed' = proposed \/ proposed' = Calibrator!Suggestions(pending)
      BY <1>6 DEF Calibrator!FlushWrite
    <3>2. QED
      BY <2>1, <3>1, SuggestionsUsable DEF CalTyped
  <2>3. QED
    BY <1>6, <2>1, <2>2 DEF Calibrator!FlushWrite, CalTyped, Usable
<1>7. CASE Calibrator!FlushFail
  BY <1>7 DEF Calibrator!FlushFail, CalTyped, Usable
<1>8. CASE Calibrator!Stop
  BY <1>8 DEF Calibrator!Stop, CalTyped, Usable
<1>9. CASE Calibrator!Crash
  BY <1>9 DEF Calibrator!Crash, CalTyped, Usable
<1>10. CASE Calibrator!Start
  <2>1. evidence' \in Calibrator!Evidence
    BY <1>10, FreshFacts DEF Calibrator!Start, Calibrator!Loaded, CalTyped
  <2>2. episodes' \in Nat
    BY <1>10 DEF Calibrator!Start, CalTyped
  <2>3. QED
    BY <1>10, <2>1, <2>2 DEF Calibrator!Start, CalTyped, Usable
<1>11. CASE UNCHANGED Calibrator!vars
  BY <1>11 DEF Calibrator!vars, CalTyped, Usable
<1>12. QED
  BY <1>1, <1>2, <1>3, <1>4, <1>5, <1>6, <1>7, <1>8, <1>9, <1>10, <1>11 DEF Calibrator!Next

\* A stall is counted by the first reading that sees it, and again only after a reading that
\* was late.
LEMMA CalCountedStep ==
    ASSUME CalTyped, CalCounted, [Calibrator!Next]_Calibrator!vars
    PROVE  CalCounted'
<1> USE DEF Calibrator!disk
<1>0. /\ episodes \in Nat /\ late \in Nat /\ evidence.events \in Nat
      /\ file # Torn => file.events \in Nat
      /\ pending # Torn => pending.events \in Nat
      /\ evidence.events <= episodes + late
  <2>1. \A e \in Calibrator!Evidence : e.events \in Nat
    BY DEF Calibrator!Evidence
  <2>2. QED
    BY <2>1 DEF CalTyped, CalCounted, Uncounted
<1>1. ASSUME NEW r \in Readings, Calibrator!Change(r) PROVE CalCounted'
  <2>1. /\ UNCHANGED <<evidence, inStall, pending, file, late>> /\ pressure' = r
        /\ episodes' = IF Calibrator!Stalling(r) /\ ~Calibrator!Stalling(pressure)
                       THEN episodes + 1 ELSE episodes
    BY <1>1 DEF Calibrator!Change
  <2>2. Calibrator!Stalling(pressure)' = Calibrator!Stalling(r)
    BY <2>1 DEF Calibrator!Stalling
  <2>3. Uncounted' = IF Calibrator!Stalling(r) /\ ~inStall THEN 1 ELSE 0
    BY <2>1, <2>2 DEF Uncounted
  <2>4. evidence'.events + Uncounted' <= episodes' + late'
    BY <1>0, <2>1, <2>3 DEF CalCounted, Uncounted
  <2>5. QED
    BY <1>0, <2>1, <2>4 DEF CalCounted
<1>2. ASSUME NEW t \in Calibrator!Threads, Calibrator!Observe(t) PROVE CalCounted'
  <2>1. PICK r \in Readings :
           /\ UNCHANGED <<pressure, pending, file, episodes>>
           /\ inStall' = Calibrator!Stalling(r)
           /\ late' = IF Calibrator!Stalling(r) = Calibrator!Stalling(pressure) THEN late
                      ELSE late + 1
           /\ \/ evidence'.events = evidence.events
              \/ evidence'.events = IF Calibrator!Stalling(r) /\ ~inStall
                                    THEN evidence.events + 1 ELSE evidence.events
    BY <1>2, Observed DEF CalTyped
  <2>2. Uncounted' = IF Calibrator!Stalling(pressure) /\ ~Calibrator!Stalling(r) THEN 1 ELSE 0
    BY <2>1 DEF Uncounted, Calibrator!Stalling
  <2>3. \A q : Calibrator!Stalling(q) \in BOOLEAN
    BY DEF Calibrator!Stalling
  <2>4. evidence'.events + Uncounted' <= episodes' + late'
    <3>1. PICK n, m, e, l \in Nat : n = evidence.events /\ m = Uncounted /\ e = episodes /\ l = late
      BY <1>0 DEF Uncounted
    <3>2. n + m <= e + l
      BY <3>1 DEF CalCounted
    <3>3. m = IF Calibrator!Stalling(pressure) /\ ~inStall THEN 1 ELSE 0
      BY <3>1 DEF Uncounted
    <3>4. /\ evidence'.events = n \/ evidence'.events = IF Calibrator!Stalling(r) /\ ~inStall
                                                       THEN n + 1 ELSE n
          /\ late' = IF Calibrator!Stalling(r) = Calibrator!Stalling(pressure) THEN l ELSE l + 1
          /\ episodes' = e
      BY <2>1, <3>1
    <3>5. QED
      BY <2>2, <2>3, <3>2, <3>3, <3>4
  <2>5. late' \in Nat /\ late' >= late
    BY <1>0, <2>1
  <2>6. /\ file # Torn => file'.events <= episodes' + late'
        /\ pending # Torn => pending'.events <= episodes' + late'
    BY <1>0, <2>1, <2>5 DEF CalCounted
  <2>7. QED
    BY <2>1, <2>4, <2>6 DEF CalCounted
<1>3. CASE Calibrator!Start
  <2>1. /\ UNCHANGED <<pressure, pending, file, late>> /\ inStall' = FALSE
        /\ evidence' = IF file = Torn THEN Calibrator!Fresh ELSE file
        /\ episodes' = IF Calibrator!Stalling(pressure) THEN episodes + 1 ELSE episodes
    BY <1>3 DEF Calibrator!Start, Calibrator!Loaded
  <2>2. evidence'.events <= episodes + late /\ evidence'.events \in Nat
    BY <1>0, <2>1, FreshFacts DEF CalCounted
  <2>3. Uncounted' = IF Calibrator!Stalling(pressure) THEN 1 ELSE 0
    BY <2>1 DEF Uncounted, Calibrator!Stalling
  <2>4. evidence'.events + Uncounted' <= episodes' + late'
    BY <1>0, <2>1, <2>2, <2>3
  <2>5. QED
    BY <1>0, <2>1, <2>4 DEF CalCounted
<1>4. ASSUME UNCHANGED <<evidence, inStall, pressure, episodes, late>>,
             file' \in {file, pending, Torn}, pending # Torn \/ file' = file,
             pending' \in {pending, evidence, Torn}
      PROVE  CalCounted'
  <2>1. Uncounted' = Uncounted
    BY <1>4 DEF Uncounted, Calibrator!Stalling
  <2>2. QED
    BY <1>0, <1>4, <2>1 DEF CalCounted
<1>5. ASSUME NEW t \in Calibrator!Threads, Calibrator!Read(t) PROVE CalCounted'
  BY <1>4, <1>5 DEF Calibrator!Read
<1>6. ASSUME Calibrator!Treat \/ Calibrator!FlushTake \/ Calibrator!FlushWrite
                \/ Calibrator!FlushFail \/ Calibrator!Stop \/ Calibrator!Crash
      PROVE  CalCounted'
  BY <1>4, <1>6 DEF Calibrator!Treat, Calibrator!FlushTake, Calibrator!FlushWrite,
     Calibrator!FlushFail, Calibrator!Stop, Calibrator!Crash
<1>7. CASE UNCHANGED Calibrator!vars
  BY <1>4, <1>7 DEF Calibrator!vars
<1>8. QED
  BY <1>1, <1>2, <1>3, <1>5, <1>6, <1>7 DEF Calibrator!Next

\* A write puts more into the file than is there, and a start begins with what it has.
LEMMA CalKeptStep ==
    ASSUME CalTyped, CalKept, CalSaved, [Calibrator!Next]_Calibrator!vars
    PROVE  CalKept'
<1> USE DEF Calibrator!disk
<1>0. \A e \in {evidence, file, pending} \ {Torn} : e.observed \in Nat
  <2>1. \A e \in Calibrator!Evidence : e.observed \in Nat
    BY DEF Calibrator!Evidence
  <2>2. QED
    BY <2>1 DEF CalTyped
<1>1. evidence # Torn
  BY BinFacts DEF CalTyped
<1>2. CASE Calibrator!FlushTake
  BY <1>0, <1>1, <1>2 DEF Calibrator!FlushTake, CalKept
<1>3. CASE Calibrator!FlushWrite
  BY <1>0, <1>1, <1>3 DEF Calibrator!FlushWrite, Calibrator!Written, CalKept
<1>4. ASSUME UNCHANGED <<evidence, kept>>, file' \in {file, Torn},
             pending' \in {pending, Torn}, phase = "exited" => phase' = "exited"
      PROVE  CalKept'
  BY <1>4 DEF CalKept
<1>5. ASSUME NEW t \in Calibrator!Threads, Calibrator!Read(t) PROVE CalKept'
  BY <1>4, <1>5 DEF Calibrator!Read
<1>6. ASSUME NEW r \in Readings, Calibrator!Change(r) PROVE CalKept'
  BY <1>4, <1>6 DEF Calibrator!Change
<1>7. ASSUME Calibrator!Treat \/ Calibrator!FlushFail \/ Calibrator!Stop \/ Calibrator!Crash
      PROVE  CalKept'
  BY <1>4, <1>7 DEF Calibrator!Treat, Calibrator!FlushFail, Calibrator!Written,
     Calibrator!Stop, Calibrator!Crash
<1>8. ASSUME NEW t \in Calibrator!Threads, Calibrator!Observe(t) PROVE CalKept'
  <2>1. /\ UNCHANGED <<pending, phase, file, kept>>
        /\ \/ evidence' = evidence
           \/ /\ evidence' \in Calibrator!Evidence
              /\ evidence'.observed >= evidence.observed
    BY <1>8, Observed
  <2>2. evidence'.observed \in Nat /\ evidence'.observed >= evidence.observed
    BY <1>0, <1>1, <2>1 DEF Calibrator!Evidence
  <2>3. QED
    BY <1>0, <1>1, <2>1, <2>2 DEF CalKept
<1>9. CASE Calibrator!Start
  <2>1. /\ UNCHANGED <<file, pending>> /\ phase = "exited"
        /\ evidence' = IF file = Torn THEN Calibrator!Fresh ELSE file
        /\ kept' = IF file = Torn THEN 0 ELSE kept
    BY <1>9 DEF Calibrator!Start, Calibrator!Loaded
  <2>2. pending = Torn
    BY <2>1 DEF CalSaved
  <2>3. evidence'.observed >= kept'
    BY <2>1, FreshFacts DEF CalKept
  <2>4. QED
    BY <2>1, <2>2, <2>3 DEF CalKept
<1>10. CASE UNCHANGED Calibrator!vars
  BY <1>4, <1>10 DEF Calibrator!vars
<1>11. QED
  BY <1>2, <1>3, <1>5, <1>6, <1>7, <1>8, <1>9, <1>10 DEF Calibrator!Next

\* Nothing is lost between the evidence, what is being written and the file.
LEMMA CalSavedStep ==
    ASSUME CalTyped, CalSaved, [Calibrator!Next]_Calibrator!vars
    PROVE  CalSaved'
<1> USE DEF Calibrator!disk
<1>1. ASSUME NEW t \in Calibrator!Threads, Calibrator!Observe(t) PROVE CalSaved'
  <2>1. /\ UNCHANGED <<pending, phase, file, failed>>
        /\ flight' = [flight EXCEPT ![t] = NoFlight]
        /\ (evidence' = evidence /\ dirty' = dirty) \/ dirty' = TRUE
    BY <1>1, Observed
  <2>2. phase = "running"
    BY <1>1 DEF Calibrator!Observe, CalSaved, Calibrator!Idle
  <2>3. QED
    BY <2>1, <2>2 DEF CalSaved
<1>2. CASE Calibrator!FlushTake
  <2>1. /\ phase \in {"running", "flushing"} /\ pending = Torn /\ pending' = evidence
        /\ ~dirty' /\ UNCHANGED <<evidence, phase, file, failed, flight>>
    BY <1>2 DEF Calibrator!FlushTake
  <2>2. evidence # Torn
    BY BinFacts DEF CalTyped
  <2>3. QED
    BY <2>1, <2>2 DEF CalSaved, Calibrator!Idle
<1>3. CASE Calibrator!FlushWrite
  <2>1. /\ pending # Torn /\ file' = pending /\ ~failed' /\ pending' = Torn
        /\ phase' = IF phase = "flushing" THEN "exited" ELSE phase
        /\ UNCHANGED <<evidence, dirty, flight>>
    BY <1>3 DEF Calibrator!FlushWrite, Calibrator!Written
  <2>2. QED
    BY <2>1 DEF CalSaved, Calibrator!Idle
<1>4. CASE Calibrator!FlushFail
  <2>1. /\ pending # Torn /\ failed' /\ pending' = Torn
        /\ phase' = IF phase = "flushing" THEN "exited" ELSE phase
        /\ UNCHANGED <<evidence, dirty, flight>>
    BY <1>4 DEF Calibrator!FlushFail, Calibrator!Written
  <2>2. QED
    BY <2>1 DEF CalSaved, Calibrator!Idle
<1>5. CASE Calibrator!Stop
  <2>1. /\ phase = "running" /\ Calibrator!Idle /\ pending = Torn
        /\ phase' = IF dirty THEN "flushing" ELSE "exited"
        /\ UNCHANGED <<evidence, dirty, flight, pending, file, failed>>
    BY <1>5 DEF Calibrator!Stop
  <2>2. QED
    BY <2>1 DEF CalSaved, Calibrator!Idle
<1>6. CASE Calibrator!Crash
  <2>1. /\ phase' = "exited" /\ failed' /\ pending' = Torn
        /\ flight' = [t \in Calibrator!Threads |-> NoFlight]
    BY <1>6 DEF Calibrator!Crash
  <2>2. QED
    BY <2>1 DEF CalSaved, Calibrator!Idle
<1>7. CASE Calibrator!Start
  <2>1. /\ phase = "exited" /\ phase' = "running" /\ ~failed' /\ ~dirty'
        /\ evidence' = IF file = Torn THEN Calibrator!Fresh ELSE file
        /\ UNCHANGED <<file, pending, flight>>
    BY <1>7 DEF Calibrator!Start, Calibrator!Loaded
  <2>2. pending' = Torn /\ (evidence' = Calibrator!Fresh \/ file' = evidence')
    BY <2>1 DEF CalSaved
  <2>3. Calibrator!Fresh' = Calibrator!Fresh
    BY DEF Calibrator!Fresh, Calibrator!NoSecs, Calibrator!Bins
  <2>4. QED
    BY <2>1, <2>2, <2>3 DEF CalSaved
<1>8. ASSUME UNCHANGED <<evidence, dirty, pending, phase, file, failed>>,
             phase # "running" => flight' = flight
      PROVE  CalSaved'
  BY <1>8 DEF CalSaved, Calibrator!Idle
<1>9. ASSUME NEW t \in Calibrator!Threads, Calibrator!Read(t) PROVE CalSaved'
  BY <1>8, <1>9 DEF Calibrator!Read
<1>10. ASSUME NEW r \in Readings, Calibrator!Change(r) PROVE CalSaved'
  BY <1>8, <1>10 DEF Calibrator!Change
<1>11. CASE Calibrator!Treat
  BY <1>8, <1>11 DEF Calibrator!Treat
<1>12. CASE UNCHANGED Calibrator!vars
  BY <1>8, <1>12 DEF Calibrator!vars
<1>13. QED
  BY <1>1, <1>2, <1>3, <1>4, <1>5, <1>6, <1>7, <1>9, <1>10, <1>11, <1>12 DEF Calibrator!Next

\* The invariant of the calibrator is inductive.
LEMMA CalStep ==
    ASSUME TiersInOrder
    PROVE  CalInv /\ [Calibrator!Next]_Calibrator!vars => CalInv'
BY CalTypedStep, CalCountedStep, CalKeptStep, CalSavedStep DEF CalInv

\* A daemon that comes back has all that was written whole, and no write makes that less.
LEMMA NothingForgotten ==
    ASSUME CalInv, Calibrator!Next
    PROVE  /\ phase = "exited" /\ phase' = "running" /\ file # Torn => evidence'.observed >= kept
           /\ kept' < kept => phase = "exited" /\ file = Torn
<1> USE DEF Calibrator!disk
<1>0. kept \in Nat
  BY DEF CalInv, CalKept
<1>1. CASE Calibrator!Start
  <2>1. /\ phase = "exited" /\ evidence' = IF file = Torn THEN Calibrator!Fresh ELSE file
        /\ kept' = IF file = Torn THEN 0 ELSE kept
    BY <1>1 DEF Calibrator!Start, Calibrator!Loaded
  <2>2. QED
    BY <1>0, <2>1 DEF CalInv, CalKept
<1>2. CASE Calibrator!FlushWrite
  <2>1. pending.observed >= kept /\ kept' = pending.observed /\ pending.observed \in Nat
    BY <1>2 DEF Calibrator!FlushWrite, CalInv, CalKept, CalTyped, Calibrator!Evidence
  <2>2. phase' = IF phase = "flushing" THEN "exited" ELSE phase
    BY <1>2 DEF Calibrator!FlushWrite, Calibrator!Written
  <2>3. QED
    BY <1>0, <2>1, <2>2
<1>3. ASSUME kept' = kept, phase = "exited" => phase' = "exited"
      PROVE  /\ phase = "exited" /\ phase' = "running" /\ file # Torn
                    => evidence'.observed >= kept
             /\ kept' < kept => phase = "exited" /\ file = Torn
  BY <1>0, <1>3
<1>4. ASSUME \/ \E r \in Readings : Calibrator!Change(r)
             \/ \E t \in Calibrator!Threads : Calibrator!Read(t) \/ Calibrator!Observe(t)
             \/ Calibrator!Treat \/ Calibrator!FlushTake \/ Calibrator!FlushFail
             \/ Calibrator!Stop \/ Calibrator!Crash
      PROVE  kept' = kept /\ (phase = "exited" => phase' = "exited")
  BY <1>4 DEF Calibrator!Change, Calibrator!Read, Calibrator!Observe, Calibrator!Treat,
     Calibrator!FlushTake, Calibrator!FlushFail, Calibrator!Written, Calibrator!Stop,
     Calibrator!Crash
<1>5. QED
  BY <1>1, <1>2, <1>3, <1>4 DEF Calibrator!Next

\* The calibrator proposes from sound evidence, however long its threads hold a reading and
\* wherever the daemon ends, as long as the tiers in use leave room for its elevated_pct
\* (calibrate.rs:108-116, 170-184; maintenance.rs:138-168; main.rs:83).
THEOREM ProposedFromEvidence ==
    ASSUME TiersInOrder
    PROVE  Calibrator!Spec => EvidenceSound
<1>1. CalInv => /\ Calibrator!StallsCountedOnce /\ Calibrator!SavedAtExit
                /\ Calibrator!SuggestionUsable
  <2> SUFFICES ASSUME CalInv
               PROVE  /\ Calibrator!StallsCountedOnce /\ Calibrator!SavedAtExit
                      /\ Calibrator!SuggestionUsable
    OBVIOUS
  <2>1. Calibrator!StallsCountedOnce
    <3>1. evidence.events \in Nat /\ episodes \in Nat /\ late \in Nat
      BY DEF CalInv, CalTyped, Calibrator!Evidence
    <3>2. QED
      BY <3>1 DEF CalInv, CalCounted, Uncounted, Calibrator!StallsCountedOnce
  <2>2. Calibrator!SavedAtExit
    BY DEF CalInv, CalSaved, Calibrator!SavedAtExit
  <2>3. Calibrator!SuggestionUsable
    BY DEF CalInv, CalTyped, Usable, Calibrator!SuggestionUsable
  <2>4. QED
    BY <2>1, <2>2, <2>3
<1>2. CalInv /\ [Calibrator!Next]_Calibrator!vars
        => [/\ phase = "exited" /\ phase' = "running" /\ file # Torn
                   => evidence'.observed >= kept
            /\ kept' < kept => phase = "exited" /\ file = Torn]_Calibrator!vars
  BY NothingForgotten
<1>3. CalInv /\ [Calibrator!Next]_Calibrator!vars => CalInv'
  BY CalStep
<1>4. QED
  BY <1>1, <1>2, <1>3, CalStart, PTL
  DEF Calibrator!Spec, EvidenceSound, Calibrator!EvidenceKept

=============================================================================
