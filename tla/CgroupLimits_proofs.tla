------------------------- MODULE CgroupLimits_proofs -------------------------
(* What holds of the limits for every set of processes and cgroups: types,  *)
(* that caps exist at High only, and, as long as nobody is held and a spike *)
(* has its cgroup for itself, that a stop undoes everything and that the    *)
(* foreground is never limited.                                             *)
EXTENDS CgroupLimits, TLAPS

\* Whoever the spike mode tracks is the only process of its cgroup.
SpikesAlone == \A s \in Spikes, p \in Procs : CgroupOf[p] = CgroupOf[s] => p = s

\* Every limit in force is in the books of the manager that wrote it.
WeightsKnown ==
    \A g \in Cgroups :
        limit[g].weight # "default" => Throttled(nap[g]) \/ \E p \in spiked : CgroupOf[p] = g
QuotasKnown == \A g \in Cgroups : limit[g].quota # "max" => Throttled(nap[g])
CapsKnown   == \A g \in Cgroups : limit[g].cap => memcap[g].capped

\* A cgroup without processes is gone, its limits with it.
EmptyUnlimited == \A g \in Cgroups : Members(alive, g) = {} => limit[g] = Unlimited

NoneHeld == frozen = {} /\ victims = {}

\* Nobody gets the focus before it runs.
FocusStarted == active \notin fresh /\ served \notin fresh

-----------------------------------------------------------------------------
(* What the operators return.                                               *)

\* An empty entry is an entry.
LEMMA NoEntryType == NotNapped \in Naps /\ NotCapped \in Memcaps
BY DEF NotNapped, NotCapped, Naps, Memcaps, Untracked, Debounced, Expired

\* One limit of a cgroup replaced.
LEMMA LimitUpdate ==
    ASSUME NEW r \in Limits
    PROVE  /\ \A b \in BOOLEAN : [r EXCEPT !.cap = b] \in Limits
           /\ \A w \in {"default", "low", "spike"} : [r EXCEPT !.weight = w] \in Limits
BY DEF Limits

\* Without weight, quota and cap a cgroup has no limit.
LEMMA UnlimitedFields ==
    ASSUME NEW r \in Limits, r.weight = "default", r.quota = "max", ~r.cap
    PROVE  r = Unlimited
BY DEF Limits, Unlimited

\* The throttle's next entry of a cgroup is an entry.
LEMMA NapNextType ==
    ASSUME NEW g \in Cgroups, nap[g] \in Naps, NEW P, NEW age \in Untracked..Expired, NEW stall
    PROVE  NapNext(P, g, age, stall) \in Naps
<1> USE DEF Naps, NotNapped, Untracked, Debounced, Expired
<1>1. Target(P, g, age, stall) \in {"none", "weight", "full"}
  BY DEF Target
<1> QED BY <1>1 DEF NapNext, Throttled

\* The limits of a cgroup after an update are limits,
LEMMA CpuNextType ==
    ASSUME NEW g \in Cgroups, limit[g] \in Limits, NEW P, NEW new
    PROVE  CpuNext(P, g, new) \in Limits
BY DEF CpuNext, Limits

\* and so are those after the restore below Elevated.
LEMMA CpuOffType ==
    ASSUME NEW g \in Cgroups, limit[g] \in Limits
    PROVE  CpuOff(g) \in Limits
BY DEF CpuOff, Limits

\* The next entry of the cap manager is an entry.
LEMMA MemNextType ==
    ASSUME NEW g \in Cgroups, memcap[g] \in Memcaps, NEW P, NEW age \in Untracked..Debounced
    PROVE  MemNext(P, g, age) \in Memcaps
BY DEF MemNext, Memcaps, NotCapped, Untracked, Debounced

\* Time in the background stays within its last step.
LEMMA OlderType ==
    ASSUME NEW last \in {Debounced, Expired}, NEW age \in Untracked..last, NEW older \in Older(age, last)
    PROVE  older \in Untracked..last
BY DEF Older, Untracked, Debounced, Expired

\* The clean-up of the caps, for one cgroup.
LEMMA UncappedAt ==
    ASSUME NEW lim \in [Cgroups -> Limits], NEW mem, NEW g \in Cgroups
    PROVE  /\ Uncapped(lim, mem)[g] \in Limits
           /\ Uncapped(lim, mem)[g].weight = lim[g].weight
           /\ Uncapped(lim, mem)[g].quota = lim[g].quota
           /\ Uncapped(lim, mem)[g].cap => lim[g].cap /\ ~mem[g].capped
BY DEF Uncapped, Limits

\* The clean-up of the caps, for all cgroups.
LEMMA UncappedType ==
    ASSUME NEW lim \in [Cgroups -> Limits], NEW mem
    PROVE  Uncapped(lim, mem) \in [Cgroups -> Limits]
BY UncappedAt DEF Uncapped, Limits

\* What a full cycle does, with its LETs taken apart: to the throttle's books,
\* which become N, to the CPU limits, and to the caps.
FullOutcome(l, stall, P, N, cpu, M) ==
    /\ NoneHeld => P = alive /\ NoneHeld'
    /\ frozen' \subseteq frozen
    /\ level' = l /\ served' = active
    /\ nap' = N
    /\ l = "Normal" => \A g \in Cgroups : N[g] = NotNapped /\ cpu[g] = CpuOff(g)
    /\ l # "Normal" =>
         \A g \in Cgroups :
           /\ \E age \in Untracked..Expired : N[g] = NapNext(P, g, age, stall)
           /\ cpu[g] = CpuNext(P, g, N[g])
    /\ IF Uncaps(l)
       THEN memcap' = [g \in Cgroups |-> NotCapped] /\ limit' = Uncapped(cpu, memcap)
       ELSE /\ memcap' = M
            /\ limit' = [g \in Cgroups |-> [cpu[g] EXCEPT !.cap = CapNext(g, M[g])]]
            /\ \A g \in Cgroups : \E age \in Untracked..Debounced : M[g] = MemNext(P, g, age)

\* Every full cycle has such an outcome.
LEMMA FullStep ==
    ASSUME TypeOK, NEW l \in Levels, NEW stall \in BOOLEAN, CycleFull(l, stall)
    PROVE  \E N \in [Cgroups -> Naps], cpu \in [Cgroups -> Limits], M \in [Cgroups -> Memcaps],
              P \in SUBSET alive : FullOutcome(l, stall, P, N, cpu, M)
<1> DEFINE unfrozen == IF active # served THEN frozen \ {active} ELSE frozen
           P == alive \ (unfrozen \cup victims)
           N(age) == [g \in Cgroups |->
                       IF l = "Normal" THEN NotNapped ELSE NapNext(P, g, age[g], stall)]
           cpu(age) == [g \in Cgroups |->
                       IF l = "Normal" THEN CpuOff(g) ELSE CpuNext(P, g, N(age)[g])]
           Mem(g, a) == IF l = "High" THEN MemNext(P, g, a) ELSE memcap[g]
           M(mage) == [g \in Cgroups |-> Mem(g, mage[g])]
<1>a. PICK age, mage \in [Cgroups -> Untracked..Expired] :
        /\ \A g \in Cgroups : age[g] \in Older(nap[g].age, Expired)
        /\ \A g \in Cgroups : mage[g] \in Older(memcap[g].age, Debounced)
        /\ nap' = N(age)
        /\ memcap' = [g \in Cgroups |-> IF Uncaps(l) THEN NotCapped ELSE Mem(g, mage[g])]
        /\ limit' = IF Uncaps(l) THEN Uncapped(cpu(age), memcap)
                    ELSE [g \in Cgroups |->
                           [cpu(age)[g] EXCEPT !.cap = CapNext(g, Mem(g, mage[g]))]]
  BY Zenon DEF CycleFull
<1>1. /\ memcap' = [g \in Cgroups |-> IF Uncaps(l) THEN NotCapped ELSE M(mage)[g]]
      /\ limit' = IF Uncaps(l) THEN Uncapped(cpu(age), memcap)
                  ELSE [g \in Cgroups |->
                         [cpu(age)[g] EXCEPT !.cap = CapNext(g, M(mage)[g])]]
  BY <1>a
<1>2. \A g \in Cgroups : mage[g] \in Untracked..Debounced
  <2>1. \A g \in Cgroups : memcap[g].age \in Untracked..Debounced
    BY DEF TypeOK, Memcaps
  <2> QED BY <1>a, <2>1, OlderType
<1>3. N(age) \in [Cgroups -> Naps]
  <2> SUFFICES ASSUME NEW g \in Cgroups
               PROVE  (IF l = "Normal" THEN NotNapped ELSE NapNext(P, g, age[g], stall)) \in Naps
    OBVIOUS
  <2>1. nap[g] \in Naps /\ age[g] \in Untracked..Expired
    BY DEF TypeOK
  <2>2. NotNapped \in Naps
    BY DEF NotNapped, Naps, Untracked, Expired
  <2> QED BY <2>1, <2>2, NapNextType
<1>4. cpu(age) \in [Cgroups -> Limits]
  <2> SUFFICES ASSUME NEW g \in Cgroups
               PROVE  (IF l = "Normal" THEN CpuOff(g) ELSE CpuNext(P, g, N(age)[g])) \in Limits
    OBVIOUS
  <2>1. limit[g] \in Limits
    BY DEF TypeOK
  <2> QED BY <2>1, CpuOffType, CpuNextType
<1>5. M(mage) \in [Cgroups -> Memcaps]
  <2> SUFFICES ASSUME NEW g \in Cgroups
               PROVE  (IF l = "High" THEN MemNext(P, g, mage[g]) ELSE memcap[g]) \in Memcaps
    OBVIOUS
  <2>1. memcap[g] \in Memcaps
    BY DEF TypeOK
  <2> QED BY <1>2, <2>1, MemNextType
<1>6. P \in SUBSET alive
  OBVIOUS
<1>7. /\ NoneHeld => P = alive /\ NoneHeld'
      /\ frozen' \subseteq frozen
      /\ level' = l /\ served' = active
  BY DEF CycleFull, NoneHeld
<1>8. l = "Normal" => \A g \in Cgroups : N(age)[g] = NotNapped /\ cpu(age)[g] = CpuOff(g)
  OBVIOUS
<1>9. l # "Normal" =>
        \A g \in Cgroups :
          /\ \E a \in Untracked..Expired : N(age)[g] = NapNext(P, g, a, stall)
          /\ cpu(age)[g] = CpuNext(P, g, N(age)[g])
  OBVIOUS
<1>10. IF Uncaps(l)
       THEN memcap' = [g \in Cgroups |-> NotCapped] /\ limit' = Uncapped(cpu(age), memcap)
       ELSE /\ memcap' = M(mage)
            /\ limit' = [g \in Cgroups |-> [cpu(age)[g] EXCEPT !.cap = CapNext(g, M(mage)[g])]]
            /\ \A g \in Cgroups : \E a \in Untracked..Debounced : M(mage)[g] = MemNext(P, g, a)
  <2>1. CASE Uncaps(l)
    BY <1>1, <2>1
  <2>2. CASE ~Uncaps(l)
    <3>1. l = "High"
      BY <2>2 DEF Uncaps
    <3>2. memcap' = M(mage)
      BY <1>1, <2>2
    <3>3. limit' = [g \in Cgroups |-> [cpu(age)[g] EXCEPT !.cap = CapNext(g, M(mage)[g])]]
      BY <1>1, <2>2
    <3>4. \A g \in Cgroups : \E a \in Untracked..Debounced : M(mage)[g] = MemNext(P, g, a)
      BY <1>2, <3>1
    <3> QED BY <2>2, <3>2, <3>3, <3>4
  <2> QED BY <2>1, <2>2
<1> HIDE DEF P, N, cpu, M
<1>11. nap' = N(age)
  BY <1>a
<1>12. FullOutcome(l, stall, P, N(age), cpu(age), M(mage))
  BY <1>7, <1>8, <1>9, <1>10, <1>11 DEF FullOutcome
<1> QED BY <1>3, <1>4, <1>5, <1>6, <1>12

-----------------------------------------------------------------------------
(* Type correctness.                                                        *)

\* Types: what is frozen runs, what the spike mode throttles it tracks, and
\* every book entry and limit has its values, for any processes and cgroups.
THEOREM TypeCorrect == Spec => []TypeOK
<1>1. Init => TypeOK
  BY DEF Init, TypeOK, Unlimited, NotNapped, NotCapped, Limits, Naps, Memcaps, Levels,
         Untracked, Debounced, Expired
<1>2. TypeOK /\ [Next]_vars => TypeOK'
  <2> SUFFICES ASSUME TypeOK, [Next]_vars PROVE TypeOK'
    OBVIOUS
  <2> USE ProcsAssumption
  <2>1. ASSUME NEW l \in Levels, CycleBrief(l) PROVE TypeOK'
    <3>1. limit' \in [Cgroups -> Limits]
      BY <2>1, UncappedType DEF CycleBrief, TypeOK
    <3>2. memcap' \in [Cgroups -> Memcaps]
      BY <2>1, NoEntryType DEF CycleBrief, TypeOK
    <3>3. UNCHANGED <<env, nap, spike, served, up>> /\ level' \in Levels
      BY <2>1 DEF CycleBrief
    <3> QED BY <3>1, <3>2, <3>3 DEF TypeOK, env, spike
  <2>2. ASSUME NEW l \in Levels, NEW stall \in BOOLEAN, CycleFull(l, stall) PROVE TypeOK'
    <3>a. PICK N \in [Cgroups -> Naps], cpu \in [Cgroups -> Limits], M \in [Cgroups -> Memcaps],
               P \in SUBSET alive : FullOutcome(l, stall, P, N, cpu, M)
      BY <2>2, FullStep
    <3>1. /\ frozen' \subseteq frozen
          /\ level' = l /\ served' = active /\ nap' = N
          /\ IF Uncaps(l)
             THEN memcap' = [g \in Cgroups |-> NotCapped] /\ limit' = Uncapped(cpu, memcap)
             ELSE /\ memcap' = M
                  /\ limit' = [g \in Cgroups |-> [cpu[g] EXCEPT !.cap = CapNext(g, M[g])]]
      BY <3>a DEF FullOutcome
    <3>2. limit' \in [Cgroups -> Limits]
      <4>1. CASE Uncaps(l)
        BY <3>1, <4>1, UncappedType
      <4>2. CASE ~Uncaps(l)
        <5>1. ASSUME NEW g \in Cgroups
              PROVE  [cpu[g] EXCEPT !.cap = CapNext(g, M[g])] \in Limits
          <6>1. CapNext(g, M[g]) \in BOOLEAN
            BY DEF CapNext, TypeOK, Limits, Memcaps
          <6>2. cpu[g] \in Limits
            OBVIOUS
          <6> QED BY <6>1, <6>2, LimitUpdate
        <5>2. limit' = [g \in Cgroups |-> [cpu[g] EXCEPT !.cap = CapNext(g, M[g])]]
          BY <3>1, <4>2
        <5> QED BY <5>1, <5>2
      <4> QED BY <4>1, <4>2
    <3>3. memcap' \in [Cgroups -> Memcaps]
      <4>1. CASE Uncaps(l)
        BY <3>1, <4>1, NoEntryType
      <4>2. CASE ~Uncaps(l)
        BY <3>1, <4>2
      <4> QED BY <4>1, <4>2
    <3>4. UNCHANGED <<alive, fresh, victims, active, spike, up>>
      BY <2>2 DEF CycleFull
    <3> QED BY <3>1, <3>2, <3>3, <3>4 DEF TypeOK, spike
  <2>3. ASSUME Stop PROVE TypeOK'
    <3> DEFINE cpu == [g \in Cgroups |-> CpuOff(g)]
    <3>1. cpu \in [Cgroups -> Limits]
      BY CpuOffType DEF TypeOK
    <3>2. \A g \in Cgroups : Uncapped(cpu, memcap)[g] \in Limits
      BY <3>1, UncappedAt
    <3>3. limit' \in [Cgroups -> Limits]
      BY <2>3, <3>2 DEF Stop, Limits
    <3> QED BY <2>3, <3>3 DEF Stop, TypeOK, books, spike
  <2>4. ASSUME NEW p \in Spikes,
               \/ SpikeTrack(p) \/ SpikeThrottle(p) \/ SpikeRestore(p)
               \/ SpikeDemote(p) \/ SpikeExit(p)
        PROVE  TypeOK'
    <3>1. ASSUME \E w \in {"spike", "default"} : SetWeight(p, w)
          PROVE  limit' \in [Cgroups -> Limits]
      BY <3>1 DEF SetWeight, TypeOK, Limits
    <3>2. limit' \in [Cgroups -> Limits]
      BY <2>4, <3>1 DEF SpikeTrack, SpikeThrottle, SpikeRestore, SpikeDemote, SpikeExit, TypeOK
    <3> QED BY <2>4, <3>2 DEF SpikeTrack, SpikeThrottle, SpikeRestore, SpikeDemote, SpikeExit,
                              TypeOK, env, books
  <2>5. ASSUME NEW p \in Procs, Focus(p) \/ Start(p) \/ Hold(p) \/ Release(p) PROVE TypeOK'
    BY <2>5 DEF Focus, Start, Hold, Release, TypeOK, books, spike
  <2>6. ASSUME NEW p \in Procs, Exit(p) PROVE TypeOK'
    <3>1. limit' \in [Cgroups -> Limits]
      BY <2>6 DEF Exit, TypeOK, Limits, Unlimited
    <3> QED BY <2>6, <3>1 DEF Exit, TypeOK, books, spike
  <2>7. CASE UNCHANGED vars
    BY <2>7 DEF vars, env, books, spike, TypeOK
  <2> QED BY <2>1, <2>2, <2>3, <2>4, <2>5, <2>6, <2>7 DEF Next, Cycle, SpikeMode, Environment
<1> QED BY <1>1, <1>2, PTL DEF Spec

-----------------------------------------------------------------------------
(* Memory caps.                                                             *)

\* A cap and its entry go together, and both are gone after a cycle below High.
LEMMA CapsStep ==
    ASSUME TypeOK, CapsKnown, CapsOnlyAtHigh, Next
    PROVE  CapsKnown' /\ CapsOnlyAtHigh'
<1> USE ProcsAssumption
<1>1. ASSUME NEW l \in Levels, CycleBrief(l) PROVE CapsKnown' /\ CapsOnlyAtHigh'
  <2>1. CASE Uncaps(l)
    <3>1. \A g \in Cgroups : ~limit'[g].cap
      BY <1>1, <2>1, UncappedAt DEF CycleBrief, TypeOK, CapsKnown
    <3> QED BY <3>1 DEF CapsKnown, CapsOnlyAtHigh
  <2>2. CASE ~Uncaps(l)
    BY <1>1, <2>2 DEF CycleBrief, Uncaps, CapsKnown, CapsOnlyAtHigh
  <2> QED BY <2>1, <2>2
<1>2. ASSUME NEW l \in Levels, NEW stall \in BOOLEAN, CycleFull(l, stall)
      PROVE  CapsKnown' /\ CapsOnlyAtHigh'
  <2>a. PICK N \in [Cgroups -> Naps], cpu \in [Cgroups -> Limits], M \in [Cgroups -> Memcaps],
             P \in SUBSET alive : FullOutcome(l, stall, P, N, cpu, M)
    BY <1>2, FullStep
  <2>1. /\ level' = l
        /\ l = "Normal" => \A g \in Cgroups : N[g] = NotNapped /\ cpu[g] = CpuOff(g)
        /\ l # "Normal" => \A g \in Cgroups : cpu[g] = CpuNext(P, g, N[g])
        /\ IF Uncaps(l)
           THEN memcap' = [g \in Cgroups |-> NotCapped] /\ limit' = Uncapped(cpu, memcap)
           ELSE /\ memcap' = M
                /\ limit' = [g \in Cgroups |-> [cpu[g] EXCEPT !.cap = CapNext(g, M[g])]]
    BY <2>a DEF FullOutcome
  <2>2. \A g \in Cgroups : cpu[g] \in Limits /\ (cpu[g].cap => memcap[g].capped)
    <3> SUFFICES ASSUME NEW g \in Cgroups, cpu[g].cap
                 PROVE  memcap[g].capped
      BY <2>1
    <3>1. limit[g] \in Limits
      BY DEF TypeOK
    <3>2. CpuOff(g).cap = limit[g].cap
      BY <3>1 DEF CpuOff, Limits
    <3>3. CpuNext(P, g, N[g]).cap = limit[g].cap
      BY <3>1 DEF CpuNext, Limits
    <3> QED BY <2>1, <3>2, <3>3 DEF CapsKnown
  <2>3. CASE Uncaps(l)
    <3>1. \A g \in Cgroups : ~limit'[g].cap
      BY <2>1, <2>2, <2>3, UncappedAt
    <3> QED BY <3>1 DEF CapsKnown, CapsOnlyAtHigh
  <2>4. CASE ~Uncaps(l)
    <3>1. ASSUME NEW g \in Cgroups, limit'[g].cap PROVE memcap'[g].capped
      <4>1. limit'[g] = [cpu[g] EXCEPT !.cap = CapNext(g, M[g])] /\ memcap'[g] = M[g]
        BY <2>1, <2>4
      <4>2. limit'[g].cap = CapNext(g, M[g])
        BY <2>2, <4>1 DEF Limits
      <4>3. CASE M[g].capped = memcap[g].capped
        BY <3>1, <4>1, <4>2, <4>3 DEF CapNext, CapsKnown
      <4>4. CASE M[g].capped # memcap[g].capped
        BY <3>1, <4>1, <4>2, <4>4 DEF CapNext
      <4> QED BY <4>3, <4>4
    <3> QED BY <2>1, <2>4, <3>1 DEF Uncaps, CapsKnown, CapsOnlyAtHigh
  <2> QED BY <2>3, <2>4
<1>3. ASSUME Stop PROVE CapsKnown' /\ CapsOnlyAtHigh'
  <2> DEFINE cpu == [g \in Cgroups |-> CpuOff(g)]
  <2>1. cpu \in [Cgroups -> Limits]
    BY CpuOffType DEF TypeOK
  <2>2. ASSUME NEW g \in Cgroups, limit'[g].cap PROVE FALSE
    <3>1. Uncapped(cpu, memcap)[g] \in Limits
      BY <2>1, UncappedAt
    <3>2. limit'[g].cap = Uncapped(cpu, memcap)[g].cap
      BY <1>3, <3>1 DEF Stop, Limits
    <3>3. cpu[g].cap /\ ~memcap[g].capped
      BY <2>1, <2>2, <3>2, UncappedAt
    <3>4. CpuOff(g).cap = limit[g].cap
      BY DEF CpuOff, TypeOK, Limits
    <3> QED BY <3>3, <3>4 DEF CapsKnown
  <2> QED BY <2>2 DEF CapsKnown, CapsOnlyAtHigh
<1>4. ASSUME NEW p \in Spikes, SpikeTrack(p) \/ SpikeThrottle(p) \/ SpikeRestore(p)
                                 \/ SpikeDemote(p) \/ SpikeExit(p)
      PROVE  CapsKnown' /\ CapsOnlyAtHigh'
  <2>1. \A g \in Cgroups : limit'[g].cap = limit[g].cap
    <3>1. limit' = limit \/ \E w \in {"default", "spike"} : SetWeight(p, w)
      BY <1>4 DEF SpikeTrack, SpikeThrottle, SpikeRestore, SpikeDemote, SpikeExit
    <3>2. ASSUME NEW w, SetWeight(p, w), NEW g \in Cgroups PROVE limit'[g].cap = limit[g].cap
      <4>1. limit[g] \in Limits /\ limit \in [Cgroups -> Limits]
        BY DEF TypeOK
      <4> QED BY <3>2, <4>1 DEF SetWeight, Limits
    <3> QED BY <3>1, <3>2
  <2>2. UNCHANGED <<memcap, level, up>>
    BY <1>4 DEF SpikeTrack, SpikeThrottle, SpikeRestore, SpikeDemote, SpikeExit, books
  <2> QED BY <2>1, <2>2 DEF CapsKnown, CapsOnlyAtHigh
<1>5. ASSUME NEW p \in Procs, Focus(p) \/ Start(p) \/ Hold(p) \/ Release(p)
      PROVE  CapsKnown' /\ CapsOnlyAtHigh'
  BY <1>5 DEF Focus, Start, Hold, Release, books, CapsKnown, CapsOnlyAtHigh
<1>6. ASSUME NEW p \in Procs, Exit(p) PROVE CapsKnown' /\ CapsOnlyAtHigh'
  <2>1. \A g \in Cgroups : limit'[g].cap => limit[g].cap
    BY <1>6 DEF Exit, Unlimited
  <2>2. UNCHANGED <<memcap, level, up>>
    BY <1>6 DEF Exit, books
  <2> QED BY <2>1, <2>2 DEF CapsKnown, CapsOnlyAtHigh
<1> QED BY <1>1, <1>2, <1>3, <1>4, <1>5, <1>6 DEF Next, Cycle, SpikeMode, Environment

\* Caps stay in the books, and at High.
LEMMA CapsInvariant == Spec => [](CapsKnown /\ CapsOnlyAtHigh)
<1>1. Init => CapsKnown /\ CapsOnlyAtHigh
  BY DEF Init, CapsKnown, CapsOnlyAtHigh, Unlimited
<1>2. TypeOK /\ CapsKnown /\ CapsOnlyAtHigh /\ [Next]_vars => (CapsKnown /\ CapsOnlyAtHigh)'
  <2>1. CapsKnown /\ CapsOnlyAtHigh /\ UNCHANGED vars => (CapsKnown /\ CapsOnlyAtHigh)'
    BY DEF CapsKnown, CapsOnlyAtHigh, vars, books
  <2> QED BY <2>1, CapsStep
<1> QED BY <1>1, <1>2, TypeCorrect, PTL DEF Spec

\* Below High no memory.max is in force, whatever the focus, the processes and
\* the interval of the throttle do, for any processes and cgroups.
THEOREM CapsStayAtHigh == Spec => []CapsOnlyAtHigh
BY CapsInvariant, PTL

-----------------------------------------------------------------------------
(* Shutdown.                                                                *)

Kept == WeightsKnown /\ QuotasKnown /\ EmptyUnlimited

\* What an update makes of a cgroup's CPU limits is in its books.
LEMMA NappedKnown ==
    ASSUME TypeOK, Kept, NEW g \in Cgroups, NEW age, NEW stall,
           NEW new \in Naps, new = NapNext(alive, g, age, stall),
           NEW cpu, cpu = CpuNext(alive, g, new)
    PROVE  /\ cpu.weight # "default" => Throttled(new) \/ \E p \in spiked : CgroupOf[p] = g
           /\ cpu.quota # "max" => Throttled(new)
           /\ Members(alive, g) = {} => cpu = limit[g]
<1> USE DEF Kept, WeightsKnown, QuotasKnown
<1>1. limit[g] \in Limits /\ nap[g] \in Naps
  BY DEF TypeOK
<1>2. CASE Members(alive, g) = {}
  BY <1>2 DEF CpuNext, EmptyUnlimited, Unlimited
<1>3. CASE Members(alive, g) # {} /\ ~Throttled(new) /\ ~Throttled(nap[g])
  BY <1>1, <1>3 DEF CpuNext
<1>4. CASE Members(alive, g) # {} /\ new.state = nap[g].state
  BY <1>1, <1>4 DEF CpuNext, Throttled
<1>5. CASE /\ Members(alive, g) # {} /\ new.state # nap[g].state
           /\ Throttled(new) \/ Throttled(nap[g])
  <2>1. cpu = [limit[g] EXCEPT !.weight = IF Throttled(new) THEN "low" ELSE "default",
                               !.quota = IF new.state = "full" THEN "half" ELSE "max"]
    BY <1>5 DEF CpuNext
  <2> QED BY <1>1, <1>5, <2>1 DEF Limits, Throttled
<1> QED BY <1>2, <1>3, <1>4, <1>5

\* At Normal the books are closed, and what remains is the spike mode's.
LEMMA RestoredKnown ==
    ASSUME TypeOK, Kept, NEW g \in Cgroups
    PROVE  /\ CpuOff(g).weight # "default" => \E p \in spiked : CgroupOf[p] = g
           /\ CpuOff(g).quota = "max"
           /\ Members(alive, g) = {} => CpuOff(g) = limit[g]
<1>1. limit[g] \in Limits /\ nap[g] \in Naps
  BY DEF TypeOK
<1>2. CASE nap[g].state = "absent"
  BY <1>2 DEF CpuOff, Kept, WeightsKnown, QuotasKnown, Throttled
<1>3. CASE nap[g].state # "absent"
  <2>1. CpuOff(g) = [limit[g] EXCEPT !.weight = "default", !.quota = "max"]
    BY <1>3 DEF CpuOff
  <2>2. Members(alive, g) = {} => limit[g] = Unlimited
    BY DEF Kept, EmptyUnlimited
  <2>3. /\ CpuOff(g) \in Limits
        /\ CpuOff(g).weight = "default" /\ CpuOff(g).quota = "max" /\ CpuOff(g).cap = limit[g].cap
    BY <1>1, <2>1 DEF Limits
  <2>4. Members(alive, g) = {} => CpuOff(g) = Unlimited
    BY <2>2, <2>3, UnlimitedFields DEF Unlimited
  <2> QED BY <2>2, <2>3, <2>4
<1> QED BY <1>2, <1>3

\* A cgroup without limits and caps has none after a clean-up of the caps.
LEMMA UncappedUnlimited ==
    ASSUME NEW lim \in [Cgroups -> Limits], NEW mem, NEW g \in Cgroups, lim[g] = Unlimited
    PROVE  Uncapped(lim, mem)[g] = Unlimited
<1> DEFINE r == Uncapped(lim, mem)[g]
<1>1. lim[g].weight = "default" /\ lim[g].quota = "max" /\ ~lim[g].cap
  BY DEF Unlimited
<1>2. r \in Limits /\ r.weight = "default" /\ r.quota = "max" /\ ~r.cap
  BY <1>1, UncappedAt
<1> HIDE DEF r
<1> QED BY <1>2, UnlimitedFields DEF r

\* A stop undoes what is in the books.
LEMMA StopClears ==
    ASSUME TypeOK, CapsKnown, Kept, Stop
    PROVE  \A g \in Cgroups : limit'[g] = Unlimited
<1> DEFINE cpu == [g \in Cgroups |-> CpuOff(g)]
<1>1. cpu \in [Cgroups -> Limits]
  BY CpuOffType DEF TypeOK
<1>2. SUFFICES ASSUME NEW g \in Cgroups PROVE limit'[g] = Unlimited
  OBVIOUS
<1> DEFINE r == Uncapped(cpu, memcap)[g]
<1>3. /\ r \in Limits
      /\ r.weight = CpuOff(g).weight /\ r.quota = CpuOff(g).quota
      /\ r.cap => CpuOff(g).cap /\ ~memcap[g].capped
  BY <1>1, UncappedAt
<1>4. r.quota = "max"
  BY <1>3, RestoredKnown
<1>5. ~r.cap
  <2>1. CpuOff(g).cap = limit[g].cap
    BY DEF CpuOff, TypeOK, Limits
  <2> QED BY <1>3, <2>1 DEF CapsKnown
<1>6. CASE \E p \in spiked : CgroupOf[p] = g
  <2>1. limit'[g] = [r EXCEPT !.weight = "default"]
    BY <1>6 DEF Stop
  <2> QED BY <1>3, <1>4, <1>5, <2>1 DEF Limits, Unlimited
<1>7. CASE ~\E p \in spiked : CgroupOf[p] = g
  <2>1. limit'[g] = r
    BY <1>7 DEF Stop
  <2>2. r.weight = "default"
    BY <1>3, <1>7, RestoredKnown
  <2> QED BY <1>3, <1>4, <1>5, <2>1, <2>2 DEF Limits, Unlimited
<1> QED BY <1>6, <1>7

\* The limits stay in the books.
LEMMA KeptStep ==
    ASSUME TypeOK, CapsKnown, Kept, NoneHeld, MayHold = FALSE, SpikesAlone, Next
    PROVE  Kept' /\ NoneHeld'
<1> USE ProcsAssumption
<1> USE DEF Kept
<1>1. ASSUME NEW l \in Levels, CycleBrief(l) PROVE Kept' /\ NoneHeld'
  <2>1. UNCHANGED <<alive, frozen, victims, nap, spiked>>
    BY <1>1 DEF CycleBrief, env, spike
  <2>2. limit' = limit \/ limit' = Uncapped(limit, memcap)
    BY <1>1 DEF CycleBrief
  <2>3. \A g \in Cgroups : /\ limit'[g].weight = limit[g].weight
                           /\ limit'[g].quota = limit[g].quota
                           /\ limit[g] = Unlimited => limit'[g] = Unlimited
    BY <2>2, UncappedAt, UncappedUnlimited DEF TypeOK
  <2> QED BY <2>1, <2>3 DEF WeightsKnown, QuotasKnown, EmptyUnlimited, NoneHeld, Members
<1>2. ASSUME NEW l \in Levels, NEW stall \in BOOLEAN, CycleFull(l, stall)
      PROVE  Kept' /\ NoneHeld'
  <2>1. PICK N \in [Cgroups -> Naps], cpu \in [Cgroups -> Limits], M \in [Cgroups -> Memcaps],
             P \in SUBSET alive : FullOutcome(l, stall, P, N, cpu, M)
    BY <1>2, FullStep
  <2>2. P = alive /\ NoneHeld' /\ nap' = N /\ UNCHANGED <<alive, spiked>>
    BY <1>2, <2>1 DEF FullOutcome, CycleFull, spike
  <2>3. ASSUME NEW g \in Cgroups
        PROVE  /\ cpu[g].weight # "default" => Throttled(N[g]) \/ \E p \in spiked : CgroupOf[p] = g
               /\ cpu[g].quota # "max" => Throttled(N[g])
               /\ Members(alive, g) = {} => cpu[g] = Unlimited
    <3>1. Members(alive, g) = {} => limit[g] = Unlimited
      BY DEF EmptyUnlimited
    <3>2. CASE l = "Normal"
      <4>1. cpu[g] = CpuOff(g)
        BY <2>1, <3>2 DEF FullOutcome
      <4> QED BY <3>1, <4>1, RestoredKnown
    <3>3. CASE l # "Normal"
      <4>1. PICK age \in Untracked..Expired : N[g] = NapNext(P, g, age, stall)
        BY <2>1, <3>3 DEF FullOutcome
      <4>2. cpu[g] = CpuNext(P, g, N[g])
        BY <2>1, <3>3 DEF FullOutcome
      <4>3. N[g] \in Naps
        OBVIOUS
      <4> QED BY <2>2, <3>1, <4>1, <4>2, <4>3, NappedKnown
    <3> QED BY <3>2, <3>3
  <2>4. ASSUME NEW g \in Cgroups
        PROVE  /\ limit'[g].weight = cpu[g].weight /\ limit'[g].quota = cpu[g].quota
               /\ Members(alive, g) = {} => limit'[g] = Unlimited
    <3>1. CASE Uncaps(l)
      <4>1. limit' = Uncapped(cpu, memcap)
        BY <2>1, <3>1 DEF FullOutcome
      <4> QED BY <2>3, <4>1, UncappedAt, UncappedUnlimited
    <3>2. CASE ~Uncaps(l)
      <4>1. limit'[g] = [cpu[g] EXCEPT !.cap = CapNext(g, M[g])]
        BY <2>1, <3>2 DEF FullOutcome
      <4>2. cpu[g] \in Limits
        OBVIOUS
      <4>3. Members(alive, g) = {} => ~CapNext(g, M[g])
        <5>1. PICK age \in Untracked..Debounced : M[g] = MemNext(P, g, age)
          BY <2>1, <3>2 DEF FullOutcome
        <5>2. Members(alive, g) = {} => M[g].capped = memcap[g].capped
          BY <2>2, <5>1 DEF MemNext, TypeOK, Memcaps
        <5>3. Members(alive, g) = {} => ~limit[g].cap
          BY DEF EmptyUnlimited, Unlimited
        <5> QED BY <5>2, <5>3 DEF CapNext
      <4>4. CapNext(g, M[g]) \in BOOLEAN
        BY DEF CapNext, TypeOK, Limits, Memcaps
      <4>5. /\ limit'[g] \in Limits
            /\ limit'[g].weight = cpu[g].weight /\ limit'[g].quota = cpu[g].quota
            /\ limit'[g].cap = CapNext(g, M[g])
        BY <4>1, <4>2, <4>4 DEF Limits
      <4>6. Members(alive, g) = {} => cpu[g].weight = "default" /\ cpu[g].quota = "max"
        BY <2>3 DEF Unlimited
      <4>7. Members(alive, g) = {} => limit'[g] = Unlimited
        BY <4>3, <4>5, <4>6, UnlimitedFields
      <4> QED BY <4>5, <4>7
    <3> QED BY <3>1, <3>2
  <2> QED BY <2>2, <2>3, <2>4 DEF WeightsKnown, QuotasKnown, EmptyUnlimited
<1>3. ASSUME Stop PROVE Kept' /\ NoneHeld'
  <2>1. \A g \in Cgroups : limit'[g] = Unlimited
    BY <1>3, StopClears
  <2>2. NoneHeld'
    BY <1>3 DEF Stop, NoneHeld
  <2> QED BY <2>1, <2>2 DEF WeightsKnown, QuotasKnown, EmptyUnlimited, Unlimited
<1>4. ASSUME NEW p \in Spikes, SpikeTrack(p) \/ SpikeThrottle(p) PROVE Kept' /\ NoneHeld'
  <2>1. UNCHANGED <<alive, frozen, victims, nap>>
    BY <1>4 DEF SpikeTrack, SpikeThrottle, env, books
  <2>2. CASE SpikeTrack(p)
    BY <2>1, <2>2 DEF SpikeTrack, WeightsKnown, QuotasKnown, EmptyUnlimited, NoneHeld, Members
  <2>3. CASE SpikeThrottle(p)
    <3>1. p \in alive /\ spiked' = spiked \cup {p} /\ SetWeight(p, "spike")
      BY <2>3 DEF SpikeThrottle
    <3>2. Members(alive, CgroupOf[p]) # {}
      BY <3>1 DEF Members
    <3>3. \A g \in Cgroups : /\ limit'[g].quota = limit[g].quota
                             /\ g # CgroupOf[p] => limit'[g] = limit[g]
      BY <3>1 DEF SetWeight, TypeOK, Limits
    <3> QED BY <2>1, <3>1, <3>2, <3>3
            DEF WeightsKnown, QuotasKnown, EmptyUnlimited, NoneHeld, Members
  <2> QED BY <1>4, <2>2, <2>3
<1>5. ASSUME NEW p \in Spikes, SpikeRestore(p) \/ SpikeDemote(p) PROVE Kept' /\ NoneHeld'
  <2>1. UNCHANGED <<alive, frozen, victims, nap>>
    BY <1>5 DEF SpikeRestore, SpikeDemote, env, books
  <2>2. p \in alive /\ spiked' = spiked \ {p}
    BY <1>5 DEF SpikeRestore, SpikeDemote
  <2>3. CASE p \in spiked
    <3>1. SetWeight(p, "default")
      BY <1>5, <2>3 DEF SpikeRestore, SpikeDemote
    <3>2. Members(alive, CgroupOf[p]) # {}
      BY <2>2 DEF Members
    <3>3. \A g \in Cgroups : /\ limit'[g].quota = limit[g].quota
                             /\ g # CgroupOf[p] => limit'[g] = limit[g]
                             /\ g = CgroupOf[p] => limit'[g].weight = "default"
      BY <3>1 DEF SetWeight, TypeOK, Limits
    <3> QED BY <2>1, <2>2, <3>2, <3>3
            DEF WeightsKnown, QuotasKnown, EmptyUnlimited, NoneHeld, Members
  <2>4. CASE p \notin spiked
    <3>1. UNCHANGED limit
      BY <1>5, <2>4 DEF SpikeRestore, SpikeDemote
    <3> QED BY <2>1, <2>2, <2>4, <3>1
            DEF WeightsKnown, QuotasKnown, EmptyUnlimited, NoneHeld, Members
  <2> QED BY <2>3, <2>4
<1>6. ASSUME NEW p \in Spikes, SpikeExit(p) PROVE Kept' /\ NoneHeld'
  <2>1. UNCHANGED <<alive, frozen, victims, nap, limit>>
    BY <1>6 DEF SpikeExit, env, books
  <2>2. p \notin alive /\ spiked' = spiked \ {p}
    BY <1>6 DEF SpikeExit
  <2>3. Members(alive, CgroupOf[p]) = {}
    BY <2>2 DEF Members, SpikesAlone, TypeOK
  <2>4. limit[CgroupOf[p]] = Unlimited
    BY <2>3 DEF EmptyUnlimited
  <2> QED BY <2>1, <2>2, <2>4
          DEF WeightsKnown, QuotasKnown, EmptyUnlimited, NoneHeld, Members, Unlimited
<1>7. ASSUME NEW p \in Procs, Focus(p) \/ Start(p) \/ Hold(p) \/ Release(p)
      PROVE  Kept' /\ NoneHeld'
  <2>1. alive \subseteq alive' /\ NoneHeld' /\ UNCHANGED <<limit, nap, spiked>>
    BY <1>7 DEF Focus, Start, Hold, Release, books, spike, NoneHeld
  <2> QED BY <2>1 DEF WeightsKnown, QuotasKnown, EmptyUnlimited, Members
<1>8. ASSUME NEW p \in Procs, Exit(p) PROVE Kept' /\ NoneHeld'
  <2>1. NoneHeld' /\ UNCHANGED <<nap, spiked>>
    BY <1>8 DEF Exit, books, spike, NoneHeld
  <2>2. \A g \in Cgroups : /\ limit'[g] = limit[g] \/ limit'[g] = Unlimited
                           /\ Members(alive', g) = {} => limit'[g] = Unlimited
    BY <1>8 DEF Exit
  <2>3. EmptyUnlimited'
    BY <2>2 DEF EmptyUnlimited
  <2> QED BY <2>1, <2>2, <2>3 DEF WeightsKnown, QuotasKnown, Unlimited
<1> QED BY <1>1, <1>2, <1>3, <1>4, <1>5, <1>6, <1>7, <1>8 DEF Next, Cycle, SpikeMode, Environment

\* Nothing is limited at the start, and a stop clears what a step before it kept.
LEMMA KeptInvariant ==
    ASSUME MayHold = FALSE, SpikesAlone
    PROVE  Spec => [](TypeOK /\ CapsKnown /\ Kept /\ NoneHeld)
<1>1. Init => CapsKnown /\ Kept /\ NoneHeld
  BY DEF Init, CapsKnown, Kept, NoneHeld, WeightsKnown, QuotasKnown, EmptyUnlimited, Unlimited
<1>2. TypeOK /\ CapsKnown /\ Kept /\ NoneHeld /\ [Next]_vars => (Kept /\ NoneHeld)'
  <2>1. Kept /\ NoneHeld /\ UNCHANGED vars => (Kept /\ NoneHeld)'
    BY DEF Kept, NoneHeld, WeightsKnown, QuotasKnown, EmptyUnlimited, Members,
           vars, env, books, spike
  <2> QED BY <2>1, KeptStep
<1> QED BY <1>1, <1>2, CapsInvariant, TypeCorrect, PTL DEF Spec

\* As long as nobody is frozen or stopped as a spike victim and a spike shares
\* its cgroup with nobody, a stopped daemon leaves no limit behind, for any
\* processes and cgroups and whatever starts and ends in between.
THEOREM StopUndoesAll ==
    ASSUME MayHold = FALSE, SpikesAlone
    PROVE  Spec => []ShutdownRestores
<1>1. Init => ShutdownRestores
  BY DEF Init, ShutdownRestores
<1>2. TypeOK /\ CapsKnown /\ Kept /\ ShutdownRestores /\ [Next]_vars => ShutdownRestores'
  <2> SUFFICES ASSUME TypeOK, CapsKnown, Kept, ShutdownRestores, [Next]_vars
               PROVE  ShutdownRestores'
    OBVIOUS
  <2>1. CASE Stop
    BY <2>1, StopClears DEF ShutdownRestores
  <2>2. ASSUME NEW p \in Procs, Exit(p) PROVE ShutdownRestores'
    <3>1. /\ up' = up
          /\ \A g \in Cgroups : limit'[g] = limit[g] \/ limit'[g] = Unlimited
      BY <2>2 DEF Exit
    <3> QED BY <3>1 DEF ShutdownRestores
  <2>3. ASSUME NEW p \in Procs, Focus(p) \/ Start(p) \/ Hold(p) \/ Release(p)
        PROVE  ShutdownRestores'
    BY <2>3 DEF Focus, Start, Hold, Release, ShutdownRestores
  <2>4. CASE Cycle \/ SpikeMode
    <3>1. up /\ up' = up
      BY <2>4 DEF Cycle, CycleBrief, CycleFull, SpikeMode, SpikeTrack, SpikeThrottle,
                  SpikeRestore, SpikeDemote, SpikeExit
    <3> QED BY <3>1 DEF ShutdownRestores
  <2>5. CASE UNCHANGED vars
    BY <2>5 DEF vars, ShutdownRestores
  <2> QED BY <2>1, <2>2, <2>3, <2>4, <2>5 DEF Next, Environment
<1>3. Spec => [](TypeOK /\ CapsKnown /\ Kept /\ NoneHeld)
  BY KeptInvariant
<1> QED BY <1>1, <1>2, <1>3, PTL DEF Spec

-----------------------------------------------------------------------------
(* The foreground.                                                          *)

\* After an update, the cgroup of the process that has the focus is unlimited.
LEMMA ServedUnlimited ==
    ASSUME TypeOK, CapsKnown, Kept, NoneHeld, Spikes = {},
           NEW l \in Levels, NEW stall \in BOOLEAN, CycleFull(l, stall), active \in alive
    PROVE  limit'[CgroupOf[active]] = Unlimited
<1> DEFINE g == CgroupOf[active]
<1>1. g \in Cgroups /\ active \in Members(alive, g)
  BY ProcsAssumption DEF TypeOK, Members
<1> HIDE DEF g
<1>2. Exempt(alive, g) /\ Members(alive, g) # {}
  BY <1>1 DEF Exempt
<1>3. PICK N \in [Cgroups -> Naps], cpu \in [Cgroups -> Limits], M \in [Cgroups -> Memcaps],
           P \in SUBSET alive : FullOutcome(l, stall, P, N, cpu, M)
  BY FullStep
<1>4. P = alive
  BY <1>3 DEF FullOutcome
<1>5. spiked = {}
  BY DEF TypeOK
<1>6. limit[g] \in Limits /\ nap[g] \in Naps /\ cpu[g] \in Limits /\ memcap[g] \in Memcaps
  BY <1>1 DEF TypeOK
<1>7. cpu[g].weight = "default" /\ cpu[g].quota = "max" /\ cpu[g].cap = limit[g].cap
  <2>1. CASE l = "Normal"
    <3>1. cpu[g] = CpuOff(g)
      BY <1>1, <1>3, <2>1 DEF FullOutcome
    <3>2. CpuOff(g).cap = limit[g].cap
      BY <1>6 DEF CpuOff, Limits
    <3> QED BY <1>1, <1>5, <3>1, <3>2, RestoredKnown
  <2>2. CASE l # "Normal"
    <3>1. cpu[g] = CpuNext(P, g, N[g]) /\ \E age \in Untracked..Expired : N[g] = NapNext(P, g, age, stall)
      BY <1>1, <1>3, <2>2 DEF FullOutcome
    <3>2. PICK age \in Untracked..Expired : N[g] = NapNext(P, g, age, stall)
      BY <3>1
    <3>3. ~Throttled(N[g])
      BY <1>2, <1>4, <3>2 DEF NapNext, NapExempt, Throttled
    <3>4. N[g] \in Naps
      BY <1>1
    <3>5. cpu[g].weight = "default" /\ cpu[g].quota = "max"
      BY <1>1, <1>4, <1>5, <1>6, <3>1, <3>2, <3>3, <3>4, NappedKnown DEF Limits
    <3>6. cpu[g].cap = limit[g].cap
      BY <1>6, <3>1 DEF CpuNext, Limits
    <3> QED BY <3>5, <3>6
  <2> QED BY <2>1, <2>2
<1>8. CASE Uncaps(l)
  <2>1. limit' = Uncapped(cpu, memcap)
    BY <1>3, <1>8 DEF FullOutcome
  <2>2. limit'[g] \in Limits /\ limit'[g].weight = "default" /\ limit'[g].quota = "max"
    BY <1>1, <1>7, <2>1, UncappedAt
  <2>3. ~limit'[g].cap
    BY <1>1, <1>7, <2>1, UncappedAt DEF CapsKnown
  <2> QED BY <2>2, <2>3, UnlimitedFields DEF g
<1>9. CASE ~Uncaps(l)
  <2>1. limit'[g] = [cpu[g] EXCEPT !.cap = CapNext(g, M[g])]
    BY <1>1, <1>3, <1>9 DEF FullOutcome
  <2>2. ~M[g].capped
    <3>1. PICK age \in Untracked..Debounced : M[g] = MemNext(P, g, age)
      BY <1>1, <1>3, <1>9 DEF FullOutcome
    <3> QED BY <1>2, <1>4, <3>1 DEF MemNext, NotCapped
  <2>3. CapNext(g, M[g]) = FALSE
    <3>1. M[g].capped = FALSE /\ limit[g].cap \in BOOLEAN
      BY <1>1, <1>6, <2>2 DEF Memcaps, Limits
    <3> QED BY <1>1, <1>6, <3>1 DEF CapNext, CapsKnown, Memcaps
  <2>4. /\ limit'[g] \in Limits /\ ~limit'[g].cap
        /\ limit'[g].weight = "default" /\ limit'[g].quota = "max"
    BY <1>6, <1>7, <2>1, <2>3 DEF Limits
  <2> QED BY <2>4, UnlimitedFields DEF g
<1> QED BY <1>8, <1>9

\* No step limits the cgroup of the process that was served.
LEMMA ForegroundStep ==
    ASSUME TypeOK, CapsKnown, Kept, NoneHeld, FocusStarted, ForegroundUnlimited,
           MayHold = FALSE, Spikes = {}, Next
    PROVE  FocusStarted' /\ ForegroundUnlimited'
<1> USE ProcsAssumption
<1>1. ASSUME NEW l \in Levels, CycleBrief(l) PROVE FocusStarted' /\ ForegroundUnlimited'
  <2>1. UNCHANGED <<alive, fresh, active, served, up>>
    BY <1>1 DEF CycleBrief, env
  <2>2. limit' = limit \/ limit' = Uncapped(limit, memcap)
    BY <1>1 DEF CycleBrief
  <2>3. \A g \in Cgroups : limit[g] = Unlimited => limit'[g] = Unlimited
    BY <2>2, UncappedUnlimited DEF TypeOK
  <2>4. served \in alive => CgroupOf[served] \in Cgroups
    BY DEF TypeOK
  <2> QED BY <2>1, <2>3, <2>4 DEF FocusStarted, ForegroundUnlimited
<1>2. ASSUME NEW l \in Levels, NEW stall \in BOOLEAN, CycleFull(l, stall)
      PROVE  FocusStarted' /\ ForegroundUnlimited'
  <2>1. UNCHANGED <<alive, fresh, active, up>> /\ served' = active
    BY <1>2 DEF CycleFull
  <2> QED BY <1>2, <2>1, ServedUnlimited DEF FocusStarted, ForegroundUnlimited
<1>3. CASE Stop
  BY <1>3 DEF Stop, FocusStarted, ForegroundUnlimited
<1>4. ~SpikeMode
  BY DEF SpikeMode
<1>5. ASSUME NEW p \in Procs, Focus(p) \/ Start(p) \/ Hold(p) \/ Release(p)
      PROVE  FocusStarted' /\ ForegroundUnlimited'
  <2>1. FocusStarted'
    BY <1>5 DEF Focus, Start, Hold, Release, FocusStarted, TypeOK
  <2>2. UNCHANGED <<limit, served, up>> /\ (served \in alive' => served \in alive)
    BY <1>5 DEF Focus, Start, Hold, Release, FocusStarted
  <2> QED BY <2>1, <2>2 DEF ForegroundUnlimited
<1>6. ASSUME NEW p \in Procs, Exit(p) PROVE FocusStarted' /\ ForegroundUnlimited'
  <2>1. UNCHANGED <<fresh, active, served, up>> /\ alive' \subseteq alive
    BY <1>6 DEF Exit
  <2>2. \A g \in Cgroups : limit'[g] = limit[g] \/ limit'[g] = Unlimited
    BY <1>6 DEF Exit
  <2>3. served \in alive => CgroupOf[served] \in Cgroups
    BY DEF TypeOK
  <2> QED BY <2>1, <2>2, <2>3 DEF FocusStarted, ForegroundUnlimited
<1> QED BY <1>1, <1>2, <1>3, <1>4, <1>5, <1>6 DEF Next, Cycle, Environment

\* As long as nobody is held and no process spikes, the cgroup of the process
\* that a cycle last saw in the foreground has no limit, whatever its
\* priority, the levels, and the processes that join and leave the cgroup.
THEOREM ForegroundStaysUnlimited ==
    ASSUME MayHold = FALSE, Spikes = {}
    PROVE  Spec => []ForegroundUnlimited
<1>1. Init => FocusStarted /\ ForegroundUnlimited
  BY ProcsAssumption DEF Init, FocusStarted, ForegroundUnlimited, TypeOK
<1>2. TypeOK /\ CapsKnown /\ Kept /\ NoneHeld /\ FocusStarted /\ ForegroundUnlimited
        /\ [Next]_vars => (FocusStarted /\ ForegroundUnlimited)'
  <2>1. FocusStarted /\ ForegroundUnlimited /\ UNCHANGED vars
          => (FocusStarted /\ ForegroundUnlimited)'
    BY DEF FocusStarted, ForegroundUnlimited, vars, env
  <2> QED BY <2>1, ForegroundStep
<1>3. Spec => [](TypeOK /\ CapsKnown /\ Kept /\ NoneHeld)
  BY KeptInvariant DEF SpikesAlone
<1> QED BY <1>1, <1>2, <1>3, PTL DEF Spec
=============================================================================
