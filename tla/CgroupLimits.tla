---------------------------- MODULE CgroupLimits ----------------------------
(***************************************************************************)
(* The limits the evictor writes into cgroups: cpu.weight and cpu.max of   *)
(* background cgroups (ThrottleManager), memory.max of expendable ones     *)
(* (MemCapManager), and cpu.weight of a spiking process (spike mode).  All *)
(* three keep their own books, in memory only, of what is to be undone.    *)
(*                                                                         *)
(* Grain: one cycle of the evictor up to the spike mode is one step, what  *)
(* the spike mode does for one process another; in between the focus       *)
(* moves, processes start, end, and are frozen or released.                *)
(***************************************************************************)
EXTENDS Naturals

CONSTANTS
    Procs,
    NoProc,
    Cgroups,
    CgroupOf,   \* the cgroup of a process
    Tier,       \* its priority: important < 60 <= background < 80 <= expendable
    Excluded,   \* processes that throttle_exclude names
    Spikes,     \* processes that the spike mode may come to track
    MayHold,    \* processes are frozen, or stopped as spike victims
    HasTrigger  \* at level Normal the evictor waits for a PSI event

Tiers == {"important", "background", "expendable"}

ASSUME ProcsAssumption ==
    /\ NoProc \notin Procs
    /\ CgroupOf \in [Procs -> Cgroups] /\ Tier \in [Procs -> Tiers]
    /\ Spikes \subseteq Procs /\ Excluded \subseteq Procs
ASSUME SwitchesAssumption == MayHold \in BOOLEAN /\ HasTrigger \in BOOLEAN

VARIABLES
    alive, fresh,    \* processes that run, and that have not started yet
    frozen, victims, \* those in FrozenRegistry, and those of the spike mode
    active,          \* ACTIVE_FOREGROUND_PID
    limit,           \* cpu.weight, cpu.max and memory.max of every cgroup
    nap,             \* ThrottleManager: state, and how long in the background
    memcap,          \* MemCapManager: capped or not, and how long likewise
    tracking,        \* SpikeTracker: processes in phase Tracking,
    spiked,          \*     and those with cpu_throttled
    level,           \* effective level of the last cycle
    served,          \* last_active_pid
    up

env   == <<alive, fresh, frozen, victims, active>>
books == <<nap, memcap>>
spike == <<tracking, spiked>>
vars  == <<env, limit, books, spike, level, served, up>>

Levels == {"Normal", "Elevated", "High"} \* High stands for High and above

\* Time in the background: not tracked, below the 10 s debounce, past it, and
\* past throttle_max_duration_sec.
Untracked == 0
Debounced == 2
Expired   == 3

Unlimited == [weight |-> "default", quota |-> "max", cap |-> FALSE]
NotNapped == [state |-> "absent", age |-> Untracked]
NotCapped == [capped |-> FALSE, age |-> Untracked]

Limits  == [weight : {"default", "low", "spike"}, quota : {"max", "half"}, cap : BOOLEAN]
Naps    == [state : {"absent", "none", "weight", "full"}, age : Untracked..Expired]
Memcaps == [capped : BOOLEAN, age : Untracked..Debounced]

TypeOK ==
    /\ alive \subseteq Procs /\ fresh \subseteq Procs /\ alive \cap fresh = {}
    /\ frozen \subseteq alive /\ victims \subseteq alive
    /\ active \in Procs \cup {NoProc} /\ served \in Procs \cup {NoProc}
    /\ limit \in [Cgroups -> Limits]
    /\ nap \in [Cgroups -> Naps] /\ memcap \in [Cgroups -> Memcaps]
    /\ spiked \subseteq tracking /\ tracking \subseteq Spikes
    /\ level \in Levels /\ up \in BOOLEAN

Init ==
    /\ alive \in SUBSET Procs /\ fresh = Procs \ alive
    /\ frozen = {} /\ victims = {} /\ active = NoProc
    /\ limit = [g \in Cgroups |-> Unlimited]
    /\ nap = [g \in Cgroups |-> NotNapped]
    /\ memcap = [g \in Cgroups |-> NotCapped]
    /\ tracking = {} /\ spiked = {}
    /\ level = "Normal" /\ served = NoProc /\ up = TRUE

-----------------------------------------------------------------------------
(* ThrottleManager and MemCapManager, over the processes P of plan_procs.  *)

Members(P, g) == {p \in P : CgroupOf[p] = g}

\* Mutated form of Exempt: the foreground is not looked at.
ExemptByTier(P, g) == \E p \in Members(P, g) : Tier[p] = "important"

\* The foreground cgroup, and one that holds a process of priority < 60.
Exempt(P, g) == \E p \in Members(P, g) : p = active \/ Tier[p] = "important"

\* The throttle also keeps off a cgroup with a process that throttle_exclude names.
NapExempt(P, g) == Exempt(P, g) \/ Members(P, g) \cap Excluded # {}

Older(age, last) == IF age = Untracked THEN {1} ELSE age..last

Throttled(n) == n.state \in {"weight", "full"}

\* What a cgroup that is not exempt is to become.  Without a stall, it is let
\* go in the end.
Target(P, g, age, stall) ==
    IF age < Debounced \/ (age = Expired /\ ~stall) THEN "none"
    ELSE IF \A p \in Members(P, g) : Tier[p] = "expendable" THEN "full" ELSE "weight"

\* The entry of g after an update; a cgroup without processes is dropped.
NapNext(P, g, age, stall) ==
    IF Members(P, g) = {} THEN NotNapped
    ELSE IF NapExempt(P, g)
    THEN [state |-> IF Throttled(nap[g]) THEN "none" ELSE nap[g].state, age |-> Untracked]
    ELSE [state |-> IF Target(P, g, age, stall) = "none" /\ ~Throttled(nap[g])
                    THEN nap[g].state ELSE Target(P, g, age, stall),
          age   |-> age]

\* Its files are written only when the state changes.
CpuNext(P, g, new) ==
    IF Members(P, g) = {} \/ (~Throttled(new) /\ ~Throttled(nap[g])) \/ new.state = nap[g].state
    THEN limit[g]
    ELSE [limit[g] EXCEPT !.weight = IF Throttled(new) THEN "low" ELSE "default",
                          !.quota = IF new.state = "full" THEN "half" ELSE "max"]

\* Mutated form of CpuOff: only cgroups with a quota are restored.
CpuOffFull(g) ==
    IF nap[g].state # "full" THEN limit[g]
    ELSE [limit[g] EXCEPT !.weight = "default", !.quota = "max"]

\* Below Elevated every cgroup in the books is restored.
CpuOff(g) ==
    IF nap[g].state = "absent" THEN limit[g]
    ELSE [limit[g] EXCEPT !.weight = "default", !.quota = "max"]

MemNext(P, g, age) ==
    IF Members(P, g) = {} THEN [memcap[g] EXCEPT !.age = Untracked]
    ELSE IF Exempt(P, g) THEN NotCapped
    ELSE IF memcap[g].capped THEN memcap[g]
    ELSE [capped |-> age = Debounced, age |-> age]

\* memory.max of g follows the books where they change.
CapNext(g, new) == IF new.capped = memcap[g].capped THEN limit[g].cap ELSE new.capped

-----------------------------------------------------------------------------
(* The evictor.                                                            *)

\* Mutated form of Uncaps: caps stay at Elevated.
UncapsAtNormal(l) == l = "Normal"

Uncaps(l) == l # "High"

\* restore_all of MemCapManager, at the end of every cycle below High.
Uncapped(lim, mem) == [g \in Cgroups |-> IF mem[g].capped THEN [lim[g] EXCEPT !.cap = FALSE] ELSE lim[g]]

\* A cycle that leaves the throttle alone: its interval has not elapsed.
CycleBrief(l) ==
    /\ up /\ active = served
    /\ level' = l
    /\ IF Uncaps(l)
       THEN limit' = Uncapped(limit, memcap) /\ memcap' = [g \in Cgroups |-> NotCapped]
       ELSE UNCHANGED <<limit, memcap>>
    /\ UNCHANGED <<env, nap, spike, served, up>>

\* The interval has elapsed or the focus has moved.  A frozen process that
\* got the focus is released first.
CycleFull(l, stall) ==
    LET unfrozen == IF active # served THEN frozen \ {active} ELSE frozen
        P == alive \ (unfrozen \cup victims)
        M(g, age) == IF l = "High" THEN MemNext(P, g, age) ELSE memcap[g]
    IN  /\ up
        /\ frozen' = unfrozen
        /\ level' = l
        /\ served' = active
        /\ \E age, mage \in [Cgroups -> Untracked..Expired] :
             /\ \A g \in Cgroups : age[g] \in Older(nap[g].age, Expired)
             /\ \A g \in Cgroups : mage[g] \in Older(memcap[g].age, Debounced)
             /\ LET N == [g \in Cgroups |->
                            IF l = "Normal" THEN NotNapped ELSE NapNext(P, g, age[g], stall)]
                    cpu == [g \in Cgroups |->
                            IF l = "Normal" THEN CpuOff(g) ELSE CpuNext(P, g, N[g])]
                IN  /\ nap' = N
                    /\ memcap' = [g \in Cgroups |-> IF Uncaps(l) THEN NotCapped ELSE M(g, mage[g])]
                    /\ limit' = IF Uncaps(l) THEN Uncapped(cpu, memcap)
                                ELSE [g \in Cgroups |->
                                       [cpu[g] EXCEPT !.cap = CapNext(g, M(g, mage[g]))]]
        /\ UNCHANGED <<alive, fresh, victims, active, spike, up>>

\* SIGTERM: everything in the books is restored.
StopKeepsSpikes ==
    /\ up /\ up' = FALSE
    /\ limit' = Uncapped([g \in Cgroups |-> CpuOff(g)], memcap)
    /\ victims' = {}
    /\ UNCHANGED <<alive, fresh, frozen, active, books, spike, level, served>>

Stop ==
    /\ up /\ up' = FALSE
    /\ LET cpu == [g \in Cgroups |-> CpuOff(g)]
       IN  limit' = [g \in Cgroups |->
                       IF \E p \in spiked : CgroupOf[p] = g
                       THEN [Uncapped(cpu, memcap)[g] EXCEPT !.weight = "default"]
                       ELSE Uncapped(cpu, memcap)[g]]
    /\ victims' = {}
    /\ UNCHANGED <<alive, fresh, frozen, active, books, spike, level, served>>

-----------------------------------------------------------------------------
(* The spike mode, for one process of its loop; it passes over the         *)
(* foreground.                                                             *)

SetWeight(p, w) == limit' = [limit EXCEPT ![CgroupOf[p]].weight = w]

SpikeTrack(p) ==
    /\ up /\ p \in (Spikes \cap alive) \ tracking
    /\ tracking' = tracking \cup {p}
    /\ UNCHANGED <<env, limit, books, spiked, level, served, up>>

SpikeThrottle(p) ==
    /\ up /\ p \in (tracking \cap alive) \ spiked /\ p # active
    /\ spiked' = spiked \cup {p}
    /\ SetWeight(p, "spike")
    /\ UNCHANGED <<env, books, tracking, level, served, up>>

SpikeRestore(p) ==
    /\ up /\ p \in spiked \cap alive /\ p # active
    /\ spiked' = spiked \ {p}
    /\ SetWeight(p, "default")
    /\ UNCHANGED <<env, books, tracking, level, served, up>>

\* It was idle for long.
SpikeDemote(p) ==
    /\ up /\ p \in tracking \cap alive
    /\ tracking' = tracking \ {p}
    /\ spiked' = spiked \ {p}
    /\ IF p \in spiked THEN SetWeight(p, "default") ELSE UNCHANGED limit
    /\ UNCHANGED <<env, books, level, served, up>>

\* on_spike_exit: it is forgotten.
SpikeExit(p) ==
    /\ up /\ p \in tracking \ alive
    /\ tracking' = tracking \ {p}
    /\ spiked' = spiked \ {p}
    /\ UNCHANGED <<env, limit, books, level, served, up>>

-----------------------------------------------------------------------------
(* The environment.                                                        *)

Focus(p) ==
    /\ p \in alive /\ active' = p
    /\ UNCHANGED <<alive, fresh, frozen, victims, limit, books, spike, level, served, up>>

\* A new process, in a cgroup that may have others; and the end of one, with
\* its cgroup when that is empty.
Start(p) ==
    /\ p \in fresh
    /\ alive' = alive \cup {p} /\ fresh' = fresh \ {p}
    /\ UNCHANGED <<frozen, victims, active, limit, books, spike, level, served, up>>

Exit(p) ==
    /\ p \in alive
    /\ alive' = alive \ {p} /\ frozen' = frozen \ {p} /\ victims' = victims \ {p}
    /\ limit' = [g \in Cgroups |-> IF Members(alive', g) = {} THEN Unlimited ELSE limit[g]]
    /\ UNCHANGED <<fresh, active, books, spike, level, served, up>>

\* The daemon or `mgctl` freezes p, or spike mode makes it a victim.
Hold(p) ==
    /\ MayHold /\ up /\ p \in alive \ (frozen \cup victims)
    /\ \/ frozen' = frozen \cup {p} /\ UNCHANGED victims
       \/ victims' = victims \cup {p} /\ UNCHANGED frozen
    /\ UNCHANGED <<alive, fresh, active, limit, books, spike, level, served, up>>

Release(p) ==
    /\ p \in frozen \cup victims
    /\ frozen' = frozen \ {p} /\ victims' = victims \ {p}
    /\ UNCHANGED <<alive, fresh, active, limit, books, spike, level, served, up>>

Cycle == \E l \in Levels : CycleBrief(l) \/ \E stall \in BOOLEAN : CycleFull(l, stall)

SpikeMode ==
    \E p \in Spikes :
        SpikeTrack(p) \/ SpikeThrottle(p) \/ SpikeRestore(p) \/ SpikeDemote(p) \/ SpikeExit(p)

Environment == \E p \in Procs : Focus(p) \/ Start(p) \/ Exit(p) \/ Hold(p) \/ Release(p)

Next == Cycle \/ SpikeMode \/ Environment \/ Stop

Spec == Init /\ [][Next]_vars

\* Above Normal, or without a trigger, a cycle follows every 5 s, and the
\* interval elapses again and again.
Polling ==
    /\ level # "Normal" \/ ~HasTrigger
    /\ \E l \in Levels, stall \in BOOLEAN : CycleFull(l, stall)

FairSpec == Spec /\ WF_vars(Polling)
-----------------------------------------------------------------------------
(* Properties.                                                             *)

\* A stopped daemon leaves no limit behind: all that is in force is in the
\* books of the manager that wrote it.
ShutdownRestores == ~up => \A g \in Cgroups : limit[g] = Unlimited

\* Below High no memory.max is in force, whatever focus, processes and the
\* interval of the throttle do.
CapsOnlyAtHigh == up /\ level # "High" => \A g \in Cgroups : ~limit[g].cap

\* Once a cycle has seen which process has the focus, no limit is in force on
\* its cgroup, unless that is the cgroup of a spike, whose weight the spike
\* mode writes on its own.
ForegroundUnlimited ==
    up /\ served \in alive /\ (\A p \in Spikes : CgroupOf[p] # CgroupOf[served])
        => limit[CgroupOf[served]] = Unlimited

\* When the level stays Normal, what the throttle and the caps did is undone.
RestoredWhenCalm ==
    <>[](up /\ level = "Normal") =>
        <>[](\A g \in Cgroups : limit[g].weight # "low" /\ limit[g].quota = "max" /\ ~limit[g].cap)
=============================================================================
