------------------------------ MODULE IdleWatch ------------------------------
(***************************************************************************)
(* What the evictor does to processes that lie in the background while     *)
(* memory is not short: it pushes a part of their memory out               *)
(* (memory.reclaim), and stops them if it is set to.  Both have clocks of  *)
(* their own, kept by pid.                                                 *)
(*                                                                         *)
(* Pids are numbers, since /proc lists them in their order, and several    *)
(* processes may have one pid in turn.  Time is counted in units of any    *)
(* size, and clocks are ages.                                              *)
(***************************************************************************)
EXTENDS Integers, FiniteSetsExt

CONSTANTS
    Procs, First,        \* processes, and those that run at the start
    Pids, PidOf,         \* pids, and the pid of a process
    NoPid, Windows,      \* no active window; pids that may own one
    Low, Important,      \* processes of priority 50 and more; of the tier below it
    Large,               \* processes with rss_min_mb
    Reliable,            \* processes with a leaf cgroup: writes to the others are skipped
    Gaps,                \* time from one cycle to the next
    SwapReadings,        \* what a cycle may find: see Swaps
    Freezings,           \* is freeze_after_sec set? as it may be reloaded
    IdleSec, ImportantSec, FreezeAfter, GlobalCooldown,
    MaxReclaims, MaxFreezes,   \* per check
    MaxAge,              \* bound on the ages that are told apart
    QuickReuse           \* a pid may be taken again before a check has missed it

Swaps == {"fine", "full", "tight"}   \* above max_swap_occupancy_pct; below 1.5 GB free

ProcsAssumption ==
    /\ IsFiniteSet(Procs) /\ First \subseteq Procs
    /\ Pids \subseteq Nat /\ PidOf \in [Procs -> Pids] /\ NoPid \notin Pids /\ Windows \subseteq Pids
    /\ \A p, q \in First : PidOf[p] = PidOf[q] => p = q
KindsAssumption ==
    /\ Low \subseteq Procs /\ Important \subseteq Procs /\ Low \cap Important = {}
    /\ Large \subseteq Procs /\ Reliable \subseteq Procs
    /\ SwapReadings \subseteq Swaps /\ Freezings \subseteq BOOLEAN /\ QuickReuse \in BOOLEAN
LimitsAssumption ==
    /\ Gaps \subseteq Nat \ {0} /\ MaxReclaims \in Nat /\ MaxFreezes \in Nat \ {0}
    /\ MaxAge \in Nat /\ GlobalCooldown \in 0..MaxAge
    /\ IdleSec \in 1..MaxAge /\ ImportantSec \in 1..MaxAge /\ FreezeAfter \in 1..MaxAge

VARIABLES
    live,         \* processes that run or are stopped
    held,         \* those in the frozen registry, or stopped for a spike
    victims,      \* the latter
    focus,        \* ACTIVE_FOREGROUND_PID
    freezing,     \* freeze_after_sec is set
    lastFocus,    \* last_active_pid of the evictor
    calm,         \* last_level is Normal
    swap,         \* what the last cycle found
    checkAge,     \* last_idle_reclaim_check
    reclaimAge,   \* idle_reclaim_pid_tracker
    freezeAge,    \* idle_freeze_pid_tracker
    seen          \* history: see Unseen

evictor == <<lastFocus, calm, swap, checkAge, reclaimAge, freezeAge>>
vars    == <<live, held, victims, focus, freezing, seen, evictor>>

Listed(S) == {PidOf[p] : p \in S}

Ages    == 0..MaxAge
NoClock == -1
Clocks  == Ages \cup {NoClock}
Older(a, gap) == IF a = NoClock THEN a ELSE IF a + gap < MaxAge THEN a + gap ELSE MaxAge
Elapsed(a)    == IF a = NoClock THEN 0 ELSE a
Started(a)    == IF a = NoClock THEN 0 ELSE a      \* or_insert_with(now)

-----------------------------------------------------------------------------
(* check_idle_process_reclaim over plan, the processes that nobody holds.  *)

IdleFor(p) == IF p \in Low THEN IdleSec ELSE ImportantSec

Background(plan) == {p \in plan : PidOf[p] # focus}
Sizable(plan)    == Background(plan) \cap Large

\* Clocks of processes that are gone, or held, are forgotten.
Pruned(clock, plan) == [i \in Pids |-> IF i \in Listed(plan) THEN clock[i] ELSE NoClock]

\* Of S the n that come first in the list of processes.
FirstOf(S, n) == {p \in S : Cardinality({q \in S : PidOf[q] < PidOf[p]}) < n}

\* select_idle_candidates
Candidates(plan, clock, s) ==
    IF s = "full" THEN {}
    ELSE {p \in Sizable(plan) \cap (Low \cup Important) :
              Elapsed(clock[PidOf[p]]) >= IdleFor(p)}

\* Mutated form of ReclaimClocks: a write does not start the clock again.
ReclaimClocksKeep(plan, clock, tried) ==
    [i \in Pids |-> IF i \in Listed(Background(plan)) THEN Started(clock[i]) ELSE clock[i]]

\* The clocks after the writes; tried are those reclaimed, or blocked (EAGAIN).
ReclaimClocks(plan, clock, tried) ==
    [i \in Pids |->
        IF i \in Listed(tried) THEN 0
        ELSE IF i \in Listed(Background(plan)) THEN Started(clock[i])
        ELSE clock[i]]

DueToFreeze(plan, clock) ==
    IF freezing THEN {p \in Sizable(plan) : Elapsed(clock[PidOf[p]]) >= FreezeAfter} ELSE {}

\* Mutated form of FreezeClocks: the clock goes on after the freeze.
FreezeClocksRun(plan, clock, frozen) ==
    [i \in Pids |->
        IF freezing /\ i \in Listed(Sizable(plan)) THEN Started(clock[i]) ELSE clock[i]]

\* The loop ends when MaxFreezes processes are frozen: what follows has no clock started.
FreezeClocks(plan, clock, frozen) ==
    [i \in Pids |->
        IF i \in Listed(frozen) THEN NoClock
        ELSE IF /\ freezing /\ i \in Listed(Sizable(plan))
                /\ Cardinality(frozen) = MaxFreezes => \E p \in frozen : i < PidOf[p]
             THEN Started(clock[i])
        ELSE clock[i]]

-----------------------------------------------------------------------------
(* History of a process.  The watch over it begins when a check finds it in *)
(* the background, goes on while it has the focus, and ends when a check   *)
(* finds it held or stops it; a push of its memory begins it anew.         *)

Unseen ==
    [watched |-> NoClock,    \* time since the watch began
     waited  |-> MaxAge,     \* the same when it was last stopped for being idle
     pushed  |-> NoClock,    \* time since the watch began or its memory was pushed out
     spaced  |-> MaxAge]     \* the same when its memory was last pushed out

Watch(p, plan, a) ==
    IF p \notin plan THEN NoClock ELSE IF p \in Background(plan) THEN Started(a) ELSE a

Aged(gap) ==
    [p \in Procs |-> [seen[p] EXCEPT !.watched = Older(@, gap), !.pushed = Older(@, gap)]]

-----------------------------------------------------------------------------
Init ==
    /\ live = First /\ held = {} /\ victims = {} /\ freezing \in Freezings
    /\ focus = NoPid /\ lastFocus = NoPid
    /\ calm = TRUE /\ swap \in SwapReadings /\ checkAge = 0
    /\ reclaimAge = [i \in Pids |-> NoClock] /\ freezeAge = [i \in Pids |-> NoClock]
    /\ seen = [p \in Procs |-> Unseen]

\* No check in this cycle; thawed are those it has let go.
Unchecked(gap, thawed) ==
    /\ reclaimAge' = [i \in Pids |-> Older(reclaimAge[i], gap)]
    /\ freezeAge'  = [i \in Pids |-> Older(freezeAge[i], gap)]
    /\ seen' = Aged(gap)
    /\ held' = held \ thawed

Checked(gap, s, thawed) ==
    LET plan   == live \ (held \ thawed)
        push   == Pruned([i \in Pids |-> Older(reclaimAge[i], gap)], plan)
        stop   == Pruned([i \in Pids |-> Older(freezeAge[i], gap)], plan)
        writes == FirstOf(Candidates(plan, push, s), MaxReclaims)
        tried  == writes \cap Reliable
        frozen == FirstOf(DueToFreeze(plan, stop), MaxFreezes)
        h      == Aged(gap)
    IN  /\ reclaimAge' = ReclaimClocks(plan, push, tried)
        /\ freezeAge' = FreezeClocks(plan, stop, frozen)
        /\ held' = (held \ thawed) \cup frozen
        /\ seen' = [p \in Procs |->
               [h[p] EXCEPT
                   !.waited = IF p \in frozen THEN h[p].watched ELSE @,
                   !.watched = IF p \in frozen THEN NoClock ELSE Watch(p, plan, @),
                   !.spaced = IF p \in tried THEN h[p].pushed ELSE @,
                   !.pushed = IF p \in tried THEN 0 ELSE Watch(p, plan, @)]]

\* With too little free swap nothing is done at all.
Check(gap, s, thawed) ==
    IF s = "tight" THEN Unchecked(gap, thawed) ELSE Checked(gap, s, thawed)

\* idle_timeout_reclaim: no pressure event in the time that a wait takes.
CalmTick ==
    /\ calm
    /\ \E gap \in Gaps, s \in SwapReadings :
        /\ swap' = s
        /\ IF Older(checkAge, gap) >= GlobalCooldown
           THEN checkAge' = 0 /\ Check(gap, s, {})
           ELSE checkAge' = Older(checkAge, gap) /\ Unchecked(gap, {})
    /\ UNCHANGED <<live, victims, focus, freezing, lastFocus, calm>>

\* The part of a full cycle between the listing and the spike mode.  A change of the
\* focus brings a check before its time, and continues what gets it if the registry has it.
FullCycle(normal) ==
    \E gap \in Gaps, s \in SwapReadings :
        LET moved  == focus # lastFocus
            due    == Older(checkAge, gap) >= GlobalCooldown
            thawed == IF moved THEN {p \in held \ victims : PidOf[p] = focus} ELSE {}
        IN /\ swap' = s /\ calm' = normal
           /\ checkAge' = IF due THEN 0 ELSE Older(checkAge, gap)
           /\ lastFocus' = IF moved \/ due THEN focus ELSE lastFocus
           /\ IF normal /\ (moved \/ due) THEN Check(gap, s, thawed)
              ELSE Unchecked(gap, thawed)
           /\ UNCHANGED <<live, victims, focus, freezing>>

-----------------------------------------------------------------------------
(* The processes, the desktop and the other paths that hold processes.     *)

Start(p) ==
    /\ PidOf[p] \notin Listed(live)
    /\ QuickReuse \/ (reclaimAge[PidOf[p]] = NoClock /\ freezeAge[PidOf[p]] = NoClock)
    /\ live' = live \cup {p}
    /\ UNCHANGED <<held, victims, focus, freezing, seen, evictor>>

Exit(p) ==
    /\ p \in live
    /\ live' = live \ {p} /\ held' = held \ {p} /\ victims' = victims \ {p}
    /\ seen' = [seen EXCEPT ![p] = Unseen]
    /\ UNCHANGED <<focus, freezing, evictor>>

Focus(i) ==
    /\ focus' = i
    /\ UNCHANGED <<live, held, victims, freezing, seen, evictor>>

Reload ==
    /\ freezing' \in Freezings
    /\ UNCHANGED <<live, held, victims, focus, seen, evictor>>

\* The plan, a spike or mgctl stops a process; recovery, mgctl or its spike continues it.
Hold(p) ==
    /\ p \in live \ held
    /\ held' = held \cup {p} /\ victims' \in {victims, victims \cup {p}}
    /\ UNCHANGED <<live, focus, freezing, seen, evictor>>

Release(p) ==
    /\ p \in held
    /\ held' = held \ {p} /\ victims' = victims \ {p}
    /\ UNCHANGED <<live, focus, freezing, seen, evictor>>

Next ==
    \/ CalmTick
    \/ \E normal \in BOOLEAN : FullCycle(normal)
    \/ \E p \in Procs : Start(p) \/ Exit(p) \/ Hold(p) \/ Release(p)
    \/ \E i \in (Windows \cap Listed(live)) \cup {NoPid} : Focus(i)
    \/ Reload

Spec == Init /\ [][Next]_vars

\* While the evictor is calm its waits end; the swap need not change for that.
Fairness == WF_vars(UNCHANGED swap /\ CalmTick)

-----------------------------------------------------------------------------
\* Types of the variables.
TypeOK ==
    /\ live \subseteq Procs /\ held \subseteq live /\ victims \subseteq held
    /\ {focus, lastFocus} \subseteq Pids \cup {NoPid}
    /\ {freezing, calm} \subseteq BOOLEAN /\ swap \in Swaps /\ checkAge \in Ages
    /\ reclaimAge \in [Pids -> Clocks] /\ freezeAge \in [Pids -> Clocks]
    /\ seen \in [Procs -> [watched : Clocks, waited : Clocks, pushed : Clocks, spaced : Clocks]]

\* An idle freeze takes nobody whom the checks have not watched for freeze_after_sec, be it
\* new, under a used pid, or let go after an earlier freeze: who was let go is not stopped
\* again at the next check (idle_reclaim.rs:148-193).
FrozenAfterWatch == \A p \in live : seen[p].waited >= FreezeAfter

\* The same of pushing memory out, the first time and each time after, whether the kernel
\* gave some or had none, and whatever became of the focus, the swap and the level
\* meanwhile (idle_reclaim.rs:117-134).
PushedSparingly == \A p \in live : seen[p].spaced >= IdleFor(p)

\* A process that stays in the background of a calm machine has its memory pushed out
\* again and again: the cap of three a check starves nobody as long as there are not
\* more candidates than the checks of an idle time can take (idle_reclaim.rs:98).
EveryoneServed ==
    \A p \in Large \cap (Low \cup Important) \cap Reliable :
        <>[](p \in live \ held /\ focus # PidOf[p] /\ calm /\ swap = "fine")
            => []<>(seen[p].pushed = 0)
=============================================================================
