--------------------------- MODULE EvictionCycle ---------------------------
(***************************************************************************)
(* One cycle of the evictor under pressure: plan() decides, from the list  *)
(* of processes read at its start, what is done to which process, and      *)
(* execute_plan carries it out one process after another, while processes  *)
(* start and end, users freeze them, and a thread for every SIGTERM waits  *)
(* five seconds before it resorts to SIGKILL.                              *)
(*                                                                         *)
(* A process is a pid together with a start time; several may have had one *)
(* pid.  RAM is counted in units of any size.  A process has all its       *)
(* memory in RAM or all of it in swap.                                     *)
(***************************************************************************)
EXTENDS Integers, Sequences, FiniteSetsExt

CONSTANTS
    Procs, First, \* processes, and those that run at the start
    NoPid, NoCgroup,
    Attr,        \* what is known of a process: see Attributes
    Windows,     \* pids that a desktop plugin may report as the active window
    Tiny,        \* processes up to this size are no candidates
    Budget,      \* RAM that may be used: total RAM less target_available_pct
    Loads,       \* RAM used by others than the processes of the user
    DumpsFail,   \* the checkpoint helper may fail
    QuickReuse,  \* a pid may be reused between the listing and the signal
    MaxThreads   \* bound on the SIGTERM threads for one process

Attributes ==
    [pid : {Attr[p].pid : p \in Procs}, binary : {Attr[p].binary : p \in Procs},
     cgroup : {Attr[p].cgroup : p \in Procs}, prio : 0..100, size : Nat, gpu : Nat,
     oom : Nat, override : {"unset", "yes", "no"}, protected : BOOLEAN]

ASSUME AttrAssumption == Attr \in [Procs -> Attributes]
ASSUME FirstAssumption ==
    First \subseteq Procs /\ \A p, q \in First : Attr[p].pid = Attr[q].pid => p = q
ASSUME FiniteAssumption == IsFiniteSet(Procs)
ASSUME WindowsAssumption ==
    /\ Windows \subseteq {Attr[p].pid : p \in Procs}
    /\ NoPid \notin {Attr[p].pid : p \in Procs}
ASSUME NumbersAssumption ==
    /\ Tiny \in Nat /\ Budget \in Nat /\ Loads \subseteq Nat /\ Loads # {}
    /\ MaxThreads \in Nat \ {0}
ASSUME SwitchesAssumption == DumpsFail \in BOOLEAN /\ QuickReuse \in BOOLEAN

VARIABLES
    alive, born,     \* processes that run, and that have ever run
    swapped,         \* those with their memory in swap
    held,            \* those in FrozenRegistry or in the books of the spike mode
    level, load,     \* effective level of the cycle, and what others use
    plan,            \* decisions not carried out yet
    cleared,         \* the first of them is about a process found not frozen
    cooling,         \* recently_killed_cgroups
    failed,          \* names with a failed dump
    spawned,         \* SIGTERM threads that have not run yet, by the process
                     \*     they are meant for (they only know its pid)
    grace            \* SIGTERM threads that wait, by the process they hit

env     == <<alive, born, swapped, held>>
threads == <<spawned, grace>>
vars == <<env, level, load, plan, cleared, cooling, failed, threads>>

Pids     == {Attr[p].pid : p \in Procs}
Cgroups  == {Attr[p].cgroup : p \in Procs} \ {NoCgroup}
Binaries == {Attr[p].binary : p \in Procs}
Pid(p)   == Attr[p].pid
Siblings(p) == {q \in Procs : Attr[q].cgroup = Attr[p].cgroup /\ Attr[q].cgroup # NoCgroup}

Levels  == {"Normal", "Elevated", "High", "Critical", "Emergency"}
Actions == {"none", "freeze", "checkpoint", "terminate", "kill"}

Decisions == [proc : Procs, prio : 0..100, act : Actions]

TypeOK ==
    /\ born \subseteq Procs /\ alive \subseteq born
    /\ swapped \subseteq alive /\ held \subseteq born
    /\ level \in Levels /\ load \in Loads
    /\ plan \in Seq(Decisions) /\ cleared \in BOOLEAN
    /\ cooling \subseteq Cgroups /\ failed \subseteq Binaries
    /\ spawned \in [Procs -> Nat] /\ grace \in [Procs -> Nat]

Init ==
    /\ alive = First /\ born = First
    /\ swapped \in SUBSET First /\ held = {}
    /\ level = "Normal" /\ load \in Loads
    /\ plan = << >> /\ cleared = FALSE /\ cooling = {} /\ failed = {}
    /\ spawned = [p \in Procs |-> 0] /\ grace = [p \in Procs |-> 0]

-----------------------------------------------------------------------------
(* plan().  The focus is the pid of the active window; full stands for     *)
(* swap_exhausted.                                                         *)

Rss(p)  == IF p \in swapped THEN 0 ELSE Attr[p].size
Deficit == load + MapThenSumSet(Rss, alive) - Budget

\* The priority of the active window is lowered by 25, down to 20.
Priority(p, focus) ==
    IF Pid(p) # focus THEN Attr[p].prio
    ELSE IF Attr[p].prio >= 45 THEN Attr[p].prio - 25 ELSE 20

IsHeld(p) == \E q \in held : Pid(q) = Pid(p)

Candidates ==
    {p \in alive : /\ ~IsHeld(p) /\ Attr[p].cgroup \notin cooling
                   /\ Attr[p].size > Tiny}

\* GPU memory counts for the order from High on, never for the deficit.
Footprint(p) ==
    Rss(p) + (IF level \in {"High", "Critical", "Emergency"} THEN Attr[p].gpu ELSE 0)

\* The sort key; equal keys keep the order of the listing, which is by RSS.
Key(p, focus) == <<Priority(p, focus), Footprint(p), Attr[p].oom, Rss(p)>>

\* Mutated form of Before: the largest process first.
BeforeBySize(p, q, focus) == Footprint(p) > Footprint(q)

Before(p, q, focus) ==
    \E i \in 1..4 : /\ Key(p, focus)[i] > Key(q, focus)[i]
                    /\ \A j \in 1..(i - 1) : Key(p, focus)[j] = Key(q, focus)[j]

Orders(focus) ==
    LET n == Cardinality(Candidates)
    IN {o \in [1..n -> Candidates] :
            \A i, j \in 1..n : i < j => o[i] # o[j] /\ ~Before(o[j], o[i], focus)}

AtCritical(p, prio) ==
    LET mostlySwapped == p \in swapped
        eligible      == Attr[p].binary \notin failed
    IN IF Attr[p].override # "unset"
       THEN IF Attr[p].override = "yes" /\ eligible THEN "checkpoint"
            ELSE IF mostlySwapped THEN "kill" ELSE "terminate"
       ELSE IF mostlySwapped /\ prio >= 60 THEN "kill"
       ELSE IF prio >= 75 THEN "terminate"
       ELSE IF eligible THEN "checkpoint"
       ELSE IF prio >= 60 THEN "terminate" ELSE "kill"

\* Mutated form of Spared: the tier is not looked at.
SparedByList(p, prio) == Attr[p].protected

\* The system tier and the protect list.
Spared(p, prio) == prio <= 19 \/ Attr[p].protected

\* determine_process_action, for a process that is not spared.
ActionFor(p, prio, full) ==
    IF Spared(p, prio) THEN "none"
    ELSE IF full /\ prio >= 80 THEN "kill"
    ELSE CASE level = "Normal"    -> "none"
           [] level = "Elevated"  -> IF prio >= 60 THEN "freeze" ELSE "none"
           [] level = "High"      -> IF prio >= 80 THEN "terminate"
                                     ELSE IF prio >= 60 THEN "freeze" ELSE "none"
           [] level = "Critical"  -> AtCritical(p, prio)
           [] level = "Emergency" -> "kill"

Frees(p, act) == IF act \in {"none", "freeze"} THEN 0 ELSE Rss(p)

\* Mutated form of Covered: one unit too many.
CoveredAmply(left) == left < 0

Covered(left) == left <= 0

\* The deficit after the first i candidates in order.
Left(order, focus, full) ==
    LET left[i \in 0..Len(order)] ==
            IF i = 0 THEN Deficit
            ELSE IF Covered(left[i - 1]) THEN left[i - 1]
            ELSE left[i - 1] - Frees(order[i], ActionFor(order[i], Priority(order[i], focus), full))
    IN left

\* The decisions for the candidates in order: nothing once the deficit is
\* covered.
Decide(order, focus, full) ==
    LET left == Left(order, focus, full)
    IN [i \in 1..Len(order) |->
            LET prio == Priority(order[i], focus)
            IN [proc |-> order[i], prio |-> prio,
                act  |-> IF Covered(left[i - 1]) THEN "none" ELSE ActionFor(order[i], prio, full)]]

\* The evictor reads the list of processes and decides.  Swap counts as
\* exhausted at Critical and above only (apply_swap_overrides).
Plan ==
    /\ plan = << >> /\ Deficit > 0
    /\ \E focus \in Windows \cup {NoPid}, full \in BOOLEAN :
        /\ full => level \in {"Critical", "Emergency"}
        /\ \E order \in Orders(focus) : plan' = Decide(order, focus, full)
        /\ \E i \in DOMAIN plan' : plan'[i].act # "none"
    /\ UNCHANGED <<env, level, load, cleared, cooling, failed, threads>>

-----------------------------------------------------------------------------
(* execute_plan, one decision at a time.  The lock of the registry is held *)
(* while it is asked, and not while the decision is carried out: who is    *)
(* found not frozen may be frozen by then.  Signals go to whoever has the  *)
(* pid by then.                                                            *)

Owner(p) == {q \in alive : Pid(q) = Pid(p)}
Die(P)   == alive' = alive \ P /\ swapped' = swapped \ P

\* Mutated form of Cool: no cgroup is recorded.
CoolNothing(d) == cooling' = cooling

\* The cgroup of d rests from now on.
Cool(d) == cooling' = cooling \cup ({Attr[d.proc].cgroup} \ {NoCgroup})

\* The process of the first decision is not frozen.
Clear ==
    /\ plan # << >> /\ ~cleared /\ cleared' = TRUE
    /\ Head(plan).act # "none" /\ ~IsHeld(Head(plan).proc)
    /\ UNCHANGED <<env, level, load, plan, cooling, failed, threads>>

\* A decision without effect, or against a process frozen since the plan.
Skip(d) ==
    /\ ~cleared /\ (d.act = "none" \/ IsHeld(d.proc))
    /\ UNCHANGED <<env, cooling, failed, threads>>

\* After the SIGSTOP the memory of the cgroup goes to swap, as far as the
\* kernel complies.
Freeze(d) ==
    /\ d.act = "freeze" /\ cleared
    /\ held' = held \cup Owner(d.proc)
    /\ \E S \in SUBSET (alive \cap Siblings(d.proc)) :
          swapped' = swapped \cup (IF Owner(d.proc) = {} THEN {} ELSE S)
    /\ UNCHANGED <<alive, born, cooling, failed, threads>>

Kill(d) ==
    /\ d.act = "kill" /\ cleared
    /\ Die(Owner(d.proc)) /\ Cool(d)
    /\ UNCHANGED <<born, held, failed, threads>>

Spawn(p) == spawned[p] + grace[p] < MaxThreads /\ spawned' = [spawned EXCEPT ![p] = @ + 1]

Terminate(d) ==
    /\ d.act = "terminate" /\ cleared
    /\ Spawn(d.proc) /\ Cool(d)
    /\ UNCHANGED <<env, failed, grace>>

\* The process is dumped and killed.
Checkpoint(d) ==
    /\ d.act = "checkpoint" /\ cleared
    /\ Owner(d.proc) # {} /\ Die(Owner(d.proc))
    /\ UNCHANGED <<born, held, cooling, failed, threads>>

\* Without a dump the name is never tried again, or none is when the helper
\* lacks the privilege; the process is terminated or killed.
CheckpointFails(d) ==
    /\ d.act = "checkpoint" /\ cleared
    /\ DumpsFail \/ Owner(d.proc) = {}
    /\ failed' \in {failed \cup {Attr[d.proc].binary}, Binaries}
    /\ IF d.prio >= 60
       THEN Spawn(d.proc) /\ UNCHANGED <<alive, swapped>>
       ELSE Die(Owner(d.proc)) /\ UNCHANGED spawned
    /\ UNCHANGED <<born, held, cooling, grace>>

Execute ==
    /\ plan # << >> /\ plan' = Tail(plan) /\ cleared' = FALSE
    /\ LET d == Head(plan) IN
        Skip(d) \/ Freeze(d) \/ Kill(d) \/ Terminate(d) \/ Checkpoint(d) \/ CheckpointFails(d)
    /\ UNCHANGED <<level, load>>
-----------------------------------------------------------------------------
(* killer::sigterm, in a thread of its own.                                *)

\* The thread meant for p reads the start time at its pid and sends SIGTERM.
Sigterm(p) ==
    /\ spawned[p] > 0 /\ spawned' = [spawned EXCEPT ![p] = @ - 1]
    /\ grace' = [q \in Procs |-> IF q \in Owner(p) THEN grace[q] + 1 ELSE grace[q]]
    /\ UNCHANGED <<env, level, load, plan, cleared, cooling, failed>>

\* Mutated forms of Sigkilled: the start time is not compared; no SIGKILL.
SigkilledByPid(p) == Owner(p)
SigkilledNever(p) == {}

\* Who gets the SIGKILL when five seconds are over: p if it still has its
\* pid, nobody if another start time is found there.
Sigkilled(p) == {p} \cap alive

\* The grace of p is over, or p was found gone before.
GraceOver(p) ==
    /\ grace[p] > 0 /\ grace' = [grace EXCEPT ![p] = @ - 1]
    /\ Die(Sigkilled(p))
    /\ UNCHANGED <<born, held, level, load, plan, cleared, cooling, failed, spawned>>

\* 45 s have passed since a kill in cgroup g: longer than any SIGTERM thread
\* takes.
CooldownOver(g) ==
    /\ g \in cooling /\ cooling' = cooling \ {g}
    /\ \A p \in Procs : Attr[p].cgroup = g => spawned[p] = 0 /\ grace[p] = 0
    /\ UNCHANGED <<env, level, load, plan, cleared, failed, threads>>

-----------------------------------------------------------------------------
(* The other threads, the user and the kernel.                             *)

\* A pid in the plan or on its way to a SIGTERM thread.
InUse(i) ==
    \/ \E p \in Procs : Pid(p) = i /\ spawned[p] > 0
    \/ \E k \in DOMAIN plan : Pid(plan[k].proc) = i

Start(p) ==
    /\ p \notin born /\ Owner(p) = {}
    /\ QuickReuse \/ ~InUse(Pid(p))
    /\ alive' = alive \cup {p} /\ born' = born \cup {p}
    /\ UNCHANGED <<swapped, held, level, load, plan, cleared, cooling, failed, threads>>

Exit(p) ==
    /\ p \in alive /\ Die({p})
    /\ UNCHANGED <<born, held, level, load, plan, cleared, cooling, failed, threads>>

\* mgctl freeze, idle freezing and the spike mode; and the end of it.
Hold(p) ==
    /\ p \in alive \ held /\ held' = held \cup {p}
    /\ UNCHANGED <<alive, born, swapped, level, load, plan, cleared, cooling, failed, threads>>

Release(p) ==
    /\ p \in held /\ held' = held \ {p}
    /\ UNCHANGED <<alive, born, swapped, level, load, plan, cleared, cooling, failed, threads>>

\* The kernel moves the memory of p to swap or back; only plan() looks at it.
Page(p) ==
    /\ p \in alive /\ plan = << >>
    /\ swapped' = IF p \in swapped THEN swapped \ {p} ELSE swapped \cup {p}
    /\ UNCHANGED <<alive, born, held, level, load, plan, cleared, cooling, failed, threads>>

\* The level of the next cycle, and the load it finds.
Pressure ==
    /\ plan = << >> /\ level' \in Levels /\ load' \in Loads
    /\ UNCHANGED <<env, plan, cleared, cooling, failed, threads>>

Next ==
    \/ Plan \/ Clear \/ Execute
    \/ \E p \in Procs : Sigterm(p) \/ GraceOver(p)
    \/ \E g \in Cgroups : CooldownOver(g)
    \/ \E p \in Procs : Start(p) \/ Exit(p) \/ Hold(p) \/ Release(p) \/ Page(p)
    \/ Pressure

Spec == Init /\ [][Next]_vars

\* The evictor and the SIGTERM threads run on, and time passes.
FairSpec ==
    /\ Spec
    /\ WF_vars(Plan \/ Clear \/ Execute)
    /\ \A p \in Procs : WF_vars(Sigterm(p) \/ GraceOver(p))
    /\ \A g \in Cgroups : WF_vars(CooldownOver(g))
-----------------------------------------------------------------------------
(* Properties.                                                             *)

\* Whom a step of the evictor or of a SIGTERM thread acts upon.
ByDaemon == plan' # plan \/ threads' # threads
Struck ==
    IF ByDaemon THEN (alive \ alive') \cup (held' \ held) \cup {p \in Procs : grace'[p] > grace[p]}
    ELSE {}

\* Processes on the protect list and those of priority 0..19 are never
\* touched (engine/decision.rs:136), neither by the evictor nor by a SIGTERM
\* thread, whoever has had their pid before.
NeverTouched == [][\A p \in Struck : ~Attr[p].protected /\ Attr[p].prio > 19]_vars

\* Nobody is hit in place of another: the evictor strikes the process its
\* plan names, and a SIGTERM thread the one it was started for, although
\* pids change hands during a grace (executor/killer.rs:25).
OnlyTargetsStruck ==
    [][ \A p \in Struck :
            \/ plan # << >> /\ plan' # plan /\ p = Head(plan).proc
            \/ spawned'[p] < spawned[p] \/ grace'[p] < grace[p] ]_vars

\* A process gets no second SIGTERM thread while one is at work on it: its
\* cgroup rests for longer than the grace lasts (evictor/execute.rs:57).
\* This is not so after a failed dump, which lets the cgroup not rest, nor
\* for a process without a cgroup.
OneTerminator ==
    \A p \in Procs :
        Attr[p].cgroup = NoCgroup \/ Attr[p].binary \in failed
            \/ spawned[p] + grace[p] <= 1

\* Priority before force: if a plan acts upon a process, it acts upon every
\* candidate of higher priority value that is not protected
\* (docs/ARCHITECTURE.md:54).
PriorityBeforeForce ==
    [][ plan = << >> =>
        \A i, j \in DOMAIN plan' :
            /\ plan'[i].act # "none" /\ plan'[j].prio > plan'[i].prio
            /\ ~Attr[plan'[j].proc].protected
            => plan'[j].act # "none" ]_vars

\* Never free more than needed: without the last process that a plan acts
\* upon, what the others free does not cover the deficit
\* (docs/ARCHITECTURE.md:59).
NeverMoreThanNeeded ==
    [][ plan = << >> =>
        \A i \in DOMAIN plan' :
            plan'[i].act # "none" =>
                MapThenSumSet(LAMBDA j : Frees(plan'[j].proc, plan'[j].act), 1..(i - 1)) < Deficit ]_vars

Evictable == {p \in alive : Attr[p].size > Tiny /\ ~Attr[p].protected /\ Attr[p].prio > 19}

\* While the level stays Critical or above and nobody freezes anything, the
\* evictor covers the deficit time and again, or leaves nothing to evict:
\* resting cgroups, threads that wait and dumps that fail only delay it
\* (evictor/mod.rs:382).
Relief ==
    <>[](level \in {"Critical", "Emergency"} /\ held = {})
        => []<>(Deficit <= 0 \/ Evictable = {})
=============================================================================
