----------------------------- MODULE RestoreGate -----------------------------
(***************************************************************************)
(* HealthBaseline: the moving average of the available memory that lets    *)
(* the recovery manager continue a stopped process, or restore one that    *)
(* was checkpointed, only while that leaves 85 % of the average.           *)
(*                                                                         *)
(* FreezeLifecycle and CheckpointLifecycle let recovery choose freely; this*)
(* is what the choice hangs on.  Memory is a number of small units, and    *)
(* the average is rounded down to one.                                     *)
(***************************************************************************)
EXTENDS Integers, FiniteSetsExt

CONSTANTS
    Procs, SizeOf,     \* processes; the memory that a restore takes, 0 for a stopped one
    Avails, TotalMem,  \* readings of the available memory; all there is
    MaxUnfreeze,       \* MAX_UNFREEZE_PER_CYCLE
    ColdSamples        \* samples that the average needs

ProcsAssumption == SizeOf \in [Procs -> Nat] /\ IsFiniteSet(Procs)
LimitsAssumption ==
    /\ Avails \subseteq Nat \ {0} /\ TotalMem \in Nat
    /\ {MaxUnfreeze, ColdSamples} \subseteq Nat \ {0}

VARIABLES
    avail,    \* what /proc/meminfo says
    calm,     \* the PSI level is Normal
    average,  \* avg_available_kb
    samples,  \* up to ColdSamples
    held      \* in the frozen or in the checkpoint registry

vars == <<avail, calm, average, samples, held>>

Stopped      == {p \in held : SizeOf[p] = 0}
Checkpointed == held \ Stopped

-----------------------------------------------------------------------------
\* observe, with ALPHA = 0.05
Averaged == IF samples = 0 THEN avail ELSE (avail + 19 * average) \div 20

\* safe_to_restore, for the baseline that has just been fed
Safe(size, avg, n) ==
    LET after == IF size < avail THEN avail - size ELSE 0
    IN IF n < ColdSamples THEN 10 * after > TotalMem ELSE 100 * after > 85 * avg

Init ==
    /\ avail \in Avails /\ calm = TRUE
    /\ average = 0 /\ samples = 0 /\ held = {}

\* One round: as many stopped processes as a round may continue, and the lightest of those
\* on disk.  A round that finds nothing held does not take place.
Tick ==
    /\ calm /\ held # {}
    /\ LET avg == Averaged
           n   == IF samples < ColdSamples THEN samples + 1 ELSE samples
           light == {p \in Checkpointed : \A q \in Checkpointed : SizeOf[p] <= SizeOf[q]}
       IN /\ average' = avg /\ samples' = n
          /\ \E freed \in SUBSET Stopped, back \in SUBSET light :
                /\ Cardinality(freed) =
                       IF ~Safe(0, avg, n) THEN 0
                       ELSE IF Cardinality(Stopped) < MaxUnfreeze THEN Cardinality(Stopped)
                       ELSE MaxUnfreeze
                /\ Cardinality(back) =
                       IF \E p \in light : Safe(SizeOf[p], avg, n) THEN 1 ELSE 0
                /\ held' = held \ (freed \cup back)
    /\ UNCHANGED <<avail, calm>>

\* The evictor takes a process when memory is short.
Take(p) ==
    /\ ~calm /\ p \notin held
    /\ held' = held \cup {p}
    /\ UNCHANGED <<avail, calm, average, samples>>

\* A process leaves another way: mgctl, the focus, its own end.
Leave(p) ==
    /\ p \in held
    /\ held' = held \ {p}
    /\ UNCHANGED <<avail, calm, average, samples>>

Load ==
    /\ avail' \in Avails /\ calm' \in BOOLEAN
    /\ UNCHANGED <<average, samples, held>>

Next == Tick \/ Load \/ \E p \in Procs : Take(p) \/ Leave(p)

Spec == Init /\ [][Next]_vars

\* Rounds come every three seconds.
Fairness == WF_vars(Tick)

-----------------------------------------------------------------------------
\* Types of the variables; the average stays between the readings.
TypeOK ==
    /\ avail \in Avails /\ calm \in BOOLEAN /\ samples \in 0..ColdSamples /\ held \subseteq Procs
    /\ IF samples = 0 THEN average = 0
       ELSE \E low, high \in Avails : low <= average /\ average <= high

\* The average of a steady load is that load.
Fits(p, a) == 100 * (a - SizeOf[p]) > 85 * a

\* However the load went before, when it settles the gate opens for every process that
\* takes less than 15 % of what is available: the margin does not block all restores
\* (health.rs:33).
LetGo ==
    \A a \in Avails : \A p \in Procs :
        Fits(p, a) => (<>[](calm /\ avail = a) => <>[](p \notin held))
=============================================================================
