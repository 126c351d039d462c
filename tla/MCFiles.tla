------------------------------- MODULE MCFiles -------------------------------
(***************************************************************************)
(* What the daemon keeps on disk, on small instances: checkpoints as long  *)
(* as it is stopped in order, so that none may be lost; checkpoints under  *)
(* kills, torn files and commands, where those on record may not be; and   *)
(* the configuration.  None reads the others' files, so that a behaviour   *)
(* of all is one of each: a run looks at one of them, and leaves the       *)
(* others where they begin.                                                *)
(***************************************************************************)
EXTENDS Files, TLC

CONSTANTS p1, p2, n1, n2, c1, c2

VARIABLES
    watch,   \* the part that the behaviour is of
    kLive, kBorn, kDir, kEntry, kUnfit, kEv, kRec, kConn, kUp, kOwed

\* The processes of a pid share one name, or each has its own.
OneName  == [g \in Gens |-> n1]
TwoNames == [g \in Gens |-> IF g = 1 THEN n1 ELSE n2]

Killed == INSTANCE CheckpointLifecycle WITH
    Pids <- {p1}, Names <- {n1}, MaxGen <- 3, NameOf <- OneName, MaxTries <- 3,
    Restorers <- {c1, c2}, Reuse <- TRUE, Overlap <- {},
    MayStop <- TRUE, MayCrash <- TRUE, TornSaves <- TRUE,
    live <- kLive, born <- kBorn, dir <- kDir, entry <- kEntry, unfit <- kUnfit,
    ev <- kEv, rec <- kRec, conn <- kConn, up <- kUp, owed <- kOwed

Tiers(elev, hi) == [elevated |-> elev, high |-> hi]
Guarded(psi)    == [elevated |-> psi.elevated, high |-> psi.high, protects |-> TRUE]
UserTexts       == {Guarded(Tiers(6, 7))}
SystemText      == Guarded(Tiers(4, 9))
DefaultTiers    == Tiers(5, 8)

ASSUME KilledAssumption ==
    Killed!NamesAssumption /\ Killed!BoundsAssumption /\ Killed!SwitchesAssumption

killedVars == <<kLive, kBorn, kDir, kEntry, kUnfit, kEv, kRec, kConn, kUp, kOwed>>
configVars == <<user, sug, cell, flag, reload, got, copy, reading, told, apply, patch,
                edits, edited, beside>>
filesVars  == <<watch, vars, killedVars, configVars>>

FilesInit ==
    /\ watch \in {"checkpoints", "killed", "config"}
    /\ Init /\ Killed!Init /\ Config!Init
    /\ watch # "config" => user = Absent /\ sug = 0      \* one state to rest in

FilesNext ==
    /\ UNCHANGED watch
    /\ \/ watch = "checkpoints" /\ Next /\ UNCHANGED <<killedVars, configVars>>
       \/ watch = "killed" /\ Killed!Next /\ UNCHANGED <<vars, configVars>>
       \/ watch = "config" /\ Config!Next /\ UNCHANGED <<vars, killedVars>>

\* The fairness of CheckpointLifecycle.
FilesFairness ==
    /\ WF_vars(watch = "checkpoints" /\ Evictor /\ ~EvPlan)
    /\ WF_vars(watch = "checkpoints" /\ Start)
    /\ SF_vars(watch = "checkpoints" /\ RestorePass)

FilesSpec == FilesInit /\ [][FilesNext]_filesVars /\ FilesFairness

-----------------------------------------------------------------------------
\* A snapshot that the registry names is never removed while its process is down, except
\* with it: the clean-up at startup, restores and commands keep to the registry, whenever
\* the daemon is killed (init.rs:94, recovery.rs:140, ipc.rs:511).
RecordOutlivesKills == Killed!RecordedIsSafe
=============================================================================
