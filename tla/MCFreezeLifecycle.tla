--------------------------- MODULE MCFreezeLifecycle ---------------------------
(***************************************************************************)
(* FreezeLifecycle for TLC, on two instances, of which a                   *)
(* behaviour runs one and leaves the other where it begins.                *)
(*                                                                         *)
(* The first, from the .cfg, is stopped in order.  The second, Killed, may *)
(* be killed at any step, which may tear the file it is writing, and is    *)
(* started again.                                                          *)
(***************************************************************************)
EXTENDS FreezeLifecycle, TLC

CONSTANTS p1, p2, k1, f1

VARIABLES
    watch,   \* the instance that the behaviour is of
    kAlive, kBorn, kStopped, kFrozen, kAged, kVictims, kTracking, kRequests, kSnapshot,
    kActive, kEv, kRec, kDoorbell, kConn, kDaemon, kSweep

Killed == INSTANCE FreezeLifecycle WITH
    Pids <- {k1}, MaxGen <- 2, MaxUnfreeze <- 1,
    Freezers <- {f1}, Unfreezers <- {}, Focusers <- {},
    IdleFreeze <- TRUE, SpikeMode <- TRUE, VictimTimeout <- TRUE,
    MayShutdown <- TRUE, MayCrash <- TRUE, TornSaves <- TRUE,
    alive <- kAlive, born <- kBorn, stopped <- kStopped, frozen <- kFrozen, aged <- kAged,
    victims <- kVictims, tracking <- kTracking, requests <- kRequests,
    snapshot <- kSnapshot, active <- kActive, ev <- kEv, rec <- kRec,
    doorbell <- kDoorbell, conn <- kConn, daemon <- kDaemon, sweep <- kSweep

killedVars == <<kAlive, kBorn, kStopped, kFrozen, kAged, kVictims, kTracking, kRequests,
                kSnapshot, kActive, kEv, kRec, kDoorbell, kConn, kDaemon, kSweep>>

\* Pids are interchangeable: no action or safety property tells them apart.
Symmetry == Permutations({p1, p2})

BothInit ==
    /\ watch \in {"stopped", "killed"}
    /\ Init /\ Killed!Init

BothNext ==
    /\ UNCHANGED watch
    /\ \/ watch = "stopped" /\ Next /\ UNCHANGED killedVars
       \/ watch = "killed" /\ Killed!Next /\ UNCHANGED vars

BothSpec == BothInit /\ [][BothNext]_<<watch, vars, killedVars>>

\* The instance without kills under the fairness of FreezeLifecycle.
LiveInit == BothInit /\ watch = "stopped"
LiveSpec == LiveInit /\ [][BothNext]_<<watch, vars, killedVars>> /\ Fairness

-----------------------------------------------------------------------------
\* An entry leaves the registry and its file only when its process runs, however often the
\* daemon is killed and started again (init.rs:28, registry.rs:47-66).
EntryOutlivesKills == Killed!RegistryEntryOutlivesStop

\* A victim record goes only into the hands of a thread that is about to continue its
\* process, or of the next start (spike_mode.rs:447, init.rs:62-78).
VictimsOutliveKills == Killed!VictimHandedOver
=============================================================================
