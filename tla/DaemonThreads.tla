---------------------------- MODULE DaemonThreads ----------------------------
(***************************************************************************)
(* The threads of the daemon, how they wake one another and how they end:  *)
(* the evictor, the recovery manager and the maintenance manager with a    *)
(* doorbell each, the IPC server, and main, which starts and joins them;   *)
(* and the plugin processes, which maintenance starts again and main       *)
(* terminates.  What the threads do to other processes is the subject of   *)
(* FreezeLifecycle and CheckpointLifecycle: here it is the number of       *)
(* entries in their registries.                                            *)
(***************************************************************************)
EXTENDS Integers

CONSTANTS
    Plugins,    \* plugin binaries that this desktop asks for
    MaxEntries, \* bound: entries in the registries
    MaxFails,   \* bound: rounds of spawning in which one fails
    Silent,     \* entries may be added without a ring: idle freezing, mgctl freeze
    Unreadable  \* maintenance may fail to read PSI

LimitsAssumption == MaxEntries \in Nat \ {0} /\ MaxFails \in Nat
SwitchesAssumption == Silent \in BOOLEAN /\ Unreadable \in BOOLEAN

VARIABLES
    stop,      \* SHUTDOWN
    main, ev, rec, mnt, srv, \* where each thread is
    ring,      \* the flag of recovery_wake
    bell,      \* the flag of reclaim_wake
    psi,       \* what maintenance has read of PSI: see Stalls
    cooling,   \* how long ago the last reclaim was: see Coolings
    entries,   \* entries in both registries
    room,      \* history: killed for room, and maintenance has not heard of it
    process,   \* of each plugin: none, running, or dead
    tracked,   \* PLUGIN_CHILDREN
    fails,
    socket,    \* the socket file exists
    saved      \* the calibration was written at the end

others  == <<stop, main, srv, socket, saved>>
plugins == <<process, tracked, fails>>
bells   == <<ring, bell, psi, cooling, entries, room>>
vars    == <<others, ev, rec, mnt, bells, plugins>>

MainSteps == {"init", "ready", "join", "plugins", "flush", "done", "dead"}
EvSteps   == {"none", "top", "cycle", "ring", "rings", "done"}
RecSteps  == {"none", "count", "wait", "again", "done"}
MntSteps  == {"none", "top", "take", "work", "reclaim", "wait", "done"}
SrvSteps  == {"none", "accept", "done"}

\* Above level Normal; Normal with and without some_avg60 >= 5; and not readable.
Stalls   == {"pressed", "settling", "calm", "error"}
\* The cooldown holds on both paths of reclaim, on the calm one alone, or on none.
Coolings == {"both", "calm", "none"}

-----------------------------------------------------------------------------
(* Plugin processes.                                                       *)

\* spawn_plugin_binary for all of S: one that cannot be started is not tracked.
Spawn(S) ==
    \E bad \in SUBSET S :
        /\ bad # {} => fails < MaxFails
        /\ fails' = IF bad = {} THEN fails ELSE fails + 1
        /\ process' = [p \in Plugins |-> IF p \in S \ bad THEN "running" ELSE process[p]]
        /\ tracked' = (tracked \cup S) \ bad

Crash(p) ==
    /\ process[p] = "running"
    /\ process' = [process EXCEPT ![p] = "dead"]
    /\ UNCHANGED <<others, ev, rec, mnt, bells, tracked, fails>>

-----------------------------------------------------------------------------
(* The evictor.                                                            *)

EvTop ==
    /\ ev = "top" /\ ~stop
    /\ ev' = "cycle"
    /\ UNCHANGED <<others, rec, mnt, bells, plugins>>

\* The end of the thread: reclaim_wake is notified, and its flag is not set.
EvStop ==
    /\ ev = "top" /\ stop
    /\ ev' = "done"
    /\ mnt' = IF mnt = "wait" THEN "top" ELSE mnt
    /\ UNCHANGED <<others, rec, bells, plugins>>

\* A cycle without a plan; idle processes may be stopped.
EvCalm ==
    /\ ev = "cycle" /\ ev' = "top"
    /\ entries' \in {entries, IF Silent /\ entries < MaxEntries THEN entries + 1 ELSE entries}
    /\ UNCHANGED <<others, rec, mnt, ring, bell, psi, cooling, room, plugins>>

\* A plan is executed: some processes enter the registries, others are killed.
EvExecute ==
    /\ ev = "cycle"
    /\ \E kills \in BOOLEAN, new \in 0..1 :
        /\ entries + new <= MaxEntries
        /\ entries' = entries + new
        /\ room' = (room \/ kills)
        /\ ev' = IF kills THEN "rings" ELSE "ring"
    /\ UNCHANGED <<others, rec, mnt, ring, bell, psi, cooling, plugins>>

\* The doorbell of recovery, and after a kill that of maintenance.  Recovery looks at its
\* flag when notified, or else within 5 s; maintenance does not look at its own while it waits.
EvRing ==
    /\ ev \in {"ring", "rings"} /\ ev' = "top"
    /\ ring' = TRUE
    /\ bell' = (bell \/ ev = "rings") /\ room' = (room \/ ev = "rings")
    /\ mnt' = IF ev = "rings" /\ mnt = "wait" THEN "top" ELSE mnt
    /\ UNCHANGED <<others, rec, psi, cooling, entries, plugins>>

Evictor == EvTop \/ EvStop \/ EvCalm \/ EvExecute \/ EvRing

-----------------------------------------------------------------------------
(* The recovery manager.                                                   *)

\* run and wait_for_work: it waits when both registries are empty.
RecCount ==
    /\ rec = "count"
    /\ rec' = IF stop THEN "done" ELSE IF entries = 0 THEN "wait" ELSE "again"
    /\ UNCHANGED <<others, ev, mnt, bells, plugins>>

RecWake ==
    /\ rec = "wait" /\ (ring \/ stop)
    /\ rec' = "again"
    /\ ring' = FALSE
    /\ UNCHANGED <<others, ev, mnt, bell, psi, cooling, entries, room, plugins>>

\* The second look at the flag, and the two passes, which find the pressure Normal and
\* take entries from the registries, or neither.
RecPass ==
    /\ rec = "again"
    /\ rec' = IF stop THEN "done" ELSE "count"
    /\ entries' \in IF stop THEN {entries} ELSE 0..entries
    /\ UNCHANGED <<others, ev, mnt, ring, bell, psi, cooling, room, plugins>>

Recovery == RecCount \/ RecWake \/ RecPass

-----------------------------------------------------------------------------
(* The maintenance manager.                                                *)

\* The cooldown goes by meanwhile.
MntTop ==
    /\ mnt = "top"
    /\ IF stop THEN mnt' = "done" /\ UNCHANGED <<psi, cooling, plugins>>
       ELSE /\ mnt' = "take"
            /\ Spawn({p \in tracked : process[p] = "dead"})
            /\ psi' \in Stalls \ (IF Unreadable THEN {} ELSE {"error"})
            /\ cooling' \in {cooling, "none"} \cup (IF cooling = "both" THEN {"calm"} ELSE {})
    /\ UNCHANGED <<others, ev, rec, ring, bell, entries, room>>

\* The flag is read and reset, whatever is done about it: the path for kills is for a level
\* above Normal alone, and the other one keeps its gates.
MntTake ==
    /\ mnt = "take"
    /\ mnt' = IF \/ psi = "calm" /\ cooling = "none"
                 \/ psi = "pressed" /\ bell /\ cooling # "both"
              THEN "reclaim" ELSE "work"
    /\ bell' = FALSE
    /\ room' = (room /\ ~bell)
    /\ UNCHANGED <<others, ev, rec, ring, psi, cooling, entries, plugins>>

\* The gates on the swap, and the helper; only its success begins a cooldown.
MntReclaim ==
    /\ mnt = "reclaim" /\ mnt' = "work"
    /\ cooling' \in {cooling, "both"}
    /\ UNCHANGED <<others, ev, rec, ring, bell, psi, entries, room, plugins>>

\* From here to the wait neither flag is looked at again.
MntSleep ==
    /\ mnt = "work" /\ mnt' = "wait"
    /\ UNCHANGED <<others, ev, rec, bells, plugins>>

\* The wait is over after 60 s at the latest.
MntTimeout ==
    /\ mnt = "wait" /\ mnt' = "top"
    /\ UNCHANGED <<others, ev, rec, bells, plugins>>

Maintenance == MntTop \/ MntTake \/ MntReclaim \/ MntSleep \/ MntTimeout

-----------------------------------------------------------------------------
(* The IPC server and main.                                                *)

SrvStop ==
    /\ srv = "accept" /\ stop
    /\ srv' = "done" /\ socket' = FALSE
    /\ UNCHANGED <<stop, main, saved, ev, rec, mnt, bells, plugins>>

Init ==
    /\ stop = FALSE /\ main = "init" /\ socket = FALSE /\ saved = FALSE
    /\ ev = "none" /\ rec = "none" /\ mnt = "none" /\ srv = "none"
    /\ ring = FALSE /\ bell = FALSE /\ psi = "error" /\ entries \in 0..MaxEntries
    /\ cooling = "none" /\ room = FALSE
    /\ process = [p \in Plugins |-> "none"] /\ tracked = {} /\ fails = 0

\* initialize: the plugins are started before the signal handlers are set.
MainInit ==
    /\ main = "init" /\ main' = "ready"
    /\ Spawn(Plugins)
    /\ UNCHANGED <<stop, srv, socket, saved, ev, rec, mnt, bells>>

\* The threads are started.  The server ends at once if it cannot bind its socket, even
\* because another daemon listens there; the other threads run on.
MainStart ==
    /\ main = "ready" /\ main' = "join"
    /\ ev' = "top" /\ rec' = "count" /\ mnt' = "top"
    /\ \E bound \in BOOLEAN : srv' = (IF bound THEN "accept" ELSE "done") /\ socket' = bound
    /\ UNCHANGED <<stop, saved, bells, plugins>>

\* Mutated form of MainJoin: maintenance is not joined.
MainJoinThree ==
    /\ main = "join" /\ ev = "done" /\ rec = "done" /\ srv = "done"
    /\ main' = "plugins"
    /\ UNCHANGED <<stop, srv, socket, saved, ev, rec, mnt, bells, plugins>>

MainJoin ==
    /\ main = "join" /\ ev = "done" /\ rec = "done" /\ srv = "done" /\ mnt = "done"
    /\ main' = "plugins"
    /\ UNCHANGED <<stop, srv, socket, saved, ev, rec, mnt, bells, plugins>>

\* shutdown_plugins: a SIGTERM, which ends them, and nobody waits for that.
MainPlugins ==
    /\ main = "plugins" /\ main' = "flush"
    /\ process' = [p \in Plugins |-> IF p \in tracked THEN "none" ELSE process[p]]
    /\ tracked' = {}
    /\ UNCHANGED <<stop, srv, socket, saved, ev, rec, mnt, bells, fails>>

\* After the sweep of the frozen registry.
MainFlush ==
    /\ main = "flush" /\ main' = "done"
    /\ saved' = TRUE
    /\ UNCHANGED <<stop, srv, socket, ev, rec, mnt, bells, plugins>>

Main == MainInit \/ MainStart \/ MainJoin \/ MainPlugins \/ MainFlush

\* SIGTERM or SIGINT; before the handlers are set it ends the process.
Terminate ==
    /\ ~stop
    /\ IF main \in {"init", "ready"} THEN main' = "dead" /\ UNCHANGED stop
       ELSE main # "dead" /\ stop' = TRUE /\ UNCHANGED main
    /\ UNCHANGED <<srv, socket, saved, ev, rec, mnt, bells, plugins>>

Next ==
    \/ Evictor \/ Recovery \/ Maintenance \/ SrvStop \/ Main \/ Terminate
    \/ \E p \in Plugins : Crash(p)

Spec == Init /\ [][Next]_vars

\* Threads run and waits end.
Fairness ==
    /\ WF_vars(Evictor) /\ WF_vars(Recovery) /\ WF_vars(Maintenance)
    /\ WF_vars(SrvStop) /\ WF_vars(Main)

FairSpec == Spec /\ Fairness

-----------------------------------------------------------------------------
TypeOK ==
    /\ stop \in BOOLEAN /\ main \in MainSteps /\ ev \in EvSteps /\ rec \in RecSteps
    /\ mnt \in MntSteps /\ srv \in SrvSteps
    /\ ring \in BOOLEAN /\ bell \in BOOLEAN /\ room \in BOOLEAN
    /\ psi \in Stalls /\ cooling \in Coolings /\ entries \in 0..MaxEntries
    /\ process \in [Plugins -> {"none", "running", "dead"}]
    /\ tracked \subseteq Plugins /\ fails \in 0..MaxFails
    /\ socket \in BOOLEAN /\ saved \in BOOLEAN

\* The daemon ends, or has died.
Over == stop \/ main = "dead"

\* Whatever a plan puts into the registries is looked at by the recovery manager, however
\* ring, count and wait interleave (recovery.rs:57-74, evictor/mod.rs:391-394).
RingServed == entries > 0 ~> (rec = "again" \/ Over)

\* Maintenance hears of room that a kill made, and the ring is not lost while it works, nor
\* between its look at the flag and its wait (maintenance.rs:75-121).
RoomHeard == room ~> (~room \/ Over)

\* And it uses the room if the pressure stays above Normal, out of the cooldown for kills:
\* no round takes the ring without a try (maintenance.rs:106-110, 309-318).
RoomUsed ==
    []((bell /\ [](psi = "pressed" /\ cooling # "both")) => <>(mnt = "reclaim" \/ Over))

\* What the documentation says of a kill: out of that cooldown reclaim is tried whatever the
\* pressure that is read (docs/ARCHITECTURE.md:409-414, maintenance.rs:286-288).
RingTried ==
    [][bell /\ ~bell' /\ psi # "error" /\ cooling # "both" => mnt' = "reclaim"]_vars

\* A plugin that dies runs again (plugin_server.rs:173-198).
Restarted == \A p \in Plugins : process[p] = "dead" ~> (process[p] = "running" \/ Over)

\* A SIGTERM that the daemon catches ends it (main.rs:74-83).
StopCompletes == stop ~> main = "done"

\* What it leaves then: no thread, no plugin, no socket, and the evidence of the
\* calibrator on disk.  A restart of plugins does not overtake their end (main.rs:77-79).
NothingLeft ==
    main = "done" =>
        /\ \A p \in Plugins : process[p] # "running"
        /\ {ev, rec, mnt, srv} = {"done"} /\ ~socket /\ saved

\* Maintenance does not wait when the evictor has left (evictor/mod.rs:133).
StopPrompt == ev = "done" => mnt # "wait"
=============================================================================
