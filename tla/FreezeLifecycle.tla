-------------------------- MODULE FreezeLifecycle --------------------------
(***************************************************************************)
(* Who may stop a process, who must let it run again, and what each thread *)
(* of mgd knows about it in between.                                       *)
(*                                                                         *)
(* Threads: the evictor, the recovery manager, IPC connection threads      *)
(* (mgctl freeze / mgctl unfreeze), the threads the ActiveWindow handler   *)
(* spawns, and main (startup and shutdown sweep).  A process stopped by    *)
(* mgd is remembered in FrozenRegistry (`frozen`, shared, on disk) or in   *)
(* the evictor's SpikeTracker (`victims`, private, on disk).               *)
(*                                                                         *)
(* Grain: a lock section is one step; a signal is one step, together with  *)
(* the start-time comparison that freeze_checked / unfreeze_checked make   *)
(* just before kill(2).  Whatever happens between two lock sections, or    *)
(* between a lock section and a signal, is a separate step; the SIGCONTs   *)
(* of the evictor's last loop, all guarded, are one.                       *)
(***************************************************************************)
EXTENDS Naturals, FiniteSets

CONSTANTS
    Pids,          \* process ids mgd may act on
    NoPid,         \* get_active_foreground_pid() = None
    MaxGen,        \* bound: processes that may live under one pid, in turn
    MaxUnfreeze,   \* MAX_UNFREEZE_PER_CYCLE
    Freezers,      \* connection threads serving `mgctl freeze`
    Unfreezers,    \* connection threads serving `mgctl unfreeze`
    Focusers,      \* threads spawned by ActiveWindow; {} = no DE plugin
    IdleFreeze,    \* idle_reclaim_freeze_after_sec is set
    SpikeMode,     \* spike_mode_enabled
    VictimTimeout, \* spike_max_victim_freeze_sec > 0
    MayShutdown,   \* SIGTERM may arrive
    MayCrash,      \* the daemon may be killed, and is then restarted
    TornSaves      \* a kill inside write_file_atomic tears the file

ASSUME PidsAssumption == NoPid \notin Pids
ASSUME BoundsAssumption == MaxGen \in Nat \ {0} /\ MaxUnfreeze \in Nat \ {0}
ASSUME ThreadsAssumption ==
    Freezers \cap Unfreezers = {} /\ (Freezers \cup Unfreezers) \cap Focusers = {}
ASSUME SwitchesAssumption ==
    {IdleFreeze, SpikeMode, VictimTimeout, MayShutdown, MayCrash, TornSaves}
        \subseteq BOOLEAN

Threads == Freezers \cup Unfreezers \cup Focusers

VARIABLES
    alive,    \* the pid names a live process
    born,     \* its start_time: the generation living (or last seen) there
    stopped,  \* SIGSTOPped
    frozen,   \* FrozenRegistry: start_time recorded for the pid, 0 = absent
    aged,     \* registered at least MIN_FREEZE_AGE_SECS ago
    victims,  \* SpikeTracker.victims and spike_victims.json, 0 = absent
    tracking, \* some spike is in the Tracking phase
    requests, \* spike_release_requests
    snapshot, \* victims in the published SpikeSnapshot
    active,   \* ACTIVE_FOREGROUND_PID
    ev,       \* the evictor's program counter and locals
    rec,      \* the recovery manager's program counter
    doorbell, \* the flag of recovery_wake
    conn,     \* program counters and locals of Threads
    daemon,   \* life of the daemon process
    sweep     \* what main still has to SIGCONT, at startup or shutdown

procs  == <<alive, born, stopped>>
reg    == <<frozen, aged>>
spikes == <<victims, tracking, requests, snapshot>>
vars   == <<alive, born, stopped, frozen, aged, victims, tracking, requests,
            snapshot, active, ev, rec, doorbell, conn, daemon, sweep>>

Gens == 0..MaxGen
None == [p \in Pids |-> 0]

(***************************************************************************)
(* The passes of one evictor cycle, by what woke it: a PSI timeout (calm), *)
(* or a full cycle whose effective level is Normal or higher.              *)
(***************************************************************************)
PassNames == {"focus", "idle", "exited", "timedout", "requested", "update", "plan"}
Paths == {"calm", "normal", "pressure"}

FirstPass(path) == IF path = "calm" THEN "exited" ELSE "focus"
NextPass(path, pass) ==
    CASE pass = "focus"     -> IF path = "normal" THEN "idle" ELSE "exited"
      [] pass = "exited"    -> "timedout"
      [] pass = "timedout"  -> "requested"
      [] pass = "requested" -> "update"
      [] pass = "update" /\ path = "calm"     -> "idle"
      [] pass = "update" /\ path = "pressure" -> "plan"
      [] pass = "idle" /\ path = "normal"     -> "exited"
      [] OTHER -> "none"

EvInit == [pc |-> "top", path |-> "normal", pass |-> "none", seen |-> NoPid,
           pid |-> NoPid, st |-> 0, todo |-> {}, rel |-> None, manual |-> {}]
ConnInit == [t \in Threads |-> [pc |-> "idle", pid |-> NoPid, st |-> 0]]

EvStates ==
    [pc : {"top", "pass", "cont", "drop", "release", "loop", "signal", "record",
           "undo", "exit"},
     path : Paths, pass : PassNames \cup {"none"}, seen : Pids \cup {NoPid},
     pid : Pids \cup {NoPid}, st : Gens, todo : SUBSET Pids,
     rel : [Pids -> Gens], manual : SUBSET Pids]
ConnStates == [pc : {"idle", "signal", "add", "cont", "drop"},
               pid : Pids \cup {NoPid}, st : Gens]

TypeOK ==
    /\ alive \in [Pids -> BOOLEAN]
    /\ born \in [Pids -> Gens]
    /\ stopped \in [Pids -> BOOLEAN]
    /\ frozen \in [Pids -> Gens]
    /\ aged \in [Pids -> BOOLEAN]
    /\ victims \in [Pids -> Gens]
    /\ tracking \in BOOLEAN
    /\ requests \subseteq Pids
    /\ snapshot \subseteq Pids
    /\ active \in Pids \cup {NoPid}
    /\ ev \in EvStates
    /\ rec \in {"check", "wait", "pass", "exit"}
    /\ doorbell \in BOOLEAN
    /\ conn \in [Threads -> ConnStates]
    /\ daemon \in {"run", "stopping", "sweep", "exited", "down", "starting"}
    /\ sweep \in [Pids -> Gens]

Init ==
    /\ alive = [p \in Pids |-> TRUE]
    /\ born = [p \in Pids |-> 1]
    /\ stopped = [p \in Pids |-> FALSE]
    /\ frozen = None
    /\ aged = [p \in Pids |-> FALSE]
    /\ victims = None
    /\ tracking = FALSE
    /\ requests = {}
    /\ snapshot = {}
    /\ active = NoPid
    /\ ev = EvInit
    /\ rec = "check"
    /\ doorbell = FALSE
    /\ conn = ConnInit
    /\ daemon = "run"
    /\ sweep = None

-----------------------------------------------------------------------------
(* Signals and the registry.                                               *)

\* read_start_time: Some(generation), or None (0) when the process is gone.
StartTime(p) == IF alive[p] THEN born[p] ELSE 0

\* unfreeze_checked succeeds as a no-op when the process is gone or recycled.
Unfreeze(p, st) ==
    stopped' = [stopped EXCEPT ![p] = @ /\ StartTime(p) # st]

\* FrozenRegistry::add re-reads the start time; false when the process is gone.
RegistryAdd(p) ==
    IF alive[p]
    THEN /\ frozen' = [frozen EXCEPT ![p] = born[p]]
         /\ aged' = [aged EXCEPT ![p] = FALSE]
    ELSE UNCHANGED reg

RegistryRemove(S) ==
    /\ frozen' = [p \in Pids |-> IF p \in S THEN 0 ELSE frozen[p]]
    /\ aged' = [p \in Pids |-> p \notin S /\ aged[p]]

Registered == {p \in Pids : frozen[p] # 0}
Victims == {p \in Pids : victims[p] # 0}

\* Mutated form of Candidates: the registered pids are not excluded.
CandidatesFrozenToo == {p \in Pids : alive[p]} \ Victims

\* excluded_pids: registered and victim pids are never candidates.
Candidates == {p \in Pids : alive[p]} \ (Registered \cup Victims)

-----------------------------------------------------------------------------
(* The evictor.                                                            *)

In(pass) == daemon \in {"run", "stopping"} /\ ev.pc = "pass" /\ ev.pass = pass
At(pc) == daemon \in {"run", "stopping"} /\ ev.pc = pc

PassOver ==
    LET next == NextPass(ev.path, ev.pass) IN
    [ev EXCEPT !.pc = IF next = "none" THEN "top" ELSE "pass",
               !.pass = next, !.pid = NoPid, !.st = 0]

\* Top of the loop.  A PSI timeout is only waited for after a Normal cycle.
EvTop(path) ==
    /\ At("top") /\ daemon = "run"
    /\ path = "calm" => ev.path # "pressure"
    /\ ev' = [ev EXCEPT !.pc = "pass", !.path = path,
                        !.pass = FirstPass(path)]
    /\ UNCHANGED <<procs, reg, spikes, active, rec, doorbell, conn, daemon, sweep>>

\* Mutated form of EvShutdown: the victims are left to the final sweep.
EvShutdownKeepsVictims ==
    /\ At("top") /\ daemon = "stopping"
    /\ ev' = [ev EXCEPT !.pc = "exit"]
    /\ UNCHANGED <<procs, reg, spikes, active, rec, doorbell, conn, daemon, sweep>>

\* should_shutdown: every spike victim gets SIGCONT, the registry is main's.
EvShutdown ==
    /\ At("top") /\ daemon = "stopping"
    /\ stopped' = [p \in Pids |-> stopped[p] /\ (victims[p] # 0 => StartTime(p) # victims[p])]
    /\ ev' = [ev EXCEPT !.pc = "exit"]
    /\ UNCHANGED <<alive, born, reg, spikes, active, rec, doorbell, conn, daemon, sweep>>

\* Focus change: read the entry under the lock, and release the lock ...
EvFocus ==
    /\ In("focus")
    /\ ev' = IF active # ev.seen /\ active \in Registered
             THEN [ev EXCEPT !.pc = "cont", !.seen = active,
                             !.pid = active, !.st = frozen[active]]
             ELSE [PassOver EXCEPT !.seen = active]
    /\ UNCHANGED <<procs, reg, spikes, active, rec, doorbell, conn, daemon, sweep>>

\* ... SIGCONT ...
EvFocusCont ==
    /\ At("cont")
    /\ Unfreeze(ev.pid, ev.st)
    /\ ev' = [ev EXCEPT !.pc = "drop"]
    /\ UNCHANGED <<alive, born, reg, spikes, active, rec, doorbell, conn, daemon, sweep>>

\* ... and take the lock again to remove whatever entry the pid has now.
EvFocusDrop ==
    /\ At("drop")
    /\ RegistryRemove({ev.pid})
    /\ ev' = PassOver
    /\ UNCHANGED <<procs, spikes, active, rec, doorbell, conn, daemon, sweep>>

\* Mutated form of Drain: the drained victims are forgotten, not released.
DrainForgets(S, manual) ==
    /\ victims' = [p \in Pids |-> IF p \in S THEN 0 ELSE victims[p]]
    /\ ev' = [ev EXCEPT !.pc = "release", !.manual = manual, !.rel = None]

\* Victims in S leave the tracker and its file; only then are they SIGCONTed.
Drain(S, manual) ==
    /\ victims' = [p \in Pids |-> IF p \in S THEN 0 ELSE victims[p]]
    /\ ev' = [ev EXCEPT !.pc = "release", !.manual = manual,
                        !.rel = [p \in Pids |-> IF p \in S THEN victims[p] ELSE 0]]

\* Mutated form of EvExited: victims go while a spike tracks, not after.
EvExitedInverted ==
    /\ In("exited")
    /\ \E t \in BOOLEAN :
        /\ t => tracking
        /\ tracking' = t
        /\ Drain(IF t THEN Victims ELSE {}, requests)
    /\ requests' = {}
    /\ UNCHANGED <<procs, reg, snapshot, active, rec, doorbell, conn, daemon, sweep>>

\* Mutated form of EvExited: the queue is cleared, its pids are not kept.
EvExitedDropsRequests ==
    /\ In("exited")
    /\ \E t \in BOOLEAN :
        /\ t => tracking
        /\ tracking' = t
        /\ Drain(IF t THEN {} ELSE Victims, {})
    /\ requests' = {}
    /\ UNCHANGED <<procs, reg, snapshot, active, rec, doorbell, conn, daemon, sweep>>

\* Take the queued requests; spikes may have exited, and victims that no
\* Tracking spike needs (on_spike_exit, drain_orphaned_victims) go.
EvExited ==
    /\ In("exited")
    /\ \E t \in BOOLEAN :
        /\ t => tracking
        /\ tracking' = t
        /\ Drain(IF t THEN {} ELSE Victims, requests)
    /\ requests' = {}
    /\ UNCHANGED <<procs, reg, snapshot, active, rec, doorbell, conn, daemon, sweep>>

EvTimedOut ==
    /\ In("timedout")
    /\ \E S \in SUBSET Victims :
        /\ S # {} => VictimTimeout
        /\ Drain(S, ev.manual)
    /\ UNCHANGED <<procs, reg, tracking, requests, snapshot, active, rec,
                   doorbell, conn, daemon, sweep>>

EvRequested ==
    /\ In("requested")
    /\ Drain(ev.manual \cap Victims, {})
    /\ UNCHANGED <<procs, reg, tracking, requests, snapshot, active, rec,
                   doorbell, conn, daemon, sweep>>

\* SpikeTracker::update: demotion of the last Tracking spike drains the
\* victims, otherwise missing headroom freezes more.
EvUpdate ==
    /\ In("update")
    /\ \E t \in BOOLEAN :
        /\ t => SpikeMode
        /\ tracking' = t
        /\ IF t
           THEN /\ \E S \in SUBSET (Candidates \ {active}) :
                      ev' = [ev EXCEPT !.pc = "loop", !.todo = S]
                /\ UNCHANGED victims
           ELSE Drain(IF tracking THEN Victims ELSE {}, {})
    /\ UNCHANGED <<procs, reg, requests, snapshot, active, rec, doorbell, conn,
                   daemon, sweep>>

EvIdle ==
    /\ In("idle")
    /\ \E S \in SUBSET (Candidates \ {active}) :
        /\ S # {} => IdleFreeze
        /\ ev' = [ev EXCEPT !.pc = "loop", !.todo = S]
    /\ UNCHANGED <<procs, reg, spikes, active, rec, doorbell, conn, daemon, sweep>>

\* plan(): no decision ends the cycle; otherwise some decisions are freezes.
EvPlan ==
    /\ In("plan")
    /\ \/ ev' = PassOver
       \/ \E S \in SUBSET Candidates : ev' = [ev EXCEPT !.pc = "loop", !.todo = S]
    /\ UNCHANGED <<procs, reg, spikes, active, rec, doorbell, conn, daemon, sweep>>

\* The next process of a freezing loop: execute_plan skips registered pids,
\* every loop skips a process whose start time cannot be read.
EvPick(p) ==
    /\ At("loop") /\ p \in ev.todo
    /\ ev' = IF StartTime(p) = 0 \/ (ev.pass = "plan" /\ p \in Registered)
             THEN [ev EXCEPT !.todo = @ \ {p}]
             ELSE [ev EXCEPT !.pc = "signal", !.pid = p, !.st = StartTime(p),
                             !.todo = @ \ {p}]
    /\ UNCHANGED <<procs, reg, spikes, active, rec, doorbell, conn, daemon, sweep>>

\* Mutated form of EvSignal: freeze instead of freeze_checked.
EvSignalUnchecked ==
    /\ At("signal")
    /\ IF alive[ev.pid]
       THEN /\ stopped' = [stopped EXCEPT ![ev.pid] = TRUE]
            /\ ev' = [ev EXCEPT !.pc = "record"]
       ELSE /\ ev' = [ev EXCEPT !.pc = "loop", !.pid = NoPid, !.st = 0]
            /\ UNCHANGED stopped
    /\ UNCHANGED <<alive, born, reg, spikes, active, rec, doorbell, conn, daemon, sweep>>

\* freeze_checked.
EvSignal ==
    /\ At("signal")
    /\ IF StartTime(ev.pid) = ev.st
       THEN /\ stopped' = [stopped EXCEPT ![ev.pid] = TRUE]
            /\ ev' = [ev EXCEPT !.pc = "record"]
       ELSE /\ ev' = [ev EXCEPT !.pc = "loop", !.pid = NoPid, !.st = 0]
            /\ UNCHANGED stopped
    /\ UNCHANGED <<alive, born, reg, spikes, active, rec, doorbell, conn, daemon, sweep>>

\* record_victim_frozen, or FrozenRegistry::add, which may refuse ...
EvRecord ==
    /\ At("record")
    /\ IF ev.pass = "update"
       THEN victims' = [victims EXCEPT ![ev.pid] = ev.st] /\ UNCHANGED reg
       ELSE RegistryAdd(ev.pid) /\ UNCHANGED victims
    /\ ev' = IF ev.pass # "update" /\ ~alive[ev.pid]
             THEN [ev EXCEPT !.pc = "undo"]
             ELSE [ev EXCEPT !.pc = "loop", !.pid = NoPid, !.st = 0]
    /\ UNCHANGED <<procs, tracking, requests, snapshot, active, rec, doorbell,
                   conn, daemon, sweep>>

\* ... and then whoever has the pid by now gets an unguarded SIGCONT.
EvUndo ==
    /\ At("undo")
    /\ stopped' = [stopped EXCEPT ![ev.pid] = FALSE]
    /\ ev' = [ev EXCEPT !.pc = "loop", !.pid = NoPid, !.st = 0]
    /\ UNCHANGED <<alive, born, reg, spikes, active, rec, doorbell, conn, daemon, sweep>>

EvRelease(p) ==
    /\ At("release") /\ ev.rel[p] # 0
    /\ Unfreeze(p, ev.rel[p])
    /\ ev' = [ev EXCEPT !.rel[p] = 0]
    /\ UNCHANGED <<alive, born, reg, spikes, active, rec, doorbell, conn, daemon, sweep>>

\* Mutated form of EvDone: nobody rings the doorbell.
EvDoneSilent ==
    /\ \/ At("loop") /\ ev.todo = {}
       \/ At("release") /\ ev.rel = None
    /\ ev' = PassOver
    /\ snapshot' = IF ev.pass = "update" THEN Victims ELSE snapshot
    /\ UNCHANGED <<procs, reg, victims, tracking, requests, active, rec, doorbell,
                   conn, daemon, sweep>>

\* A pass is over.  The spike cycle publishes its snapshot; a plan that was
\* executed rings the doorbell of the recovery manager.
EvDone ==
    /\ \/ At("loop") /\ ev.todo = {}
       \/ At("release") /\ ev.rel = None
    /\ ev' = PassOver
    /\ snapshot' = IF ev.pass = "update" THEN Victims ELSE snapshot
    /\ doorbell' = (doorbell \/ ev.pass = "plan")
    /\ UNCHANGED <<procs, reg, victims, tracking, requests, active, rec, conn,
                   daemon, sweep>>

Evictor ==
    \/ \E path \in Paths : EvTop(path)
    \/ EvShutdown \/ EvFocus \/ EvFocusCont \/ EvFocusDrop
    \/ EvExited \/ EvTimedOut \/ EvRequested \/ EvUpdate \/ EvIdle \/ EvPlan
    \/ \E p \in Pids : EvPick(p) \/ EvRelease(p)
    \/ EvSignal \/ EvRecord \/ EvUndo \/ EvDone

-----------------------------------------------------------------------------
(* Connection threads and ActiveWindow threads.  They are detached: a      *)
(* connection that was accepted is served until the process exits.         *)

Serving == daemon \in {"run", "stopping", "sweep"}

ThreadAt(t, pc) == Serving /\ conn[t].pc = pc
ThreadTo(t, pc, p, st) == conn' = [conn EXCEPT ![t] = [pc |-> pc, pid |-> p, st |-> st]]
ThreadDone(t) == ThreadTo(t, "idle", NoPid, 0)

\* cmd_freeze: is_frozen under the lock ...
FreezeCheck(t, p) ==
    /\ ThreadAt(t, "idle")
    /\ alive[p] /\ p \notin Registered
    /\ ThreadTo(t, "signal", p, 0)
    /\ UNCHANGED <<procs, reg, spikes, active, ev, rec, doorbell, daemon, sweep>>

\* ... an unguarded SIGSTOP, which fails only if nobody has the pid ...
FreezeSignal(t) ==
    /\ ThreadAt(t, "signal")
    /\ IF alive[conn[t].pid]
       THEN /\ stopped' = [stopped EXCEPT ![conn[t].pid] = TRUE]
            /\ ThreadTo(t, "add", conn[t].pid, 0)
       ELSE ThreadDone(t) /\ UNCHANGED stopped
    /\ UNCHANGED <<alive, born, reg, spikes, active, ev, rec, doorbell, daemon, sweep>>

\* ... and the lock again, to register whoever has the pid now.
FreezeAdd(t) ==
    /\ ThreadAt(t, "add")
    /\ RegistryAdd(conn[t].pid)
    /\ ThreadDone(t)
    /\ UNCHANGED <<procs, spikes, active, ev, rec, doorbell, daemon, sweep>>

\* cmd_unfreeze of a registered pid: copy the entry under the lock ...
UnfreezeRead(t, p) ==
    /\ ThreadAt(t, "idle")
    /\ p \in Registered
    /\ ThreadTo(t, "cont", p, frozen[p])
    /\ UNCHANGED <<procs, reg, spikes, active, ev, rec, doorbell, daemon, sweep>>

\* ... SIGCONT without it ...
UnfreezeCont(t) ==
    /\ ThreadAt(t, "cont")
    /\ Unfreeze(conn[t].pid, conn[t].st)
    /\ ThreadTo(t, "drop", conn[t].pid, conn[t].st)
    /\ UNCHANGED <<alive, born, reg, spikes, active, ev, rec, doorbell, daemon, sweep>>

\* ... and remove the entry the pid has by then.
UnfreezeDrop(t) ==
    /\ ThreadAt(t, "drop")
    /\ RegistryRemove({conn[t].pid})
    /\ ThreadDone(t)
    /\ UNCHANGED <<procs, spikes, active, ev, rec, doorbell, daemon, sweep>>

\* cmd_unfreeze of a pid the published snapshot shows as a victim.
RequestRelease(p) ==
    /\ Serving
    /\ p \notin Registered /\ p \in snapshot
    /\ requests' = requests \cup {p}
    /\ UNCHANGED <<procs, reg, victims, tracking, snapshot, active, ev, rec,
                   doorbell, conn, daemon, sweep>>

\* The DE plugin reports a focus change; a registered pid gets a thread.
ActiveWindow(p) ==
    /\ Focusers # {} /\ Serving
    /\ active # p
    /\ active' = p
    /\ IF p \in Registered
       THEN \E t \in Focusers : ThreadAt(t, "idle") /\ ThreadTo(t, "cont", p, frozen[p])
       ELSE UNCHANGED conn
    /\ UNCHANGED <<procs, reg, spikes, ev, rec, doorbell, daemon, sweep>>

ThreadStep(t) ==
    FreezeSignal(t) \/ FreezeAdd(t) \/ UnfreezeCont(t) \/ UnfreezeDrop(t)

Commands ==
    \/ \E t \in Freezers, p \in Pids : FreezeCheck(t, p)
    \/ \E t \in Unfreezers, p \in Pids : UnfreezeRead(t, p)
    \/ \E p \in Pids : RequestRelease(p)
    \/ \E p \in Pids \cup {NoPid} : ActiveWindow(p)

-----------------------------------------------------------------------------
(* The recovery manager.                                                   *)

RecoveryAt(pc) == daemon \in {"run", "stopping"} /\ rec = pc

\* Loop top and wait_for_work; nothing is checkpointed in this model.
RecCheck ==
    /\ RecoveryAt("check")
    /\ rec' = IF daemon = "stopping" THEN "exit"
              ELSE IF Registered = {} THEN "wait" ELSE "pass"
    /\ UNCHANGED <<procs, reg, spikes, active, ev, doorbell, conn, daemon, sweep>>

\* Only the flag ends the wait; its 5 s timeout looks at should_shutdown.
RecWake ==
    /\ RecoveryAt("wait")
    /\ \/ daemon = "stopping" /\ rec' = "exit" /\ UNCHANGED doorbell
       \/ daemon = "run" /\ doorbell /\ rec' = "pass" /\ doorbell' = FALSE
    /\ UNCHANGED <<procs, reg, spikes, active, ev, conn, daemon, sweep>>

\* Pressure is not Normal, RAM is short, nothing is due, or shutdown.
RecSkip ==
    /\ RecoveryAt("pass")
    /\ rec' = "check"
    /\ UNCHANGED <<procs, reg, spikes, active, ev, doorbell, conn, daemon, sweep>>

Due == {p \in Registered : aged[p]}

\* Mutated form of RecRelease: the cap limits the signals, not the removals.
RecReleaseCapsSignalsOnly ==
    /\ RecoveryAt("pass")
    /\ \E S \in SUBSET Due :
        /\ S # {}
        /\ S = Due \/ Cardinality(S) = MaxUnfreeze
        /\ Cardinality(S) <= MaxUnfreeze
        /\ stopped' = [p \in Pids |-> stopped[p] /\ (p \in S => StartTime(p) # frozen[p])]
        /\ RegistryRemove(Due)
    /\ rec' = "check"
    /\ UNCHANGED <<alive, born, spikes, active, ev, doorbell, conn, daemon, sweep>>

\* unfreeze_pass: due entries in HashMap order up to the cap, SIGCONTed and
\* removed under one lock.
RecRelease ==
    /\ RecoveryAt("pass")
    /\ \E S \in SUBSET Due :
        /\ S # {}
        /\ S = Due \/ Cardinality(S) = MaxUnfreeze
        /\ Cardinality(S) <= MaxUnfreeze
        /\ stopped' = [p \in Pids |-> stopped[p] /\ (p \in S => StartTime(p) # frozen[p])]
        /\ RegistryRemove(S)
    /\ rec' = "check"
    /\ UNCHANGED <<alive, born, spikes, active, ev, doorbell, conn, daemon, sweep>>

Recovery == RecCheck \/ RecWake \/ RecSkip \/ RecRelease

-----------------------------------------------------------------------------
(* Processes, time, and the daemon's own life.                             *)

Die(p) ==
    /\ alive[p]
    /\ alive' = [alive EXCEPT ![p] = FALSE]
    /\ stopped' = [stopped EXCEPT ![p] = FALSE]
    /\ UNCHANGED <<born, reg, spikes, active, ev, rec, doorbell, conn, daemon, sweep>>

\* The pid is reused by another process.
Spawn(p) ==
    /\ ~alive[p] /\ born[p] < MaxGen
    /\ alive' = [alive EXCEPT ![p] = TRUE]
    /\ born' = [born EXCEPT ![p] = @ + 1]
    /\ UNCHANGED <<stopped, reg, spikes, active, ev, rec, doorbell, conn, daemon, sweep>>

Age(p) ==
    /\ frozen[p] # 0 /\ ~aged[p]
    /\ aged' = [aged EXCEPT ![p] = TRUE]
    /\ UNCHANGED <<procs, frozen, spikes, active, ev, rec, doorbell, conn, daemon, sweep>>

SigTerm ==
    /\ MayShutdown /\ daemon = "run"
    /\ daemon' = "stopping"
    /\ UNCHANGED <<procs, reg, spikes, active, ev, rec, doorbell, conn, sweep>>

\* Mutated form of SweepCollect: main does not wait for the evictor.
SweepCollectEarly ==
    /\ daemon = "stopping" /\ rec = "exit"
    /\ daemon' = "sweep"
    /\ sweep' = frozen
    /\ UNCHANGED <<procs, reg, spikes, active, ev, rec, doorbell, conn>>

\* main has joined the threads: shutdown_unfreeze copies the registry.
SweepCollect ==
    /\ daemon = "stopping" /\ ev.pc = "exit" /\ rec = "exit"
    /\ daemon' = "sweep"
    /\ sweep' = frozen
    /\ UNCHANGED <<procs, reg, spikes, active, ev, rec, doorbell, conn>>

\* One unfreeze_checked of the shutdown sweep, or of the startup one.
SweepOne(p) ==
    /\ daemon \in {"sweep", "starting"} /\ sweep[p] # 0
    /\ Unfreeze(p, sweep[p])
    /\ sweep' = [sweep EXCEPT ![p] = 0]
    /\ UNCHANGED <<alive, born, reg, spikes, active, ev, rec, doorbell, conn, daemon>>

\* main returns, which ends every detached thread; the files stay.
Exit ==
    /\ daemon = "sweep" /\ sweep = None
    /\ daemon' = "exited"
    /\ conn' = ConnInit
    /\ UNCHANGED <<procs, reg, spikes, active, ev, rec, doorbell, sweep>>

\* Some thread is inside FrozenRegistry::save or persist_victims.
SavingFrozen ==
    \/ At("record") /\ ev.pass # "update"
    \/ At("drop")
    \/ \E t \in Threads : conn[t].pc \in {"add", "drop"}
    \/ RecoveryAt("pass") /\ Due # {}
SavingVictims ==
    \/ At("record") /\ ev.pass = "update"
    \/ Victims # {} /\ \E pass \in {"exited", "timedout", "requested", "update"} : In(pass)

\* The daemon is killed.  write_file_atomic truncates and then writes, so a
\* file being saved may be left unparsable, which loads as empty.
Crash ==
    /\ MayCrash /\ daemon \in {"run", "stopping", "sweep", "starting"}
    /\ \/ UNCHANGED <<reg, victims>>
       \/ TornSaves /\ SavingFrozen /\ RegistryRemove(Pids) /\ UNCHANGED victims
       \/ TornSaves /\ SavingVictims /\ victims' = None /\ UNCHANGED reg
    /\ daemon' = "down"
    /\ tracking' = FALSE /\ requests' = {} /\ snapshot' = {} /\ active' = NoPid
    /\ ev' = EvInit /\ rec' = "check" /\ doorbell' = FALSE /\ conn' = ConnInit
    /\ sweep' = None
    /\ UNCHANGED procs

\* Mutated form of Start: FrozenRegistry::new instead of load.
StartEmpty ==
    /\ MayCrash /\ daemon \in {"down", "exited"}
    /\ daemon' = "starting"
    /\ sweep' = victims
    /\ victims' = None
    /\ RegistryRemove(Pids)
    /\ tracking' = FALSE /\ requests' = {} /\ snapshot' = {} /\ active' = NoPid
    /\ ev' = EvInit /\ rec' = "check" /\ doorbell' = FALSE
    /\ UNCHANGED <<procs, conn>>

\* initialize: the registry is loaded; spike_victims.json is read, deleted,
\* and only then are its processes SIGCONTed.
Start ==
    /\ MayCrash /\ daemon \in {"down", "exited"}
    /\ daemon' = "starting"
    /\ sweep' = victims
    /\ victims' = None
    /\ tracking' = FALSE /\ requests' = {} /\ snapshot' = {} /\ active' = NoPid
    /\ ev' = EvInit /\ rec' = "check" /\ doorbell' = FALSE
    /\ UNCHANGED <<procs, reg, conn>>

Started ==
    /\ daemon = "starting" /\ sweep = None
    /\ daemon' = "run"
    /\ UNCHANGED <<procs, reg, spikes, active, ev, rec, doorbell, conn, sweep>>

Main == SweepCollect \/ Exit \/ Started \/ \E p \in Pids : SweepOne(p)

Environment ==
    \/ \E p \in Pids : Die(p) \/ Spawn(p) \/ Age(p)
    \/ SigTerm \/ Crash \/ Start

Next ==
    \/ Evictor \/ Recovery \/ Commands \/ Main \/ Environment
    \/ \E t \in Threads : ThreadStep(t)

Spec == Init /\ [][Next]_vars

\* Threads keep running; time passes; and pressure and RAM let the recovery
\* manager act again and again while it has due entries to look at.
Fairness ==
    /\ WF_vars(Evictor)
    /\ WF_vars(Recovery) /\ SF_vars(RecRelease)
    /\ WF_vars(Main)
    /\ \A t \in Threads : WF_vars(ThreadStep(t))
    /\ \A p \in Pids : WF_vars(Age(p))

FairSpec == Spec /\ Fairness
-----------------------------------------------------------------------------
(* Properties.                                                             *)

\* Somebody will still SIGCONT the process that has pid p now: a registry
\* entry or victim record with its start time, a thread about to write one,
\* or a list of processes a thread is working through.
Tracked(p) ==
    \/ born[p] \in {frozen[p], victims[p], sweep[p]}
    \/ ev.pc = "release" /\ ev.rel[p] = born[p]
    \/ ev.pc = "record" /\ ev.pid = p /\ (ev.pass = "update" => ev.st = born[p])
    \/ \E t \in Threads : conn[t].pc = "add" /\ conn[t].pid = p

\* No process is stopped that the running daemon has lost track of, whatever
\* freezes, unfreezes, exits and reuses of the pid come in between.
StoppedIsTracked ==
    daemon \in {"run", "stopping", "sweep"} =>
        \A p \in Pids : stopped[p] => Tracked(p)

\* When the daemon has shut down, it has left no process stopped (evictor and
\* main share the work: victims first, then the registry).
ShutdownLeavesNoneStopped ==
    daemon = "exited" => \A p \in Pids : ~stopped[p]

\* What the daemon promises a user: it closes and goes down as ProcessHold
\* says, and never stops a process while main is sweeping.
Hold == INSTANCE ProcessHold WITH
            held <- {p \in Pids : stopped[p]},
            phase <- CASE daemon \in {"run", "stopping"} -> "up"
                       [] daemon = "sweep" -> "closing"
                       [] OTHER -> "down"
ImplementsProcessHold == Hold!Spec

\* The registry and the spike tracker never hold the same pid, so that one of
\* them letting a process run never defeats the other's reason to hold it.
NoDoubleHold == Registered \cap Victims = {}

\* A kill that may have torn a file, and so is excepted below.
TornKill == TornSaves /\ daemon' = "down"

\* An entry leaves the registry, and its file, only when its process runs:
\* no thread, restart or pid reuse forgets a process that is still stopped.
RegistryEntryOutlivesStop ==
    [][\A p \in Pids :
         stopped[p] /\ frozen[p] = born[p] /\ frozen'[p] # frozen[p]
            => ~stopped'[p] \/ TornKill]_vars

\* A victim record that goes away while its process is stopped is in the
\* hands of the thread that is about to SIGCONT it.
VictimHandedOver ==
    [][\A p \in Pids :
         stopped[p] /\ victims[p] = born[p] /\ victims'[p] = 0
            => \/ ~stopped'[p] \/ TornKill
               \/ born[p] \in {ev'.rel[p], sweep'[p]}]_vars

\* A process frozen by a plan is let go again: the doorbell has woken the
\* recovery manager, whoever else unfreezes and unregisters it meanwhile.
FrozenReleased == \A p \in Pids : frozen[p] # 0 ~> frozen[p] = 0

\* Once no spike is Tracking any more, every victim runs again.
VictimsReleased ==
    <>[]~tracking => \A p \in Pids : victims[p] # 0 ~> ~stopped[p]

\* A release queued by `mgctl unfreeze` takes effect on some later cycle, even
\* while the spike goes on.
RequestHonoured == \A p \in Pids : p \in requests /\ victims[p] # 0 ~> victims[p] = 0
=============================================================================
