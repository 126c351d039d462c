# Verification of mgd (lmkd-linux)

mgd is a user-space low-memory daemon: it watches PSI, and under pressure it
freezes, checkpoints, throttles, terminates or kills processes in priority
order and lets them come back when pressure clears. This directory holds TLA+
models of its core, the TLC configurations that check them on small instances,
and theorems proved with TLAPS. Paths are relative to the repository root;
`ev` stands for `mgd/src/evictor/mod.rs`.

Contents: 1 inventory, 2 modules and the code they model, 3 runs, 4 proofs,
5 divergences found, 6 what is abstracted or not modelled, 7 plan, 8 how to
run.

## 1. Inventory

### Threads and what they share

| Thread | Code | Does |
|---|---|---|
| evictor | `evictor/*` | reads PSI and /proc, computes the pressure level, throttles, caps, reclaims, runs the spike mode and the leak guard, plans and executes evictions |
| recovery manager | `recovery.rs` | waits for something frozen or checkpointed, and at raw PSI Normal unfreezes (at most 4 per cycle, not before 15 s) and restores (one at a time, at most 3 attempts) |
| IPC | `ipc.rs` | accept loop, one detached thread per connection (at most 32): `mgctl` commands and plugin connections |
| maintenance | `maintenance.rs` | calibration, health baseline, automatic kill of idle processes, reclaim of swap, plugin restarts |
| main | `main.rs`, `init.rs` | loads the registries, releases persisted spike victims, starts the threads, joins them after SIGTERM, and sends SIGCONT to all that is in the frozen registry |
| detached | `plugin_server.rs`, `executor/execute.rs` | unfreezing the focused window; SIGTERM followed by SIGKILL five seconds later |

They share, behind mutexes, `FrozenRegistry` and `CheckpointRegistry` (both
written to disk at every change), two condition variables (`recovery_wake`,
`reclaim_wake`), the queue `spike_release_requests`, snapshots for `mgctl
status`, the event log, and the atomics `ACTIVE_FOREGROUND_PID`, `should_shutdown`
and `should_reload`. A mutex is held for a lookup or a change, except
that `restore_pass` holds the checkpoint registry through a whole CRIU restore.
The threads that act take one lock at a time; the
commands that print (`status`, `list`, `explain`) hold the frozen registry while
they take others, always that one first, so there is no cycle of locks, although
they order the throttle snapshot and the checkpoint registry both ways
(`ipc.rs:330-346` and `:539-541`).

### Components, what makes each correct, and what is hard about it

| Component | State | Correct when | Hard because |
|---|---|---|---|
| freezing (`executor/freezer.rs`, `executor/registry.rs`, `evictor/{execute,spike,idle_reclaim}.rs`, `recovery.rs`, `ipc.rs`, `plugin_server.rs`, `main.rs`) | frozen registry, spike victims, their files | nobody stays stopped who nobody remembers; no pid is signalled that has changed its owner; everybody is released in the end | six kinds of threads signal and record in separate lock sections; pids are reused; the daemon may die between signal and record |
| pressure control (`evictor/scoring.rs`, `ev`) | state machine, counts, two timers | the level climbs and falls on persistent demand only, and returns to Normal | damping, overrides and timers interact over many cycles, and the evictor does not read at all while it waits |
| checkpointing (`executor/checkpoint.rs`, `recovery.rs`, `ipc.rs`, `init.rs`, `mgd-checkpoint`) | snapshot directories, checkpoint registry | a process that was put away comes back, and once only | three threads restore and remove by pid and name; startup deletes what the registry does not name |
| cgroup limits (`throttle.rs`, `spike_mode.rs`, `evictor/spike.rs`) | `cpu.weight`, `cpu.max`, `memory.max`, and three books of them | what is limited is limited no longer than its reason | three managers write the same cgroups, each undoing what its own book says |
| eviction planning (`engine/decision.rs`) | none | the deficit is covered and no more, in the order of priorities; protected processes are spared | order, sparing and stopping depend on one another; the focus changes priorities |
| plan execution and killing (`evictor/execute.rs`, `executor/killer.rs`) | cgroups that rest for 45 s, names with a failed dump, SIGTERM threads | the signal reaches the process that was chosen, once | processes end, freeze and give up their pids between plan and signal, and in the five seconds between SIGTERM and SIGKILL |
| spike mode (`spike_mode.rs`, `evictor/spike.rs`) | a state per pid with a window of samples, victims, cooldowns | what it tracks has swung, victims are held while a spike needs the room, no longer, and not again at once | phases change with samples over a window, under pids that change owners and a mode that is switched off and on |
| leak guard (`leak_guard.rs`, `evictor/leak.rs`) | a window of counts per family, cooldowns | only families that grew are reaped, oldest members first | the family changes between two looks, pids wrap |
| maintenance (`maintenance.rs`, `engine/health.rs`, `engine/calibrate.rs`) | baseline, evidence and its file, last activity, cooldowns | only idle processes are ended, restores happen when there is room, evidence is of the untreated system | samples are taken, waited upon and used later; two threads feed one evidence |
| reclaim (`evictor/{idle_reclaim,early_reclaim,cache_drop,compact_zram,gates,reclaim_primitive}.rs`, `mgd-zram`) | clocks per pid, cooldowns, the devices | nobody is bothered before his time or kept waiting for ever; no device is lost | a cap per check, a wall clock that may be put back, failures between two system calls |
| IPC and plugins (`ipc.rs`, `plugin_server.rs`, `mgctl`, `mgd-kde`, `mgd-gpu-*`) | GPU cache, foreground pid, plugin processes; in mgd-kde a cached reading, a tracker and a copy of its settings | commands act on what they name; what leaks or idles is restarted or reaped, and only that | requests run concurrently with everything else; answers arrive after decisions |
| PSI trigger (`monitor/psi.rs`, `mgd-psi-trigger`) | a helper process, its pipe, an epoll trigger | load wakes the evictor, and without load it rests | the helper may die at any time, with bytes unread |
| threads (`main.rs`, `init.rs`, `lifecycle.rs` and the loops of all) | flags and doorbells | no ring is lost and a stop ends everything | rings race with waits |
| configuration (`config/*`, `lifecycle.rs`, `mgctl/src/calibrate.rs`) | the copy in force, a plugin's copy, the suggestion on disk | both copies come to what is on disk | two ways to reload, a file half written when it is read |
| monitors, logging, events | none that others depend on | parsing is right | pure data transformation |

`PROJECT.json` lists all of them with their status, and under `hazards` every
place in the code that is hard to test, with the property that covers it or
the reason why none does.

## 2. Modules

### FreezeLifecycle (abstract: ProcessHold)

Every path that sends SIGSTOP or SIGCONT. One action per lock section or
signal, because all races of this component lie between them: a registry look-up
and the signal that follows it, a signal and its record. A pid carries a
generation (`born`), which stands for the start time in `/proc/<pid>/stat`.
The evictor is a program counter that goes through the passes of one cycle
(focus, idle freeze, exited, timed-out and requested victims, spike update,
plan); the recovery manager, connection threads and focus threads have program
counters of their own; `sweep` is the loop of main at startup and shutdown. Files
equal the registries at all times, except that with `TornSaves` a kill leaves an
empty one, because `write_file_atomic` truncates and then writes.

`ProcessHold` says what a user sees: processes are put on hold only while the
daemon works, and when it is down nobody is. `FreezeLifecycle` implements it with
`held` = the stopped processes and `phase` = the life of the daemon. Connections that were accepted are
served until the process exits (`Serving`).
`MCFreezeLifecycle` adds a second instance, `Killed`, whose daemon is killed and started again.

### PressureController

One full cycle of `run` up to `last_level =`: sub-scores, composite score and
trend, target state, the state machine of `advance` with its counts and
cooldowns, the two swap overrides with the 45 s timer, hibernation. Scores are
integers in 1/10000 and times in tenths of a second, so that the boundaries of
the code (20, 45, 70, 90; 95 % and 98 % of swap; 450 tenths) are exact. `Rest` is a wait
for PSI that times out. `seen` is a history variable for the properties.

### CheckpointLifecycle (abstract: ReversibleEviction)

Dump, SIGKILL and record by the evictor; `restore_pass`; `mgctl restore` (one
restorer for each entry it copied); removal of orphaned directories at startup;
SIGTERM, kills, restarts. A process is the n-th one under its pid, and its image
lies in the directory `<pid>_<name>`, which later processes of the same name
share. `Free` says what a new dump may overlap; the switch `Overlap` opens its
three windows one at a time.

`ReversibleEviction` says that a saved process is retried, restored, or given up
after MAX_RESTORE_ATTEMPTS failures, and that none that has ended comes back.

### CgroupLimits

`ThrottleManager`, `MemCapManager` and the spike mode's use of `cpu.weight`, each
with its own book. `CycleFull` is an evictor cycle in which the 30 s interval of
the throttle has elapsed or the focus has moved, `CycleBrief` one in which it
has not. Time in the background is counted in three classes (below the
10 s debounce, past it, past `throttle_max_duration_sec`), because the code compares
it with those two limits only. What the focus and a spike exempt a cgroup from holds for both managers
(`Exempt`), `throttle_exclude` for the throttle alone (`NapExempt`). `MCCgroupLimits` adds a second instance, `Held`, with holds
and a shared cgroup.

### EvictionCycle

A cycle under pressure: `Plan` is `plan()` with the filters of `run` before it,
and `Clear` and `Execute` take one decision of the plan at a time, as `execute_plan` does,
so that everything else may happen between two decisions, and between the look into the registry and the act, when its lock
is free (`cleared`). `Sigterm` and
`GraceOver` are the two ends of the detached thread of `killer::sigterm`; `spawned`
and `grace` count the threads by the process they are meant for and by the one
they hit. A process has a pid that others may have had before (`shell` comes by the pid
of `app` in the runs), and signals go to whoever owns the pid. The deficit follows
from who runs and who is swapped out: what a plan frees is not assumed but seen
in the next cycle.

### SpikeTracker

`SpikeTracker::update` and the decisions it returns, with `release_victims` before
and the freezing loop after them: one step is one `run_spike_cycle`, since all of it
runs in the evictor over one list of processes. A state per pid keeps the samples of the
window, a peak, whether it was followed by a valley, and the idle count; ages stand for
`Instant`s. `PidOf` may give several processes one pid, and `QuickReuse` lets one come
before a cycle has missed the other. `seen` and `room` are histories: what a cycle could
know of each process and not merely of its pid. Signals, files and kills are in FreezeLifecycle, weights in
CgroupLimits.

### The watchers: IdleWatch, AutoKill, LeakGuard, Calibration, RestoreGate, ReclaimGates

IdleWatch is `idle_timeout_reclaim` and `check_idle_process_reclaim` with both clocks per pid, the choice of candidates, the cap
per check and the freezing afterwards. Its history `seen` says of each process, and not of its pid, how long the evictor has watched it and how long
it had when it was touched. `MCIdleWatch` adds the time since a process had the focus. AutoKill is `check_auto_kill_idle` with the map from (pid, start
time) to last activity. LeakGuard is `LeakTracker::update` and the SIGTERMs that follow: the window of counts of each
family, from whose front samples are taken until it lies in the window, the four conditions, the cooldown;
`Wraps` lets pids start again from the lowest. Its histories `age` and `elders` say of each
process how long it is there and who was there before it.
Calibration is the calibrator between its two feeders: each reads, and observes under the lock when it has got it, with what the other and the
load do in between; the periodic
save, the save at the end, kills that may tear the file and restarts, and `suggest()`. `late` counts the observations of a stall that was over by then, or of none where one
had begun. RestoreGate is
`HealthBaseline` with the two passes of the recovery manager that ask it: what
FreezeLifecycle and CheckpointLifecycle leave to free choice. ReclaimGates is the
cooldowns of early reclaim and cache drop, measured on a wall clock that may jump.
Five of the six stand side by side in `Housekeeping`, for any processes and settings, with what they
promise together; `MCHousekeeping` adds RestoreGate, whose promise is one of liveness, and puts
small instances of the six into one state space: none reads
what another writes, so a behaviour of the daemon is one of each, and `watch` says which
one a behaviour follows.

### What keeps the daemon going: PsiWake, DaemonThreads, SwapReclaim

PsiWake is the waits of `evictor::run`: the helper that writes a byte per event, its death, the
epoll trigger and the polls that stand in for it, and the bytes left in the pipe.
DaemonThreads has a program counter for the evictor, the recovery manager, the maintenance manager, the IPC server and
main, the two flags with their condition variables, and the plugin processes with spawn, death,
restart and SIGTERM. A cycle of maintenance reads the pressure (calm, calm with an avg60 of 5 or more, above Normal, unreadable), takes
the flag, and comes to a reclaim or not by the gates of `check_proactive_reclaim` (`MntTop`, `MntTake`, `MntReclaim`). SwapReclaim is the reclaim of swap from `check_proactive_reclaim` in
`maintenance.rs` to `reclaim_one` of the privileged helper, one action per system
call between which something can fail.

### Plugins: PlasmaShell, PlasmaDiscover

Both halves of two conversations between mgd-kde and the daemon. PlasmaShell: GPU plugins report
usage, mgd-kde asks each round and decides by the answer before. PlasmaDiscover: mgd-kde compares CPU time round
by round, as long as it was last told that the level is normal.

### ConfigReload

The daemon's copy of the configuration, replaced by the evictor after SIGHUP and by connections;
the choice of the file, what stands in for a missing or a broken one; the calibrator's
suggestion laid over it; `mgctl calibrate --passive-apply`, which truncates the file
and then writes it; and the copy mgd-kde keeps. Of a text the two lower tiers of `[psi]` and
the presence of protections are kept.

### Composition

`Files`, `Housekeeping` and `Supervision` put components side by side that share a process or a
directory but no state the properties look at, and state what they promise together, for every
value of the constants: their theorems are about these modules. `Files` extends CheckpointLifecycle
and `Supervision` extends PressureController; the others are instances with variables of their
own. What each instance assumes of its constants is an `ASSUME` there (`ConfigAssumption`,
`IdleAssumption`, `ThreadsAssumption` and so on).

`MCFiles`, `MCHousekeeping` and `MCSupervision` extend them, give the constants values for TLC, and
add the parts that promise liveness only (RestoreGate, PsiWake) or have another instance (`Killed` in
MCFiles: checkpoints of one pid, with kills). A
behaviour follows one component, named by `watch`, while the others stay where they begin: a
behaviour of all of them is an interleaving of such. Their fairness is that
of each component.

### Correspondence

`PROJECT.json` `map` gives for every definition the source lines it stands for.
Names follow the code (`EvPlan`, `RecTake`, `advance`, `Uncapped`); each action
carries the guards and early returns of its lines.

## 3. Runs

`pass` runs check properties that hold. Each has a mutant in `PROJECT.json`: the
definition of the model changed as a plausible bug would change the code, under which TLC finds the
property violated. The mutated forms stand in the modules just before the
definitions they would replace, and are used nowhere else.

| Run | Instance | Checks |
|---|---|---|
| FreezeSafety | two instances in turn: 2 pids with 2 processes each, no commands, SIGTERM; 1 pid with 2 processes, one `mgctl freeze`, kills, torn files and restarts without end | `StoppedIsTracked`, `ShutdownLeavesNoneStopped`, `ImplementsProcessHold`, `EntryOutlivesKills`, `VictimsOutliveKills` |
| FreezeLive | 1 pid, one `mgctl unfreeze`, one focus thread, spike mode, fairness | `NoDoubleHold`, `FrozenReleased`, `VictimsReleased`, `RequestHonoured` |
| Files | three parts in turn: checkpoints of 2 pids with 3 processes each under two names, stops, fairness; checkpoints of 1 pid with 3 processes under one name, 2 restore commands, pid reuse, kills, torn files and restarts without end; configuration with one user text, a suggestion and one edit | `NothingLost`, `RecordedIsSafe`, `EntriesResolved`, `ImplementsReversibleEviction`, `RecordOutlivesKills`, `ReloadsSettle` |
| Cgroups | two instances in turn: 3 processes of all tiers, 2 cgroups, one process excluded from the throttle, a spike alone in its cgroup, no holds, no PSI helper, fairness; 2 processes that share a cgroup, one of them a spike, with holds and a PSI helper | `ShutdownRestores`, `ForegroundUnlimited`, `RestoredWhenCalm`; `CapsLeave` |
| EvictionCore | 4 processes of priorities 80, 60, 50 and 10, two in one cgroup, one in none, two with one pid in turn; all levels, focus or none, dumps that fail, processes frozen at any moment, fairness | `OneTerminator`, `NeverTouched`, `OnlyTargetsStruck`, `PriorityBeforeForce`, `NeverMoreThanNeeded`, `Relief` |
| SpikeCore | 2 processes that swing, one that does not, two of them eligible as victims; focus, requests, a mode that is switched off and on with and without a limit | `HeldTogether`, `TrackingSwings`, `DemotedWhenQuiet`, `NotSoonAgain`, `NoMoreThanNeeded` |
| Housekeeping | the six watchers in turn, fairness | `TerminatedWithCause`, `NotBotheredAgain`, `EvidenceSound`, `NobodyStarves` |
| Supervision | PressureController, PsiWake, DaemonThreads, PlasmaShell, PlasmaDiscover and SwapReclaim in turn, fairness | `EscalationPersists`, `RecoveryPersists`, `Settles`, `NobodyMisses`, `EndsWell`, `DoesNoHarm` |

`ReloadsSettle`, `NobodyMisses`, `EndsWell`, `DoesNoHarm`, `TerminatedWithCause`,
`NotBotheredAgain`, `EvidenceSound` and `NobodyStarves` are conjunctions: one concern, stated for each
component by a property of its own module, whose comment says what it is about.

FreezeSafety and Cgroups check safety of both instances, liveness is that of the first. `violation` runs show a text of the repository that the code does not keep to;
they are section 5.

### Bounds

- Pids and processes. One pid suffices for races over one process, since
  apart from the cap of `MaxUnfreeze`, the shared release of victims and the
  choice of the lightest checkpoint entry, operations treat each pid alone; two are there for
  those three and for sweeps that work through a list.
- `MaxGen`, the processes that live under one pid in turn: with 2 a pid changes its
  owner between any two steps of a thread, with 3 (Files) it does so twice.
  The kernel starts no more of them after that.
- `MaxUnfreeze` = 1 with two pids is the cap of 4 with more processes than 4.
- `MaxTries` = 3 is MAX_RESTORE_ATTEMPTS itself.
- Readings: every sub-score at, just below and just above the values the code
  compares with, and mixes of them; gaps between cycles below and above what the timers need.
  `MaxStreak` = 12 is the longest cooldown, which is all that the properties count.
- Two cgroups, one shared and one not; `Untracked..Expired` as above. Holds and the sharing of a cgroup with a spike are in `Held`, for `CapsLeave`:
  they break the others (section 5).
- SpikeCore: RSS 1 and 4 with a growth threshold of 1 and a window of one or two cycles; two idle ticks;
  one unit of available RAM too few for a peak, so that one or two victims are needed.
- Housekeeping: clocks of two or three checks, families of up to five pids, evidence up to the gates of `suggest()` (the 24 h and the 10 stalls are
  3 and 1 there), one late observation (`MaxLate`), an average that is cold for three samples, clocks put back twice.
- Supervision: 11 readings around every boundary and three gaps for the controller; two bytes in the pipe and two
  deaths of the helper; one plugin, which never fails to spawn (`MaxFails = 0`): plugins are restarted each by itself; three messages in a queue between mgd-kde and the daemon; two devices
  of up to two units, five units of RAM, four failing calls or signals (one more than the retries).
- Files: `RecordOutlivesKills` is about one pid, as every step it concerns is; one edit of the configuration, whichever
  writer makes it, falls among the steps of two reloads.
- EvictionCore: sizes 2 and 3 with room for 2, so that one eviction may suffice or not,
  and RAM may be freed to the last unit; the four processes have priorities on all sides of
  the limits 19, 60, 75 and 80, the helper also with the focus offset. `MaxThreads` = 2 lets a second
  SIGTERM thread be seen if there is one.

### Fairness

Fairness is on the program's own threads, and on outside events only where
a liveness property is conditional on them.

- FreezeLive: weak fairness of the evictor, of the recovery manager, of each
  connection and focus thread and of main (they run, and none waits on another for
  ever) and of `Age` (time passes); strong fairness of `RecRelease`: this is the
  assumption that raw PSI falls to Normal again and again, without which the
  recovery manager releases nobody by design. `VictimsReleased` is conditional on no
  spike being in the phase Tracking.
- PressureController: weak fairness of the evictor's cycles while it does not wait for an
  event: nobody promises that one comes. `Settles` is conditional on waits that end,
  `ReturnsToNormal` is not, because above Normal the code does not wait (it is a part of `EndsWell`).
- Files: weak fairness of the evictor's steps (not of its decision to
  checkpoint) and of startup, strong fairness of `restore_pass`, which needs the
  lock of the registry free and the pressure Normal at the same moment.
- Cgroups: weak fairness of `Polling`, a cycle above Normal or without a PSI
  helper, with the interval elapsed: `idle_reclaim_global_cooldown_sec` is finite.
- Housekeeping: weak fairness of a check of idle processes at a swap that stays as it is, of a tick of the
  recovery manager, and of evictor cycles; `LetGo` is conditional on the available memory and the level settling.
- Supervision: weak fairness of each thread of the daemon and of the helper while it lives; strong fairness of the full cycle of the evictor, which waits
  now and then but not for ever. mgd-kde, systemd and the GPU plugins run; nothing is assumed of deaths, signals or
  the user. Of the machine SwapReclaim assumes that a pass of maintenance comes again and again, or for good, in which the pressure is calm and
  avg60 is below 5: `Drained` says that swap is drained then, and nothing of a machine that never calms down.
- EvictionCore: weak fairness of the evictor (it plans whenever there is a deficit and carries its plan out), of
  each SIGTERM thread and of the end of the 45 s. `Relief` is conditional on a level that
  stays Critical or above and on nobody being frozen; processes may start, end and be swapped for ever.

## 4. Proofs

All theorems hold for every value of the constants that meets the `ASSUME`s of
the module (which TLC evaluates in every run), and the assumptions named here. Every safety,
action and refinement property that a passing run checks is stated by one of them
(`RecordOutlivesKills`, `EntryOutlivesKills`, `VictimsOutliveKills` and `CapsLeave` are `RecordedIsSafe`, `RegistryEntryOutlivesStop`, `VictimHandedOver`
and `CapsOnlyAtHigh` of an instance, and `RecordedSafe`, `EntryOutlivesStop`, `VictimsHandedOver` and `CapsStayAtHigh` prove
these for all constants). Where a theorem has assumptions, section 5 or the text below says what breaks without them.

**FreezeLifecycle_proofs.** `TypeCorrect` by an invariant
that adds what each program counter implies about its locals (`LocalsOK`).
`StoppedStaysTracked`: a stopped process is known to the registry, the
tracker, the sweep or a thread about to record it; assumed are no
`mgctl unfreeze`, no focus threads and no kills, since each of them breaks it (section 5).
The invariant adds that a thread acts on a live process under the start time
it has read (`StoppedLives`, `Picked`), that no unfreezing thread is under way,
and that without kills every pid's past is past (`OneLife`). `EntryOutlivesStop`
and `VictimsHandedOver` are action properties from the same invariants, kills
included; only a kill that tears the file is excepted. `NeverDoubleHeld`: the pids a freezing loop has picked stay free of
registry and tracker until it stops them (`PickedFree`), because the
evictor alone adds to both without `mgctl freeze`. `ShutdownReleasesAll` and
`RefinesProcessHold`: from `Closing`, which orders the hand-over (evictor gone and
victims released before main sweeps, recovery gone, whoever is stopped is in `sweep`).

**Files_proofs.** Of CheckpointLifecycle: `TypeCorrect`; `RecordedSafe` without
overlap, kills and pid reuse included (a kill that tears the registry file is the one
exception); `NothingIsLost` without kills and reuse. The
invariants: evictor, recovery manager and commands do not work on one pid at a
time (`Apart`), what each finds in the directory it works on (`Settled`), and that who is
owed a restore does not live (`OwedStopped`). `EvictionIsReversible` is the refinement of
ReversibleEviction, step by step. It needs the invariant `Images` (an image that has not been
used is that of a process that is down, and is in the entry or being worked on) and the absence of `mgctl restore`: a command
that copied an entry before recovery took it may bring the process back a second
time after it has ended. Of ConfigReload: `NoReloadLost`, without assumptions. The invariant: at most one reload is under way as long as
no two have run at once (`OneReload`); after the last request, what a reload has read, and what is held once all
are done, is what is on disk (`Fresh`); so is the copy of the plugin once it was told (`PluginFresh`).

**CgroupLimits_proofs.** `TypeCorrect` and `CapsStayAtHigh` without further
assumptions (`CapsKnown`: a cap in force is in the book). `StopUndoesAll`
when nobody is held and spikes are alone in their cgroups, `ForegroundStaysUnlimited`
when nobody is held and nobody spikes: `WeightsKnown`, `QuotasKnown` and
`EmptyUnlimited` say that every limit in force is in a book of a manager that will
undo it, or gone with its cgroup.

**EvictionCycle_proofs.** `TypeCorrect`, `LessImportantFirst` and `NobodyInVain`
without assumptions. `PlanShape` is what is proved of `plan()`: it names candidates, each once, and acts
on none that is spared. `PlanDecided` says what the fold over the list comes to: the deficit left is a function
along the list, and whoever gets an action got it while there was some left. `LessImportantFirst`
follows because what is left only falls, and because whoever is worth less is acted upon as well
(`ActsFromAbove`, of the tables of `determine_process_action`); `NobodyInVain` because what is left is the deficit less the sum of what
was freed (`LeftIsRest`). `NobodyInPlace`: while no pid is reused between listing and
signal, the owner of a planned or awaited pid is that process (`PidsKept`), and a thread compares start
times afterwards. `SystemTierSafe` adds that plans and threads
concern touchable processes only, if `SafeWindows`. `SingleTerminator`: a process with a thread is in a resting cgroup
and in no plan (`Once`).

**SpikeTracker_proofs.** `TypeCorrect` and `NobodyStoppedInVain` without assumptions. `Turned` says what
the pure half of a cycle (`ReleaseVictims`, `Updated`, `Settle`) makes of the tracker,
`CycleIs` what the whole cycle makes of it, so that the invariants need
not look into the fold over the processes again. `VictimsHeldTogether` is an action property
from it alone. `VictimsRest` rests on `Rests`: the cooldown kept for a pid is never
ahead of the time since its process was let go. `SpikesGivenUpQuiet` rests on `Counts`, the idle
count of a pid is never ahead of the quiet cycles of its process, and on `Unique`: a pid has one live process; it needs
`~QuickReuse`. So does `SpikesHaveSwung`, by `Recalled`: what the tracker keeps of
a process (the reading before, the first one, the peak and the valley of its window) its history has as well.
`NobodyStoppedInVain` needs that the windows are finite (`FiniteSamples`), or peaks and the memory that is required would not exist, and
the sums over the victims, taken one at a time.

**Housekeeping_proofs.** `KillsOnlyQuiet` without assumptions: the clock that the auto-kill keeps of a process is not ahead of
the time for which the process was quiet (`KillInv`). `ReapsWithCause`, as long as pids do not wrap: no sample in LeakGuard's window
is below the number of members that are older than it, and the cooldown it keeps is covered by the time since the last reaping
(`LeakInv`); lower pids are the older ones (`InOrder`).
Both together are `NoKillWithoutCause`. `CooldownsKept`, if the wall clock is only ever put back: no
measure looks older than it is (`GatesInv`). `WatchedBeforeTouched`, without quick reuse: the clock that is kept by pid is never ahead of the watch over the process itself, which begins with the check
that first finds it in the background and ends when one finds it held (`ClockOK`), so that nobody is frozen or pushed out before a watch has lasted, the first time included. Both together are `NobodyBotheredEarly`. `ProposedFromEvidence`: `CalInv` says that no more stalls are counted, in
memory, in the file or on their way to it, than there were, and one more for each late observation (`CalCounted`), that the file holds what was last saved unless it is torn (`CalKept`), and that
what is not in the file is dirty, being written or lost to a failed write (`CalSaved`), however the feeders interleave and whenever the daemon is killed; it assumes that
the `high_pct` in use leaves room for the `elevated_pct` that is proposed (`TiersInOrder`).

**Supervision_proofs.** Of PressureController: `TypeCorrect`, `EscalatesOnPersistence`,
`RecoversOnPersistence`, for all sets of readings and gaps. The
key is `CountIsSeen`: the machine's count is never ahead of the run of equal
targets in the history, so a count that reaches its threshold is a run that long.
Of DaemonThreads: `ThreadsTyped` and `StopsClean` (`NothingLeft`, of `EndsWell`). Two invariants:
`Children`, a plugin that runs is tracked, because a spawn
that fails neither starts nor tracks one; and `Order`, what each step of main has behind it, above all
that no maintenance thread can restart a plugin once main terminates them. `HarmlessOnTheWhole` is
`DoesNoHarm`: PlasmaShell has at most one request for a restart on its way
(`OneRequest`), PlasmaDiscover never counts more idle rounds than there were (`IdleSeen`), and
what SwapReclaim has still to bring in fits beside the device it is bringing in (`Room`). It assumes an answer within a
round, no reuse of a pid within one, and that nobody else takes the memory that was measured.

**SumTheorems.** What a sum of the community modules (`MapThenSumSet`) over a finite set comes to: empty,
an integer, one element taken out, equal or smaller terms. The induction goes by a least
counterexample (`Least`, `BySubsets`), because the induction theorems of the library take an operator
as a parameter; `IterIsSum` makes a sum of expressions the sum of a function.

Only model-checked, because liveness is out of reach of the prover:
`FrozenReleased`, `VictimsReleased`, `RequestHonoured`, `Settles`, `EntriesResolved`,
`RestoredWhenCalm`, `Relief`, `NobodyStarves`, `NobodyMisses`, and of `EndsWell` what is not `NothingLeft`.

## 5. Divergences found

Four runs check a text of the repository that the code does not keep to; TLC
finds the behaviour.

| Run | Text | What the code does |
|---|---|---|
| EvictionFocusTier | `ARCHITECTURE.md:222`: priorities 0-19 are never touched (hard rule) | the focus offset ends at 20, also for a process that was below: a desktop shell with the focus is planned for (`decision.rs:115`) |
| KillReclaim | `ARCHITECTURE.md:410`: rung by a kill, maintenance attempts a reclaim regardless of the calm gate | it takes the flag whatever it reads, and goes by the kill path only above Normal: calm by avg10, it still asks for avg60 below 5 and the long cooldown, and the ring is spent (`maintenance.rs:75-111`, `:305`) |
| FocusedIdle | `ARCHITECTURE.md:388`: what is reclaimed has been continuously in the background for `idle_sec` | the clock of a process is not stopped or started again while it has the focus: it is pushed out by the check that follows the loss of the focus (`idle_reclaim.rs:105`, `:221`) |
| ShellRestart | `config/priorities.toml:29`: plasmashell is restarted when its GPU memory exceeds the threshold | the answer to the query of the round that asks for a restart comes in after the value was reset, is that of the old process, and after the cooldown a plasmashell that never leaked is restarted by it (`mgd-kde/src/main.rs:221`) |

The assumptions of the theorems and the instances of the passing runs leave out
more such behaviours. Each can be seen by setting the constant named here:

| Set | In | Breaks | Because |
|---|---|---|---|
| `Freezers = {f1}` | FreezeSafety | `ShutdownLeavesNoneStopped` | connection threads are not joined: a `mgctl freeze` may stop its process after the sweep (`ipc.rs:476`) |
| `Freezers = {f1}` | FreezeLive | `NoDoubleHold` | `mgctl freeze` asks the registry only, and records a process that is a victim of a spike; the spike loop in turn goes by the pids it read before (`ipc.rs:471`, `spike.rs:148`) |
| `Freezers = {f1}` | FreezeLive | `FrozenReleased` | `mgctl freeze` does not ring `recovery_wake`, nor does the freezing of idle processes, although `init.rs:64` tells the user that recovery wakes on freeze (`idle_reclaim.rs:180`) |
| `Focusers = {w1}` or `Unfreezers = {u1}` | FreezeSafety | `StoppedIsTracked`, `ShutdownLeavesNoneStopped` | the focus thread (and `mgctl unfreeze`, `ipc.rs:418`) signals, then removes whatever entry the pid has by then, that of a newer stop included (`plugin_server.rs:325`), although after the final sweep no process is left stopped (`ARCHITECTURE.md:132`) |
| `Overlap = {"recovery"}` | Files | `NothingLost` | `restore_pass` removes directory and entry by name and pid after the helper has returned, a newer dump included (`recovery.rs:140`); `ARCHITECTURE.md:268` says that checkpoints are reversible |
| `Overlap = {"command"}` | Files with a restorer | `NothingLost` | `mgctl restore` removes the entry of its pid after the restore, a newer one included (`ipc.rs:511`) |
| `Overlap = {"restart"}` | the same | `NothingLost` | a stop between restore and removal keeps the entry of a running process, and its abandonment deletes the image of a newer checkpoint (`recovery.rs:133`) |
| `Reuse = TRUE` | Files | `NothingLost` | a second checkpoint under a reused pid replaces the entry (`registry.rs:123`) |
| `MayCrash = TRUE` | Files | `NothingLost` | the entry is written after the SIGKILL (`execute.rs:132`) |
| `PROPERTY DipKeepsTimer` | Supervision | `DipKeepsTimer` | `scoring.rs:203` says that a dip below 98 % keeps the 45 s timer at Emergency; not after an escalation by the timer itself, as the level tested is that of the state machine (`scoring.rs:207`) |
| `MayHold = TRUE` | Cgroups | `ShutdownRestores` | cgroups whose processes are all held are forgotten (`throttle.rs:64`), although `ARCHITECTURE.md:452` says that all are restored on shutdown |
| `Spikes = {p1}` | Cgroups | `ShutdownRestores` | the weight of an ended spike process whose cgroup others share is not restored (`spike_mode.rs:391`) |
| `MayHold = TRUE` | Cgroups | `ForegroundUnlimited` | a cgroup forgotten while its process was held is not restored on focus (`throttle.rs:80`; `ARCHITECTURE.md:449` says it is) |
| `HasTrigger = TRUE` | Cgroups | `RestoredWhenCalm` | when the level falls within the interval of the throttle, the evictor goes on to wait for events and the throttle is not updated (`ev:294`) |
| `QuickReuse = TRUE` | EvictionCore | `OnlyTargetsStruck`, `NeverTouched` | plan and thread know a process by its pid until the signal: SIGKILL and dump never compare start times (`execute.rs:118`), and the thread reads the one it compares with when it starts (`killer.rs:11`), although `ARCHITECTURE.md:300` says that every operation that changes state does |
| `QuickReuse = TRUE` | SpikeCore | `TrackingSwings`, `DemotedWhenQuiet` | the tracker knows a process by its pid: one that starts between two cycles under the pid of another takes over its samples and counts (`spike_mode.rs:251`) |
| `MayHold = TRUE` | Cgroups | `RestoredWhenCalm` | a cgroup that is forgotten is not restored (`throttle.rs:64`) |

The same for the instances that stand in an MC module (`INSTANCE ... WITH`):

| Set | In | Breaks | Because |
|---|---|---|---|
| `QuickReuse <- TRUE`, IdleWatch | MCHousekeeping | `FrozenAfterWatch` | the clocks of idle reclaim are kept by pid (`idle_reclaim.rs:71-79`) |
| `Reliable` without one of the processes | MCHousekeeping | `EveryoneServed` | a candidate without a leaf cgroup is skipped after the cap has counted it, at every check again (`idle_reclaim.rs:113`) |
| `Wraps <- TRUE`, LeakGuard | MCHousekeeping | `NewestSpared` | the oldest members are taken to be those of the lowest pids, which wrap (`leak_guard.rs:199-212`) |
| `PROPERTY OnlyUntreated`, Calibration | MCHousekeeping | `OnlyUntreated` | a thread counts what it read before somebody was frozen, and the other way round (`calibrate.rs:108`), although `calibrate.rs:6-8` says that only the untreated system is sampled |
| `evidence.events <= episodes`, Calibration | MCHousekeeping | that | a reading that is counted late, after the other thread has counted the end of its stall, counts the stall again (`calibrate.rs:113`): `StallsCountedOnce` allows one for each such reading |
| `EvidenceKept` without `disk = Torn` | MCHousekeeping | that | the evidence is written by a plain `fs::write`: a kill while it is written loses all of it |
| `Current.high` = 10 | MCHousekeeping | `SuggestionUsable` | the suggested `elevated_pct` may lie at or above the `high_pct` in use, since the suggestion for that one is commented out (`calibrate.rs:228-237`) |
| `Jumps <- {2}`, ReclaimGates | MCHousekeeping | `TakenSparingly` | cooldowns are measured on the wall clock |
| `PROPERTY ArmedAsConfigured`, PsiWake | MCSupervision | `ArmedAsConfigured` | the epoll trigger keeps the threshold of its start after a reload, although `config/priorities.toml:130-133` says that a reload applies it |
| `Silent <- TRUE`, DaemonThreads | MCSupervision | `RingServed` | `mgctl freeze` and the freezing of idle processes add entries without a ring |
| `MaxFails <- 1`, DaemonThreads | MCSupervision | `Restarted` | a plugin that fails to spawn is never tried again (`plugin_server.rs:163-167`) |
| `PROPERTY StopPrompt`, DaemonThreads | MCSupervision | `StopPrompt` | a stop that rings between a test of the flag and the wait is heard after the wait has timed out (`ev:133`) |
| `Slow <- TRUE`, PlasmaShell | MCSupervision | `RestartsSpaced` | mgd-kde starts its cooldown at the daemon's answer, and may ask again before it comes (`mgd-kde/src/main.rs:232`) |
| `QuickReuse <- TRUE`, PlasmaDiscover | MCSupervision | `ReapedIdle` | the tracker is kept by pid: CPU time is compared with that of the process before |
| `PROPERTY IdleReaped`, PlasmaDiscover | MCSupervision | `IdleReaped` | Normal is never broadcast (`ev:350-358`), and the daemon's "Normal" is not the plugin's "normal" (`psi.rs:212`, `mgd-kde/src/main.rs:116`); `protocol.rs:84-88` and `ARCHITECTURE.md:500-501` say that plugins hear of every change of the level. After the first pressure an idle plasma-discover is never reaped again |
| `Drift <- TRUE`, SwapReclaim | MCSupervision | `Fits` | the room is measured once for all devices (`reclaim.rs:83-102`) |
| `PROPERTY NewestHeldAlways`, ConfigReload | MCFiles | `NewestHeldAlways` | the evictor's reload after SIGHUP and `mgctl reload` run at once, and the older text may be stored last (`config/mod.rs:27`; `mgd/README.md:217`, `:248`) |
| `Suggested` at or above the user's tier | MCFiles | `TiersIncrease` | the suggestion is laid over the tiers after they have been validated, and at every load, although `calibrate.rs:225` and `mgctl/src/doctor.rs:358` tell the user to paste it |

`TornSaves` stands for `write_file_atomic` (`mgd-common/src/util.rs:25`), which is a plain
`fs::write`: a kill between truncation and write leaves a file that loads as empty,
and the processes in it stay stopped or their images are deleted at startup. The
properties `EntryOutlivesKills`, `VictimsOutliveKills` and `RecordedIsSafe` except that step. The same holds of a ring when PSI cannot be read: `NobodyMisses` counts it as heard (`maintenance.rs:106`).

Read off the code while modelling, and excluded by no property or by the form of one:
`execute_plan` asks whether a process is frozen under the lock and acts without it, so that one frozen in between is killed
all the same (`execute.rs:24-26`; `Clear`); a kill during startup loses the spike victims not continued yet, because their file is deleted first
(`spike_mode.rs:447`);
after a failed dump the cgroup does not rest, because the decision says Checkpoint
(`execute.rs:58`), so that the next cycle may start a second SIGTERM thread (the exception
in `OneTerminator`); the focused process is not spared until no other is left, as
`ARCHITECTURE.md:192` says, but stands where its lowered priority puts it; processes that have got their
SIGTERM still count in the next cycle's deficit, so that "never free more than needed" holds for each
plan only; the wait for PSI at
Normal does not reset the count of `StateMachine` (`ev:167`), so "2 consecutive
cycles" may lie far apart; in a score-driven Emergency the 45 s timer runs on at any swap
(`scoring.rs:205`); the recovery manager gates on raw PSI, not on the effective level
that `docs/DECISION_TREE.md:119` draws (`recovery.rs:39`); neither focus handler finds a process
that is stopped as a spike victim (`ev:304`); a throttled spike process that gets the
focus keeps its weight (`spike_mode.rs:367`).

More of the same kind, by component:

- Spike mode: the samples of a pid do not age while the mode is off, and switching it off keeps phases and
  victims until exit or timeout; a victim whose memory is in swap frees none, although
  the filter counts it (`spike.rs:157`); calm cycles run the whole of
  `run_spike_cycle`, not the update alone as its comment says (`spike.rs:11-14`).
- Idle reclaim: the clocks are not pruned while pressure is above Normal; a change of focus brings a
  check before the global cooldown is over; more large idle processes than
  the cap times the checks in `idle_sec` leave some waiting.
- Automatic kill: a frozen process keeps its clock and may be terminated right after it is let go; the
  focus is not consulted; SIGTERM goes out without a second look at the start
  time (`ARCHITECTURE.md:307` says that there is one).
- Leak guard: a family that shrinks and grows between two looks counts as unchanged
  (`ARCHITECTURE.md:657`); frozen, focused and victim processes may be terminated; falling below the
  floor ends the cooldown.
- Calibration: evictor (weight 5) and maintenance (weight 60) count the same seconds, so that the 24 h
  are reached early; a failed write clears `dirty`; after a reload `elevated_pct` re-arms, not "on
  daemon restart only".
- Restore gate: an average that has become warm keeps a process larger than about 15 % of the
  available memory from ever coming back; the baseline is fed while interventions are active
  (`health.rs:34`).
- Early reclaim, zram: three large processes without a leaf cgroup block the smaller ones; `compact_zram` has no
  cooldown, and EACCES on one device disables it for all.
- Swap: a device whose swapon fails four times stays off and is not listed again (`reclaim.rs:129-151`).
- PSI: bytes of the helper that were left in the pipe bring full cycles without a pause after the return to Normal.
- Threads and plugins: plugins start before the handlers for SIGTERM are in place and survive one that comes
  between; a second daemon finds the socket in use but keeps its other threads
  (`ipc.rs:55-57`); the foreground pid outlives the plugin that reported it;
  `CoreMessage::Shutdown` is never sent (`protocol.rs:115`); answers go to all clients,
  and mgd-kde does not look whose pid they are about.
- Configuration: a file that does not parse is replaced by the built-in defaults, without the user's
  protections; one that is read while it is truncated compiles to no protections at all, until the next reload;
  on a machine with a system file only, `--passive-apply` writes a user file of `[psi]` alone that hides it;
  after a parse error plugins go on to the next file, the daemon does not.

## 6. What is abstracted or not modelled

- `freeze_checked` and `unfreeze_checked` read the start time and call kill(2) in one
  step of the model; between the two the code can still lose to a reuse of the pid.
- Signals succeed on a live process (no EPERM), and so does the SIGKILL after a dump.
- Which process is chosen is open: every decision that depends on RSS, oom scores,
  importance or cooldowns is a free choice among processes that pass the guards of the
  source. The cap of 2 per idle cycle, the order of entries by RSS and the exclusion by
  configuration are therefore not visible. A property that holds under free choice
  holds under any choice.
- Time: ages, cooldowns and intervals are elapsed or not, except where a property
  counts them (PressureController, the debounce of CgroupLimits).
- PSI read errors skip a cycle and only lengthen a gap between cycles.
- FreezeLifecycle has an empty checkpoint registry, so the recovery manager sleeps
  whenever nothing is frozen. CheckpointLifecycle treats being frozen as alive.
- A stop by systemd that takes longer than `TimeoutStopSec=10` is a kill (`Crash`).
- `mgctl restore` with several matches is several restorers.
- The cgroup of a process does not change, and writes to delegated cgroups succeed. A
  killed daemon leaves its limits in force, which CgroupLimits does not follow.

- SpikeTracker: processes do not exit within a cycle; swapped memory counts as none; the registry of frozen processes and
  cgroups are in the modules named above.
- IdleWatch, AutoKill, LeakGuard: sizes, rules and CPU use are what the guards compare them with, in
  range or out of it; a process has one family.
- Calibration: a bin of the histograms is a value that a reading may have. RestoreGate: the average is rounded down.
- PsiWake: a byte per event, a pipe of two; load is one number. DaemonThreads: the server is its
  accept loop; connections and their limit are left out.
- PlasmaShell: the daemon's GPU_CACHE does not expire (30 s), pids are not reused.
- SwapReclaim: what a compressed page gives back when it leaves the device is left out; SIGTERM reaches
  the helper, SIGKILL does not; how long it works is free.
- ConfigReload: one connection, one writer; `target_available_pct` of the calibrator's file is left out.
- EvictionCycle: memory moves to or from swap only between plans, since `plan()` alone looks at it. A
  dump with the SIGKILL that follows is one step. Between two adjacent system calls of a thread (the start time and the
  signal) a pid keeps its owner. A cgroup rests until all SIGTERM threads in it are done, as 45 s are
  longer than 5 s. SIGTERM threads end with the daemon, which the module does not follow.

Not modelled: the monitors, which parse what the kernel prints and keep nothing; the
event log, which nothing reads back into a decision; of `mgctl` the commands that only print; of the IPC
server `mgctl kill` (one signal to a named pid) and the limit of 32 connections; of the
plugin clients the GPU readers, which are stateless. `PROJECT.json` has the reason for each.

## 7. Plan

The order was that of what a wrong step costs: first what stops or ends processes, then what limits
them, then what watches and keeps the daemon going.

| # | Modules | Abstract specification, composition | Runs | Theorems |
|---|---|---|---|---|
| 1 | FreezeLifecycle | ProcessHold; MCFreezeLifecycle | FreezeSafety, FreezeLive | 7 |
| 2 | PressureController | Supervision, MCSupervision | Supervision | 3 |
| 3 | CheckpointLifecycle | ReversibleEviction; MCFiles | Files | 4 |
| 4 | CgroupLimits | | Cgroups | 4 |
| 5 | EvictionCycle | | EvictionCore, EvictionFocusTier | 6 |
| 6 | SpikeTracker | | SpikeCore | 6 |
| 7 | IdleWatch, AutoKill, LeakGuard, Calibration, RestoreGate, ReclaimGates | Housekeeping, MCHousekeeping, MCIdleWatch | Housekeeping, FocusedIdle | 7 |
| 8 | PsiWake, DaemonThreads, SwapReclaim, PlasmaShell, PlasmaDiscover | Supervision, MCSupervision | Supervision, ShellRestart, KillReclaim | 3 |
| 9 | ConfigReload | Files, MCFiles | Files | 1 |

No safety property is left unproved. Left: the limit of connections together with plugins that hold them; a
composition of RestoreGate with the recovery manager of FreezeLifecycle in place of its free choice.

## 8. How to run

In this directory, with TLA+ tools, the community modules and TLAPS 1.4.5:

    tlc -workers 2 -config FreezeSafety.cfg MCFreezeLifecycle
    tlapm FreezeLifecycle_proofs.tla

`PROJECT.json` names the module and the configuration of each run. No run takes
more than five minutes on two workers.
