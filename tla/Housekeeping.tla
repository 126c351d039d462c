----------------------------- MODULE Housekeeping -----------------------------
(***************************************************************************)
(* The watchers of the evictor and of the maintenance thread side by side, *)
(* for any processes and any settings, and what they promise together.     *)
(* None reads what another writes: each has variables of its own.          *)
(***************************************************************************)
EXTENDS Integers

CONSTANTS
    IdleProcs, IdleFirst, IdlePids, IdlePidOf, NoPid, Windows, Low, Important, Large,
    Reliable, IdleGaps, SwapReadings, Freezings, IdleSec, ImportantSec, FreezeAfter,
    GlobalCooldown, MaxReclaims, MaxFreezes, IdleMaxAge, QuickReuse,   \* IdleWatch
    KillProcs, KillFirst, KillPidOf, Rules, KillAfter, KillMaxAge,     \* AutoKill
    LeakPids, Families, FamilyOf, Exclude, RssOf, LeakGaps, WindowSec, MinGroupCount,
    MinGroupRss, GrowthOverWindow, MinSamples, KeepNewest, CooldownSec, LeakMaxAge,
    Wraps,                                                             \* LeakGuard
    Readings, FirstReading, Weight, MinObserved, MinStallEvents, MinStallSecs, Current,
    Torn, NoFlight, MaxSecs, MaxEvents, MaxLate,                 \* Calibration
    GateGaps, Jumps, MaxJumps, Cooldown, DropTrigger, GateMaxAge       \* ReclaimGates

VARIABLES
    idleLive, idleHeld, idleVictims, focus, freezing, lastFocus, idleCalm, swap, checkAge, reclaimAge,
    freezeAge, seen,
    killLive, killHeld, ran, lastActive, killTermed, quiet,
    leakLive, groups, leakTermed, ages, elders, struck, rested,
    pressure, treated, flight, evidence, inStall, dirty, pending, phase, file, proposed,
    episodes, late, kept, failed,
    level, age, jumps, since

Idle == INSTANCE IdleWatch WITH
    Procs <- IdleProcs, First <- IdleFirst, Pids <- IdlePids, PidOf <- IdlePidOf,
    Gaps <- IdleGaps, MaxAge <- IdleMaxAge,
    live <- idleLive, held <- idleHeld, victims <- idleVictims, calm <- idleCalm

Kill == INSTANCE AutoKill WITH
    Procs <- KillProcs, First <- KillFirst, PidOf <- KillPidOf, MaxAge <- KillMaxAge,
    live <- killLive, held <- killHeld, termed <- killTermed

Leak == INSTANCE LeakGuard WITH
    Pids <- LeakPids, Gaps <- LeakGaps, MaxAge <- LeakMaxAge,
    live <- leakLive, termed <- leakTermed, age <- ages

Calibrator == INSTANCE Calibration

Gates == INSTANCE ReclaimGates WITH Gaps <- GateGaps, MaxAge <- GateMaxAge

ASSUME IdleAssumption == Idle!ProcsAssumption /\ Idle!KindsAssumption /\ Idle!LimitsAssumption
ASSUME KillAssumption == Kill!ProcsAssumption /\ Kill!LimitsAssumption
ASSUME LeakAssumption == Leak!PidsAssumption /\ Leak!LimitsAssumption
ASSUME CalibratorAssumption == Calibrator!ReadingsAssumption /\ Calibrator!LimitsAssumption
ASSUME GatesAssumption == Gates!LimitsAssumption

-----------------------------------------------------------------------------
\* Nobody is terminated without a cause that is still true: a process that the idle
\* auto-kill ends has lain idle for as long as its rule asks, under its own pid
\* (maintenance.rs:205-236); one that the leak guard ends is one of the older members of a
\* family that grew in the window and was not reaped a cooldown ago (leak_guard.rs:165-212).
TerminatedWithCause ==
    /\ Kill!KilledWhenQuiet
    /\ Leak!ReapedHasGrown /\ Leak!NewestSpared /\ Leak!ReapsAreSpaced

\* Nobody is bothered again before his time: an idle process has its memory pushed out, or
\* is stopped, only after it was watched for that long (idle_reclaim.rs:117-193); early
\* reclaim and the drop of the page cache keep their cooldowns, although the wall clock
\* that measures them may be put back (early_reclaim.rs:31-36, cache_drop.rs:23-29).
NotBotheredAgain ==
    /\ [](Idle!PushedSparingly /\ Idle!FrozenAfterWatch)
    /\ Gates!TakenSparingly

\* The calibrator proposes from evidence in which each stall counts once, but for readings
\* that are observed late (calibrate.rs:108-116); no end of the daemon loses evidence but
\* one that tears the file (maintenance.rs:138-168, main.rs:83), and what it proposes can be
\* put into the configuration as it is (calibrate.rs:170-184, 228-237).
EvidenceSound ==
    /\ Calibrator!EvidenceKept
    /\ [](Calibrator!StallsCountedOnce /\ Calibrator!SavedAtExit /\ Calibrator!SuggestionUsable)
=============================================================================
