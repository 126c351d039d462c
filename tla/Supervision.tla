----------------------------- MODULE Supervision -----------------------------
(***************************************************************************)
(* What keeps the daemon itself going, side by side, for any settings: the *)
(* level of the evictor, the threads, what mgd-kde asks of the daemon, and *)
(* the reclaim of swap.  What one reads of another is free in it: each has *)
(* variables of its own.                                                   *)
(***************************************************************************)
EXTENDS PressureController, Sequences

CONSTANTS
    Plugins, MaxEntries, MaxFails, Silent, Unreadable,               \* DaemonThreads
    Sizes, Threshold, ShellCooldown, Slow, MaxQueue,                 \* PlasmaShell
    IdleCheck, ReapCooldown, QuickReuse,                             \* PlasmaDiscover
    Devices, NoDevice, MinUsed, Headroom, SwapCooldown, KillCooldown, MaxData, MaxAvail,
    MaxErrors, Drift                                                 \* SwapReclaim

VARIABLES
    stop, main, ev, rec, mnt, srv, ring, bell, psi, cooling, entries, room, process,
    tracked, fails, socket, saved,
    shell, used, shellSeen, gpu, shellAsked, shellAge, toCore, toKde, due, leaked, since,
    discover, large, worked, tracker, reaped, pdLevel, told, asked, quiet,
    kind, on, data, avail, swapAge, disabled, swapAt, cur, todo, tries, bad, signal, refused,
    errors

Threads == INSTANCE DaemonThreads

Shell == INSTANCE PlasmaShell WITH
    Cooldown <- ShellCooldown, seen <- shellSeen, asked <- shellAsked, age <- shellAge

Discover == INSTANCE PlasmaDiscover WITH Cooldown <- ReapCooldown, level <- pdLevel

Swap == INSTANCE SwapReclaim WITH
    Cooldown <- SwapCooldown, age <- swapAge, at <- swapAt

ASSUME ThreadsAssumption == Threads!LimitsAssumption /\ Threads!SwitchesAssumption
ASSUME ShellAssumption == Shell!SizesAssumption /\ Shell!ShellAssumption
ASSUME DiscoverAssumption == Discover!DiscoverAssumption
ASSUME SwapAssumption == Swap!DevicesAssumption /\ Swap!LimitsAssumption

-----------------------------------------------------------------------------
\* What is destructive spares what it must: restarts of plasmashell are spaced
\* (mgd-kde/src/main.rs:206-209), only an idle plasma-discover is reaped
\* (mgd-kde/src/main.rs:237-289), and no swap device is lost or brought in without room
\* (reclaim.rs:83-151).
DoesNoHarm ==
    /\ Shell!RestartsSpaced
    /\ Discover!ReapedIdle
    /\ [](Swap!SwapKept /\ Swap!Fits)
=============================================================================
