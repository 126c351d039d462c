----------------------------- MODULE MCSupervision -----------------------------
(***************************************************************************)
(* What keeps the daemon itself going, on small instances: the level of    *)
(* the evictor and its waits, its threads, what mgd-kde asks of it, and    *)
(* the reclaim of swap.  What one reads of another is free in it, so that  *)
(* a behaviour of all of them is one of each: a run looks at one, and      *)
(* leaves the others where they begin.                                     *)
(***************************************************************************)
EXTENDS Supervision

CONSTANTS
    kde,               \* DaemonThreads
    zram0, zram1       \* SwapReclaim

VARIABLES
    watch,   \* the component that the behaviour is of
    load, pct, sub, helper, pipe, trigger, wakeLevel, wakeAt, beat, deaths

-----------------------------------------------------------------------------
(* At least one reading for every target the score can ask for, with and   *)
(* without exhausted or nearly full swap.                                  *)

Reading(p, s, g) == [psi |-> p, swap |-> s, gpu |-> g, io |-> 0]

\* 0, 1600 (stale swap), 1875, 3250, 5100, 7500 in 1/10000.
PlainReadings ==
    {Reading(0, 0, 0), Reading(0, 80, 0), Reading(5, 80, 0), Reading(30, 80, 0),
     Reading(60, 90, 0), Reading(100, 80, 60)}

\* 1980 without a stall, 1975, 5280, 5260 and 7460.
SwapReadings ==
    {Reading(0, 99, 0), Reading(1, 96, 0), Reading(60, 99, 0), Reading(60, 98, 0),
     Reading(100, 98, 0)}
AllReadings == PlainReadings \cup SwapReadings

Stalls     == {0, 5, 9}
Thresholds == {5, 8}

Wake == INSTANCE PsiWake WITH
    Loads <- Stalls, Pcts <- Thresholds, HasEpoll <- TRUE, MaxPipe <- 2, MaxDeaths <- 2,
    level <- wakeLevel, at <- wakeAt

ASSUME WakePartAssumption == Wake!LoadsAssumption /\ Wake!WakeAssumption

-----------------------------------------------------------------------------
Watches == {"pressure", "wake", "threads", "shell", "discover", "swap"}
wakeVars     == <<load, pct, sub, helper, pipe, trigger, wakeLevel, wakeAt, beat, deaths>>
threadVars   == <<stop, main, ev, rec, mnt, srv, ring, bell, psi, cooling, entries, room,
                  process, tracked, fails, socket, saved>>
shellVars    == <<shell, used, shellSeen, gpu, shellAsked, shellAge, toCore, toKde, due, leaked, since>>
discoverVars == <<discover, large, worked, tracker, reaped, pdLevel, told, asked, quiet>>
swapVars     == <<kind, on, data, avail, swapAge, disabled, swapAt, cur, todo, tries, bad,
                  signal, refused, errors>>
supervisionVars ==
    <<watch, vars, wakeVars, threadVars, shellVars, discoverVars, swapVars>>

SupervisionInit ==
    /\ watch \in Watches
    /\ Init /\ Wake!Init /\ Threads!Init /\ Shell!Init /\ Discover!Init /\ Swap!Init
    /\ watch # "wake" => load = 0 /\ pct = 5 /\ sub      \* one state to rest in
    /\ watch # "threads" => entries = 0
    /\ watch # "swap" => kind = "capped"

Others(S) ==
    /\ UNCHANGED watch
    /\ "pressure" \in S => UNCHANGED vars
    /\ "wake" \in S => UNCHANGED wakeVars
    /\ "threads" \in S => UNCHANGED threadVars
    /\ "shell" \in S => UNCHANGED shellVars
    /\ "discover" \in S => UNCHANGED discoverVars
    /\ "swap" \in S => UNCHANGED swapVars

SupervisionNext ==
    \/ watch = "pressure" /\ Next /\ Others(Watches \ {"pressure"})
    \/ watch = "wake" /\ Wake!Next /\ Others(Watches \ {"wake"})
    \/ watch = "threads" /\ Threads!Next /\ Others(Watches \ {"threads"})
    \/ watch = "shell" /\ Shell!Next /\ Others(Watches \ {"shell"})
    \/ watch = "discover" /\ Discover!Next /\ Others(Watches \ {"discover"})
    \/ watch = "swap" /\ Swap!Next /\ Others(Watches \ {"swap"})

\* The fairness that each component states for itself.
SupervisionFairness ==
    /\ WF_vars(watch = "pressure" /\ Evictor /\ ~rested)
    /\ WF_wakeVars(watch = "wake" /\ Wake!Report)
    /\ WF_wakeVars(watch = "wake" /\ Wake!Top(pct))
    /\ WF_wakeVars(watch = "wake" /\ Wake!Wait)
    /\ SF_wakeVars(watch = "wake" /\ Wake!FullCycle)
    /\ WF_threadVars(watch = "threads" /\ Threads!Evictor)
    /\ WF_threadVars(watch = "threads" /\ Threads!Recovery)
    /\ WF_threadVars(watch = "threads" /\ Threads!Maintenance)
    /\ WF_threadVars(watch = "threads" /\ Threads!SrvStop)
    /\ WF_threadVars(watch = "threads" /\ Threads!Main)
    /\ WF_shellVars(watch = "shell" /\ Shell!Observe)
    /\ WF_shellVars(watch = "shell" /\ (Shell!Round \/ Shell!Decide))
    /\ WF_shellVars(watch = "shell" /\ Shell!Core)
    /\ WF_shellVars(watch = "shell" /\ Shell!Receive)
    /\ WF_shellVars(watch = "shell" /\ Shell!Systemd)
    /\ WF_swapVars(watch = "swap" /\ Swap!Pass(FALSE, TRUE))
    /\ WF_swapVars(watch = "swap" /\ Swap!Helper)

SupervisionSpec ==
    SupervisionInit /\ [][SupervisionNext]_supervisionVars /\ SupervisionFairness

-----------------------------------------------------------------------------
\* No call goes unheard: load that stays is read again and again whatever happens to the
\* PSI helper (psi.rs:133-157); entries of a plan wake recovery and a kill wakes
\* maintenance, whatever they do meanwhile (recovery.rs:57-74, maintenance.rs:75-121); and a
\* plugin that died runs again (plugin_server.rs:173-198).
NobodyMisses ==
    /\ watch = "wake" => Wake!PressureNoticed
    /\ watch = "threads" => Threads!RingServed /\ Threads!RoomHeard /\ Threads!RoomUsed /\ Threads!Restarted

\* What is under way comes to an end: a level whose pressure is gone (scoring.rs:178-229); a
\* stop, which ends every thread and leaves no plugin and no socket (main.rs:74-84); the
\* wakes that the PSI helper left behind (psi.rs:143-149); a shell that leaks
\* (mgd-kde/src/main.rs:204-235); and swap that has room in RAM (maintenance.rs:289-376).
EndsWell ==
    /\ [](watch = "threads" => Threads!NothingLeft)
    /\ watch = "pressure" => ReturnsToNormal
    /\ watch = "threads" => Threads!StopCompletes
    /\ watch = "wake" => Wake!ComesToRest
    /\ watch = "shell" => Shell!LeakEnds
    /\ watch = "swap" => Swap!Drained

=============================================================================
