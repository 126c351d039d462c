--------------------------- MODULE PlasmaDiscover ---------------------------
(***************************************************************************)
(* How mgd-kde has an idle plasma-discover terminated: once in a round of  *)
(* 10 s it compares the CPU time of the process with that of the last      *)
(* round, as long as it believes the pressure to be normal.                *)
(*                                                                         *)
(* Processes follow each other with pids of their own, unless QuickReuse   *)
(* lets a second one have the pid of the first before a round has missed   *)
(* it.  Time is counted in rounds.                                         *)
(***************************************************************************)
EXTENDS Integers

CONSTANTS
    IdleCheck, \* idle_check_secs
    Cooldown,  \* cooldown_min
    QuickReuse

DiscoverAssumption == IdleCheck \in Nat \ {0} /\ Cooldown \in Nat /\ QuickReuse \in BOOLEAN

VARIABLES
    discover, \* the pid of the process, or NoPid
    large,    \* its RSS is above the threshold
    worked,   \* it has used CPU time since tracker.ticks was read, and not less than that
    tracker,  \* DiscoverTracker: pid, and the age of idle_since
    reaped,   \* rounds since LAST_PD_REAP
    level,    \* the effective level is Normal
    told,     \* current_level of mgd-kde is "normal"
    asked,    \* pids that the daemon was asked to terminate
    quiet     \* history: rounds since the process used CPU time

vars == <<discover, large, worked, tracker, reaped, level, told, asked, quiet>>

NoPid == 0
Pids  == {1, 2}
Capped(n, cap) == IF n < cap THEN n ELSE cap

Init ==
    /\ discover = NoPid /\ large = FALSE /\ worked = FALSE
    /\ tracker = [pid |-> NoPid, idle |-> 0]
    /\ reaped = Cooldown /\ level = TRUE /\ told = TRUE /\ asked = {} /\ quiet = 0

-----------------------------------------------------------------------------
\* A new process starts to count its CPU time at zero.
Start(i) ==
    /\ discover = NoPid /\ i \notin asked
    /\ QuickReuse \/ tracker.pid # i
    /\ discover' = i /\ worked' = FALSE /\ quiet' = 0
    /\ large' \in BOOLEAN
    /\ UNCHANGED <<tracker, reaped, level, told, asked>>

Work ==
    /\ discover # NoPid
    /\ worked' = TRUE /\ quiet' = 0
    /\ large' \in BOOLEAN
    /\ UNCHANGED <<discover, tracker, reaped, level, told, asked>>

Exit ==
    /\ discover # NoPid /\ discover' = NoPid
    /\ asked' = asked \ {discover}
    /\ UNCHANGED <<large, worked, tracker, reaped, level, told, quiet>>

\* Each full cycle above Normal is broadcast; a return to Normal is not.
Pressure ==
    /\ level' = ~level
    /\ told' = (told /\ level')
    /\ UNCHANGED <<discover, large, worked, tracker, reaped, asked, quiet>>

\* check_plasma_discover up to the test of the idle time; idle is the age of idle_since.
Checked(idle) ==
    IF discover = NoPid THEN [pid |-> NoPid, idle |-> idle]
    ELSE IF tracker.pid # discover THEN [pid |-> discover, idle |-> 0]
    ELSE IF worked THEN [tracker EXCEPT !.idle = 0]
    ELSE [tracker EXCEPT !.idle = idle]

\* A round of mgd-kde.
Round ==
    LET since == Capped(reaped + 1, Cooldown)
        idle  == Capped(tracker.idle + 1, IdleCheck)
        looks == told /\ since >= Cooldown
        now   == Checked(idle)
        asks  == looks /\ discover # NoPid /\ now.pid = tracker.pid /\ now.idle >= IdleCheck /\ large
    IN /\ tracker' = IF looks THEN now ELSE [tracker EXCEPT !.idle = idle]
       /\ worked' = (worked /\ ~(looks /\ discover # NoPid))
       /\ asked' = IF asks THEN asked \cup {discover} ELSE asked
       /\ reaped' = IF asks THEN 0 ELSE since
       /\ quiet' = Capped(quiet + 1, IdleCheck)
       /\ UNCHANGED <<discover, large, level, told>>

\* The daemon approves the request, and a thread terminates whoever has the pid.
Terminated ==
    /\ discover \in asked
    /\ discover' = NoPid /\ asked' = asked \ {discover}
    /\ UNCHANGED <<large, worked, tracker, reaped, level, told, quiet>>

Next ==
    \/ \E i \in Pids : Start(i)
    \/ Work \/ Exit \/ Pressure \/ Round \/ Terminated

Spec == Init /\ [][Next]_vars

\* mgd-kde runs, and the daemon with it.
Fairness == WF_vars(Round) /\ WF_vars(Terminated)

-----------------------------------------------------------------------------
TypeOK ==
    /\ discover \in Pids \cup {NoPid} /\ large \in BOOLEAN /\ worked \in BOOLEAN
    /\ tracker \in [pid : Pids \cup {NoPid}, idle : 0..IdleCheck]
    /\ reaped \in 0..Cooldown /\ level \in BOOLEAN /\ told \in BOOLEAN
    /\ asked \subseteq Pids /\ quiet \in 0..IdleCheck

\* Only a process that used no CPU time for idle_check_secs is reaped, whatever processes
\* came before it and however often mgd-kde did not look (mgd-kde/src/main.rs:237-289).
ReapedIdle == [][asked' \subseteq asked \/ quiet' >= IdleCheck]_vars

\* One that stays idle and large is reaped while the level stays Normal.
IdleReaped == ~<>[](discover # NoPid /\ large /\ quiet = IdleCheck /\ level)
=============================================================================
