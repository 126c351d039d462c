---------------------------- MODULE ProcessHold ----------------------------
(* What a user may rely on, whatever mgd does inside: processes are put on *)
(* hold only while the daemon works, a daemon that is closing only lets    *)
(* processes go, and it is down only when none is on hold any more.        *)
CONSTANT Pids
VARIABLES held, phase

vars == <<held, phase>>

Init == held = {} /\ phase = "up"

Hold(p) ==
    /\ phase = "up" /\ p \notin held
    /\ held' = held \cup {p}
    /\ UNCHANGED phase

\* Let some go: a pass of the recovery manager releases several at once, and
\* a process on hold may also be killed.
Release ==
    /\ \E S \in SUBSET held : S # {} /\ held' = held \ S
    /\ UNCHANGED phase

Close ==
    /\ phase = "up"
    /\ phase' = "closing"
    /\ UNCHANGED held

Down ==
    /\ phase = "closing" /\ held = {}
    /\ phase' = "down"
    /\ UNCHANGED held

Next == (\E p \in Pids : Hold(p)) \/ Release \/ Close \/ Down

Spec == Init /\ [][Next]_vars
=============================================================================
