--------------------------- MODULE MCEvictionCycle ---------------------------
(* Processes for TLC: app and its helper share a cgroup, a third process    *)
(* has none, and shell, of the critical tier, may come by the pid of app.   *)
EXTENDS EvictionCycle, TLC

CONSTANTS app, helper, daemon, shell, i1, i2, i3, g1, g2

Plain == [pid |-> i1, binary |-> "app", cgroup |-> g1, prio |-> 80, size |-> 2,
          gpu |-> 0, oom |-> 0, override |-> "unset", protected |-> FALSE]

Desktop ==
    app    :> Plain
 @@ helper :> [Plain EXCEPT !.pid = i2, !.prio = 60, !.size = 3, !.gpu = 1, !.binary = "tool"]
 @@ daemon :> [Plain EXCEPT !.pid = i3, !.prio = 50, !.cgroup = NoCgroup, !.binary = "tool"]
 @@ shell  :> [Plain EXCEPT !.prio = 10, !.cgroup = g2, !.binary = "shell"]
=============================================================================
