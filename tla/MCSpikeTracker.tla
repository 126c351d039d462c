--------------------------- MODULE MCSpikeTracker ---------------------------
(* Processes for TLC: build and make swing between 1 and 4 units, other     *)
(* stays at 2.  make and other may be stopped for a spike, other first.     *)
EXTENDS SpikeTracker, TLC

CONSTANTS build, make, other, i1, i2, i3

Reading(rss, cpu) == [rss |-> rss, swap |-> 0, cpu |-> cpu, faults |-> FALSE]

Desktop  == build :> i1 @@ make :> i2 @@ other :> i3
Priority == build :> 50 @@ make :> 70 @@ other :> 80
Swinging ==
    build :> {Reading(1, "idle"), Reading(4, "hot")}
 @@ make  :> {Reading(1, "idle"), Reading(4, "busy")}
 @@ other :> {Reading(2, "idle")}

OnUnlimited == [on |-> TRUE, limit |-> 0]
OffLimited  == [on |-> FALSE, limit |-> 1]
Reloads     == {OnUnlimited, OffLimited}
=============================================================================
