---------------------------- MODULE MCCgroupLimits ----------------------------
(***************************************************************************)
(* CgroupLimits for TLC, on two instances, of which a behaviour runs one   *)
(* and leaves the other where it begins.                                   *)
(*                                                                         *)
(* The first, from the .cfg: three processes of two cgroups, none of them  *)
(* ever held; one cgroup of two processes, of which one is excluded from   *)
(* the throttle, and one of a spike alone.  The second, Held: two          *)
(* processes of one cgroup, which are frozen and made victims, the         *)
(* important one of them spiking.                                          *)
(***************************************************************************)
EXTENDS CgroupLimits

CONSTANTS p1, p2, p3, g1, g2

VARIABLES
    watch,   \* the instance that the behaviour is of
    hAlive, hFresh, hFrozen, hVictims, hActive, hLimit, hNap, hMemcap, hTracking, hSpiked,
    hLevel, hServed, hUp

OneAlone  == [p \in Procs |-> IF p = p3 THEN g2 ELSE g1]
TwoTiers  == [p \in Procs |-> IF p = p1 THEN "background" ELSE "expendable"]
Couple    == {p1, p2}
Together  == [p \in Couple |-> g1]
HeldTiers == [p \in Couple |-> IF p = p1 THEN "background" ELSE "important"]

Held == INSTANCE CgroupLimits WITH
    Procs <- Couple, Cgroups <- {g1}, CgroupOf <- Together, Tier <- HeldTiers,
    Excluded <- {}, Spikes <- {p2}, MayHold <- TRUE, HasTrigger <- TRUE,
    alive <- hAlive, fresh <- hFresh, frozen <- hFrozen, victims <- hVictims,
    active <- hActive, limit <- hLimit, nap <- hNap, memcap <- hMemcap,
    tracking <- hTracking, spiked <- hSpiked, level <- hLevel, served <- hServed, up <- hUp

heldVars == <<hAlive, hFresh, hFrozen, hVictims, hActive, hLimit, hNap, hMemcap, hTracking,
              hSpiked, hLevel, hServed, hUp>>

BothInit ==
    /\ watch \in {"free", "held"}
    /\ Init /\ Held!Init
    /\ watch # "free" => alive = {}      \* one state to rest in
    /\ watch # "held" => hAlive = {}

BothNext ==
    /\ UNCHANGED watch
    /\ \/ watch = "free" /\ Next /\ UNCHANGED heldVars
       \/ watch = "held" /\ Held!Next /\ UNCHANGED vars

\* The fairness of CgroupLimits.
BothSpec == BothInit /\ [][BothNext]_<<watch, vars, heldVars>> /\ WF_vars(watch = "free" /\ Polling)

-----------------------------------------------------------------------------
\* Below High no memory.max is in force, whatever the focus, processes that share a cgroup,
\* holds and the interval of the throttle do (throttle.rs:253-330, evictor/mod.rs:339-341).
CapsLeave == CapsOnlyAtHigh /\ Held!CapsOnlyAtHigh
=============================================================================
