---------------------------- MODULE MCHousekeeping ----------------------------
(***************************************************************************)
(* The watchers of the evictor, the recovery manager and the maintenance   *)
(* thread, on small instances.  None reads what another writes, so that a  *)
(* behaviour of all of them is one of each: a run looks at one of them,    *)
(* and leaves the others where they begin.                                 *)
(***************************************************************************)
EXTENDS Housekeeping, Sequences, TLC

CONSTANTS
    editor, mail,                    \* IdleWatch
    player, store, update,           \* AutoKill: store and update share a pid
    server,                          \* LeakGuard: a family
    stopped1, stopped2, dumped, huge    \* RestoreGate

VARIABLES
    watch,   \* the watcher that the behaviour is of
    avail, gateCalm, average, samples, gateHeld

-----------------------------------------------------------------------------
TwoPids   == editor :> 1 @@ mail :> 2
StorePids == player :> 1 @@ store :> 2 @@ update :> 2
OneFamily == [i \in LeakPids |-> server]
FirstBig  == [i \in LeakPids |-> IF i = 1 THEN 2 ELSE 1]
Loads     == {<<30, 0>>, <<4, 1>>, <<40, 6>>}
NoLoad    == <<30, 0>>
Weights   == [evictor |-> 1, maintenance |-> 2]
Defaults  == [elevated |-> 5, high |-> 25, critical |-> 50, emergency |-> 70,
              fullCritical |-> 20]
Backward  == {-2}
Cooldowns == [early |-> 2, drop |-> 3]

GateProcs == {stopped1, stopped2, dumped, huge}
GateSizes == stopped1 :> 0 @@ stopped2 :> 0 @@ dumped :> 40 @@ huge :> 200

Gate == INSTANCE RestoreGate WITH
    Procs <- GateProcs, SizeOf <- GateSizes,
    Avails <- {300, 600}, TotalMem <- 800, MaxUnfreeze <- 1, ColdSamples <- 3,
    calm <- gateCalm, held <- gateHeld

ASSUME GateAssumption == Gate!ProcsAssumption /\ Gate!LimitsAssumption

Watches == {"idle", "kill", "leak", "calibrator", "gate", "gates"}
idleVars  == <<idleLive, idleHeld, idleVictims, focus, freezing, lastFocus, idleCalm, swap,
               checkAge, reclaimAge, freezeAge, seen>>
killVars  == <<killLive, killHeld, ran, lastActive, killTermed, quiet>>
leakVars  == <<leakLive, groups, leakTermed, ages, elders, struck, rested>>
calVars   == <<pressure, treated, flight, evidence, inStall, dirty, pending, phase, file,
               proposed, episodes, late, kept, failed>>
gateVars  == <<avail, gateCalm, average, samples, gateHeld>>
gatesVars == <<level, age, jumps, since>>
vars      == <<watch, idleVars, killVars, leakVars, calVars, gateVars, gatesVars>>

Init ==
    /\ watch \in Watches
    /\ Idle!Init /\ Kill!Init /\ Leak!Init /\ Calibrator!Init /\ Gate!Init /\ Gates!Init
    /\ watch # "idle" => freezing /\ swap = "fine"     \* one state to rest in
    /\ watch # "gate" => avail = 600

Rest(S) ==
    /\ UNCHANGED watch
    /\ "idle" \in S => UNCHANGED idleVars
    /\ "kill" \in S => UNCHANGED killVars
    /\ "leak" \in S => UNCHANGED leakVars
    /\ "calibrator" \in S => UNCHANGED calVars
    /\ "gate" \in S => UNCHANGED gateVars
    /\ "gates" \in S => UNCHANGED gatesVars

Next ==
    \/ watch = "idle" /\ Idle!Next /\ Rest(Watches \ {"idle"})
    \/ watch = "kill" /\ Kill!Next /\ Rest(Watches \ {"kill"})
    \/ watch = "leak" /\ Leak!Next /\ Rest(Watches \ {"leak"})
    \/ watch = "calibrator" /\ Calibrator!Next /\ Rest(Watches \ {"calibrator"})
    \/ watch = "gate" /\ Gate!Next /\ Rest(Watches \ {"gate"})
    \/ watch = "gates" /\ Gates!Next /\ Rest(Watches \ {"gates"})

\* The fairness of IdleWatch, RestoreGate and ReclaimGates.
Fairness ==
    /\ WF_idleVars(watch = "idle" /\ UNCHANGED swap /\ Idle!CalmTick)
    /\ WF_gateVars(watch = "gate" /\ Gate!Tick)
    /\ WF_gatesVars(watch = "gates" /\ \E gap \in {1} : Gates!Cycle(level, gap))

Spec == Init /\ [][Next]_vars /\ Fairness

-----------------------------------------------------------------------------
\* Nobody waits for ever: the cap per check keeps no idle candidate out
\* (idle_reclaim.rs:98), the restore gate opens for whatever leaves its margin once the
\* load settles (health.rs:33), and a clock that was put back only delays a measure
\* (early_reclaim.rs:31-36).
NobodyStarves ==
    /\ watch = "idle" => Idle!EveryoneServed
    /\ watch = "gate" => Gate!LetGo
    /\ watch = "gates" => Gates!TakenAgain
=============================================================================
