------------------------------- MODULE PsiWake -------------------------------
(***************************************************************************)
(* How the evictor waits for pressure: the helper that arms a PSI trigger  *)
(* and writes a byte into a pipe for each event, the epoll trigger and the *)
(* polls that stand in for it, and the loop of evictor::run around them up *)
(* to the reading of PSI.  The level that a reading gives is that of       *)
(* PressureController; here it is free as long as there is load.           *)
(***************************************************************************)
EXTENDS Integers

CONSTANTS
    Loads,     \* stall of a window, in percent
    Pcts,      \* elevated_pct as it may be configured
    HasEpoll,  \* a pressure file may be armed by the daemon itself
    MaxPipe,   \* bound: bytes in the pipe
    MaxDeaths  \* bound: times that the helper dies

LoadsAssumption ==
    Loads \subseteq Nat /\ 0 \in Loads /\ Pcts \subseteq Nat \ {0} /\ Pcts # {}
WakeAssumption == HasEpoll \in BOOLEAN /\ MaxPipe \in Nat \ {0} /\ MaxDeaths \in Nat

VARIABLES
    load,     \* the stall of the current window
    pct,      \* psi_elevated_pct
    sub,      \* psi_subprocess is Some
    helper,   \* the threshold that the running helper has armed, or None
    pipe,     \* bytes that the helper wrote and nobody read
    trigger,  \* the threshold of psi_trigger, or None
    level,    \* last_level
    at,       \* where the evictor is: top, wait or read
    beat,     \* history: flips with every full cycle
    deaths

vars == <<load, pct, sub, helper, pipe, trigger, level, at, beat, deaths>>

None      == 0
Positions == {"top", "wait", "read"}
Level     == {"normal", "raised"}

-----------------------------------------------------------------------------
\* PsiSubprocess::new: the old helper, if any, is killed with its pipe.
Spawn(ok) ==
    /\ sub' = ok /\ helper' = IF ok THEN pct' ELSE None
    /\ pipe' = 0

\* PsiTrigger::new(..).ok()
Epoll == IF HasEpoll THEN pct ELSE None

Init ==
    /\ load \in Loads /\ pct \in Pcts
    /\ sub \in BOOLEAN /\ helper = (IF sub THEN pct ELSE None) /\ pipe = 0
    /\ trigger = IF sub THEN None ELSE Epoll
    /\ level = "normal" /\ at = "top" /\ beat = 0 /\ deaths = 0

Change(l) ==
    /\ load' = l
    /\ UNCHANGED <<pct, sub, helper, pipe, trigger, level, at, beat, deaths>>

\* The kernel reports at most one event for each window.
Report ==
    /\ helper # None /\ load >= helper /\ pipe < MaxPipe
    /\ pipe' = pipe + 1
    /\ UNCHANGED <<load, pct, sub, helper, trigger, level, at, beat, deaths>>

Die ==
    /\ helper # None /\ deaths < MaxDeaths
    /\ helper' = None /\ deaths' = deaths + 1
    /\ UNCHANGED <<load, pct, sub, pipe, trigger, level, at, beat>>

\* The top of the loop: a changed threshold goes to a new helper, and not to psi_trigger.
Top(c) ==
    /\ at = "top" /\ at' = "wait"
    /\ pct' = c
    /\ IF c = pct THEN UNCHANGED <<sub, helper, pipe>> ELSE \E ok \in BOOLEAN : Spawn(ok)
    /\ UNCHANGED <<load, trigger, level, beat, deaths>>

\* A byte is read for each event; above Normal the evictor sleeps and reads none.
Event ==
    /\ at = "wait" /\ level = "normal" /\ sub /\ pipe > 0
    /\ pipe' = pipe - 1 /\ at' = "read"
    /\ UNCHANGED <<load, pct, sub, helper, trigger, level, beat, deaths>>

\* Mutated form of HelperDied: no fall-back.
HelperDiedAlone ==
    /\ at = "wait" /\ level = "normal" /\ sub /\ pipe = 0 /\ helper = None
    /\ at' = "top"
    /\ UNCHANGED <<load, pct, sub, helper, pipe, trigger, level, beat, deaths>>

\* The end of a dead helper shows when its pipe is empty.
HelperDied ==
    /\ at = "wait" /\ level = "normal" /\ sub /\ pipe = 0 /\ helper = None
    /\ UNCHANGED pct
    /\ \E ok \in BOOLEAN :
        /\ Spawn(ok)
        /\ trigger' = IF ~ok /\ trigger = None THEN Epoll ELSE trigger
    /\ at' = "read"
    /\ UNCHANGED <<load, level, beat, deaths>>

\* A wait of 5 s ends without an event if no window of it reached the threshold.
Timeout ==
    /\ at = "wait" /\ level = "normal"
    /\ \/ sub /\ pipe = 0 /\ helper > load
       \/ ~sub /\ trigger > load
    /\ at' = "top"
    /\ UNCHANGED <<load, pct, sub, helper, pipe, trigger, level, beat, deaths>>

EpollEvent ==
    /\ at = "wait" /\ level = "normal" /\ ~sub /\ trigger # None /\ load >= trigger
    /\ at' = "read"
    /\ UNCHANGED <<load, pct, sub, helper, pipe, trigger, level, beat, deaths>>

Sleep ==
    /\ at = "wait" /\ (level # "normal" \/ (~sub /\ trigger = None))
    /\ at' = "read"
    /\ UNCHANGED <<load, pct, sub, helper, pipe, trigger, level, beat, deaths>>

ReadError ==
    /\ at = "read" /\ at' = "top"
    /\ UNCHANGED <<load, pct, sub, helper, pipe, trigger, level, beat, deaths>>

FullCycle ==
    /\ at = "read" /\ at' = "top"
    /\ level' \in IF load >= pct THEN Level ELSE {"normal"}
    /\ beat' = 1 - beat
    /\ UNCHANGED <<load, pct, sub, helper, pipe, trigger, deaths>>

Wait == Event \/ HelperDied \/ Timeout \/ EpollEvent \/ Sleep

Next ==
    \/ \E l \in Loads : Change(l)
    \/ Report \/ Die
    \/ \E c \in Pcts : Top(c)
    \/ Wait \/ ReadError \/ FullCycle

Spec == Init /\ [][Next]_vars

\* The helper and the evictor run, a wait ends after 5 s, and PSI can be read again
\* and again.
Fairness ==
    /\ WF_vars(Report)
    /\ WF_vars(Top(pct)) /\ WF_vars(Wait)
    /\ SF_vars(FullCycle)

-----------------------------------------------------------------------------
TypeOK ==
    /\ load \in Loads /\ pct \in Pcts /\ sub \in BOOLEAN
    /\ helper \in Pcts \cup {None} /\ trigger \in Pcts \cup {None}
    /\ pipe \in 0..MaxPipe /\ level \in Level /\ at \in Positions
    /\ beat \in {0, 1} /\ deaths \in 0..MaxDeaths

Always(l) == \A p \in Pcts : l >= p
Never(l)  == \A p \in Pcts : l < p

\* Load that stays is seen: when the stall reaches every threshold that was ever
\* configured, and stays there, the evictor reads it again and again, whatever happens to
\* the helper (evictor/mod.rs:156-200, psi.rs:133-157).
PressureNoticed == <>[]Always(load) => []<><<FullCycle>>_vars

\* When the load is gone, and something is armed, the evictor comes to rest: the bytes left
\* in the pipe cost one cycle each, and no more (psi.rs:143-149).
ComesToRest ==
    <>[](Never(load) /\ (sub \/ trigger # None)) => <>[][~FullCycle]_vars

\* A threshold of the current configuration decides (config/priorities.toml:130-133).
ArmedAsConfigured == ~sub /\ trigger # None => trigger = pct
=============================================================================
