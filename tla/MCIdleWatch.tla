----------------------------- MODULE MCIdleWatch -----------------------------
(***************************************************************************)
(* IdleWatch with one process that gets the focus and loses it again, to   *)
(* check what docs/ARCHITECTURE.md says of the time in the background.     *)
(***************************************************************************)
EXTENDS IdleWatch

CONSTANT editor

VARIABLE away   \* history: time since a cycle found the focus on the process, or it came

EditorPid == [p \in Procs |-> 1]

AwayInit == away = 0

AwayNext ==
    away' = IF editor \notin live THEN 0
            ELSE IF CalmTick \/ \E normal \in BOOLEAN : FullCycle(normal)
            THEN IF focus = PidOf[editor] THEN 0 ELSE Older(away, 1)
            ELSE away

AwaySpec == Init /\ AwayInit /\ [][Next /\ AwayNext]_<<vars, away>>

\* docs/ARCHITECTURE.md:388: the memory of a process is pushed out only when it has "been
\* continuously in the background for >= idle_sec", as far as the evictor itself has seen.
ContinuouslyIdle ==
    [][seen'[editor].pushed = 0 /\ seen[editor].pushed > 0
           => away' >= IdleFor(editor)]_<<vars, away>>
=============================================================================
