------------------------------- MODULE AutoKill -------------------------------
(***************************************************************************)
(* check_auto_kill_idle of the maintenance thread: processes that have a   *)
(* rule for it are terminated when they have lain idle for long enough.    *)
(* A process is idle when it used no CPU since anybody listed the          *)
(* processes: the evictor, a command and this thread share the counts of   *)
(* list_processes.                                                         *)
(*                                                                         *)
(* Several processes may have one pid in turn.  Time is counted in samples *)
(* of the maintenance, and clocks are ages.                                *)
(***************************************************************************)
EXTENDS Integers, FiniteSets

CONSTANTS
    Procs, First,    \* processes, and those that run at the start
    PidOf,           \* the pid of a process
    Rules,           \* processes that auto_kill_idle_after names
    KillAfter,       \* auto_kill_idle_after
    MaxAge           \* bound on the ages that are told apart

ProcsAssumption ==
    /\ First \subseteq Procs /\ Rules \subseteq Procs
    /\ \A p, q \in First : PidOf[p] = PidOf[q] => p = q
LimitsAssumption == MaxAge \in Nat /\ KillAfter \in 1..MaxAge

VARIABLES
    live,        \* processes that run or are stopped
    held,        \* those in the frozen registry
    ran,         \* processes that used CPU since the processes were listed (CPU_CACHE)
    lastActive,  \* auto_kill_last_active
    termed,      \* processes that got the SIGTERM
    quiet        \* history: time since a sample saw the process first, or saw it run

vars == <<live, held, ran, lastActive, termed, quiet>>

Ages    == 0..MaxAge
NoClock == -1
Clocks  == Ages \cup {NoClock}
Older(a)   == IF a = NoClock \/ a = MaxAge THEN a ELSE a + 1
Started(a) == IF a = NoClock THEN 0 ELSE a

-----------------------------------------------------------------------------
\* Mutated form of KeyOf: the pid alone.
KeyOfPid(p) == CHOOSE q \in Procs : PidOf[q] = PidOf[p]

\* A process is known by pid and start time.
KeyOf(p) == p

Sampled == (live \cap Rules) \ held

Elapsed(p) == IF p \in ran THEN 0 ELSE Started(lastActive[KeyOf(p)])

Init ==
    /\ live = First /\ held = {} /\ ran = First
    /\ lastActive = [p \in Procs |-> NoClock]
    /\ termed = {} /\ quiet = [p \in Procs |-> NoClock]

\* Time passes without a sample: pressure is not Normal.
Pass ==
    /\ lastActive' = [p \in Procs |-> Older(lastActive[p])]
    /\ quiet' = [p \in Procs |-> Older(quiet[p])]
    /\ UNCHANGED <<live, held, ran, termed>>

\* One sample.  The clock of a frozen process is left as it is.
Sample ==
    LET idle == {p \in Sampled : Elapsed(p) >= KillAfter}
    IN /\ termed' = termed \cup idle
       /\ lastActive' = [q \in Procs |->
              IF \E p \in idle : KeyOf(p) = q THEN NoClock
              ELSE IF \E p \in Sampled : KeyOf(p) = q
              THEN Elapsed(CHOOSE p \in Sampled : KeyOf(p) = q)
              ELSE IF \E p \in live : KeyOf(p) = q THEN lastActive[q]
              ELSE NoClock]
       /\ quiet' = [p \in Procs |->
              IF p \notin live \cap Rules THEN NoClock
              ELSE IF p \in held THEN quiet[p]
              ELSE IF p \in ran THEN 0 ELSE Started(quiet[p])]
       /\ ran' = {}
       /\ UNCHANGED <<live, held>>

\* Somebody else lists the processes.
List ==
    /\ ran' = {}
    /\ UNCHANGED <<live, held, lastActive, termed, quiet>>

Start(p) ==
    /\ \A q \in live : PidOf[q] # PidOf[p]
    /\ live' = live \cup {p} /\ ran' = ran \cup {p}
    /\ UNCHANGED <<held, lastActive, termed, quiet>>

\* It never comes back with the same start time.
Exit(p) ==
    /\ p \in live
    /\ live' = live \ {p} /\ held' = held \ {p} /\ ran' = ran \ {p} /\ termed' = termed \ {p}
    /\ lastActive' = [lastActive EXCEPT ![p] = NoClock]
    /\ quiet' = [quiet EXCEPT ![p] = NoClock]

Run(p) ==
    /\ p \in live \ held
    /\ ran' = ran \cup {p}
    /\ UNCHANGED <<live, held, lastActive, termed, quiet>>

Hold(p) ==
    /\ p \in live \ held
    /\ held' = held \cup {p}
    /\ UNCHANGED <<live, ran, lastActive, termed, quiet>>

Release(p) ==
    /\ p \in held
    /\ held' = held \ {p}
    /\ UNCHANGED <<live, ran, lastActive, termed, quiet>>

Next ==
    \/ Pass \/ Sample \/ List
    \/ \E p \in Procs : Start(p) \/ Exit(p) \/ Run(p) \/ Hold(p) \/ Release(p)

Spec == Init /\ [][Next]_vars

-----------------------------------------------------------------------------
\* Types of the variables.
TypeOK ==
    /\ live \subseteq Procs /\ held \subseteq live /\ ran \subseteq live /\ termed \subseteq live
    /\ lastActive \in [Procs -> Clocks] /\ quiet \in [Procs -> Clocks]

\* The auto-kill ends only a process that it has itself sampled for auto_kill_idle_after
\* without seeing it run, not a later one under the same pid (maintenance.rs:205-236).
KilledWhenQuiet ==
    [][\A p \in termed' \ termed : quiet'[p] >= KillAfter]_vars
=============================================================================
