----------------------------- MODULE PlasmaShell -----------------------------
(***************************************************************************)
(* How mgd-kde restarts a plasmashell that leaks GPU memory: a GPU plugin  *)
(* tells the daemon what each process uses, mgd-kde asks the daemon every  *)
(* 10 s, and acts on the answer before this one.  Messages pass through    *)
(* one socket in order, and the daemon answers each.                       *)
(*                                                                         *)
(* Two processes of plasmashell follow each other, with pids of their own. *)
(* Time is counted in rounds of mgd-kde.                                   *)
(***************************************************************************)
EXTENDS Integers, Sequences

CONSTANTS
    Sizes,     \* GPU memory of a process, 0 among them
    Threshold, \* gpu_leak_threshold_mb
    Cooldown,  \* min_restart_interval_min
    Slow,      \* the daemon may take longer than a round to answer
    MaxQueue   \* bound on the queues

SizesAssumption == Sizes \subseteq Nat /\ 0 \in Sizes /\ Threshold \in Nat
ShellAssumption == Cooldown \in Nat /\ Slow \in BOOLEAN /\ MaxQueue \in Nat \ {0, 1}

VARIABLES
    shell,  \* the process that runs
    used,   \* what it uses
    seen,   \* GPU_CACHE: of each process, what was observed last; 0 when nothing was
    gpu,    \* gpu_kb_cache of mgd-kde
    asked,  \* mgd-kde is within a round
    age,    \* rounds since LAST_PLASMA_RESTART
    toCore, toKde, \* messages under way
    due,    \* systemd was asked for a restart
    leaked, \* history: the processes that were observed above the threshold
    since   \* history: rounds since the last restart

vars == <<shell, used, seen, gpu, asked, age, toCore, toKde, due, leaked, since>>

Shells == {0, 1}
Capped(n, cap) == IF n < cap THEN n ELSE cap
Query(p)  == [type |-> "query", pid |-> p, kb |-> 0]
Ask       == [type |-> "restart", pid |-> 0, kb |-> 0]
Answer(n) == [type |-> "gpu", pid |-> 0, kb |-> n]
Approved  == [type |-> "approved", pid |-> 0, kb |-> 0]

Init ==
    /\ shell = 0 /\ used = 0 /\ seen = [p \in Shells |-> 0] /\ gpu = 0 /\ asked = FALSE /\ age = Cooldown
    /\ toCore = <<>> /\ toKde = <<>> /\ due = FALSE /\ leaked = {} /\ since = Cooldown

-----------------------------------------------------------------------------
Use(n) ==
    /\ used' = n
    /\ UNCHANGED <<shell, seen, gpu, asked, age, toCore, toKde, due, leaked, since>>

\* send_gpu_stats, every 5 s, and its effect on GPU_CACHE.
Observe ==
    /\ seen' = [seen EXCEPT ![shell] = used]
    /\ leaked' = IF used > Threshold THEN leaked \cup {shell} ELSE leaked
    /\ UNCHANGED <<shell, used, gpu, asked, age, toCore, toKde, due, since>>

\* A round of mgd-kde up to the query.  The reader thread calls systemctl as soon as it has
\* the approval: no round falls between the two.
Round ==
    /\ ~asked /\ ~due /\ (Slow \/ toCore \o toKde = <<>>)
    /\ Len(toCore) + 2 <= MaxQueue
    /\ age' = Capped(age + 1, Cooldown) /\ since' = Capped(since + 1, Cooldown)
    /\ IF age < Cooldown THEN UNCHANGED <<asked, toCore>>
       ELSE asked' = TRUE /\ toCore' = Append(toCore, Query(shell))
    /\ UNCHANGED <<shell, used, seen, gpu, toKde, due, leaked>>

\* The rest of it acts on what is cached, which is seldom the answer to this query.
Decide ==
    /\ asked /\ asked' = FALSE
    /\ IF gpu > Threshold THEN gpu' = 0 /\ toCore' = Append(toCore, Ask)
       ELSE UNCHANGED <<gpu, toCore>>
    /\ UNCHANGED <<shell, used, seen, age, toKde, due, leaked, since>>

\* process_plugin_line: every request is approved.
Core ==
    /\ toCore # <<>> /\ Len(toKde) < MaxQueue
    /\ toCore' = Tail(toCore)
    /\ toKde' = Append(toKde, IF Head(toCore).type = "query"
                              THEN Answer(seen[Head(toCore).pid]) ELSE Approved)
    /\ UNCHANGED <<shell, used, seen, gpu, asked, age, due, leaked, since>>

\* The reader thread of mgd-kde.
Receive ==
    /\ toKde # <<>> /\ toKde' = Tail(toKde)
    /\ IF Head(toKde).type = "gpu" THEN gpu' = Head(toKde).kb /\ UNCHANGED <<age, due, since>>
       ELSE due' = TRUE /\ age' = 0 /\ since' = 0 /\ UNCHANGED gpu
    /\ UNCHANGED <<shell, used, seen, asked, toCore, leaked>>

\* systemctl --user restart: a new process, of which nothing is known.
Systemd ==
    /\ due /\ due' = FALSE
    /\ shell' = 1 - shell /\ used' = 0
    /\ seen' = [seen EXCEPT ![1 - shell] = 0] /\ leaked' = leaked \ {1 - shell}
    /\ UNCHANGED <<gpu, asked, age, toCore, toKde, since>>

Next ==
    \/ \E n \in Sizes : Use(n)
    \/ Observe \/ Round \/ Decide \/ Core \/ Receive \/ Systemd

Spec == Init /\ [][Next]_vars

\* The GPU plugin, mgd-kde, the daemon and systemd run.
Fairness ==
    /\ WF_vars(Observe) /\ WF_vars(Round \/ Decide) /\ WF_vars(Core) /\ WF_vars(Receive)
    /\ WF_vars(Systemd)

-----------------------------------------------------------------------------
Messages == [type : {"query", "restart", "gpu", "approved"}, pid : Shells, kb : Sizes]

TypeOK ==
    /\ shell \in Shells /\ used \in Sizes /\ seen \in [Shells -> Sizes]
    /\ gpu \in Sizes /\ asked \in BOOLEAN /\ age \in 0..Cooldown
    /\ toCore \in Seq(Messages) /\ toKde \in Seq(Messages)
    /\ due \in BOOLEAN /\ leaked \subseteq Shells /\ since \in 0..Cooldown

\* Between two restarts lies min_restart_interval_min, although mgd-kde learns of the first
\* only when the daemon answers (mgd-kde/src/main.rs:80-91, 206-209, 232).
RestartsSpaced == [][since' < since => since >= Cooldown]_vars

\* A shell that leaks is restarted (mgd-kde/src/main.rs:204-235).
LeakEnds == []<>(used <= Threshold)

\* "restart when plasmashell GPU mem exceeds this" (config/priorities.toml:29): the process
\* that is restarted has itself been above the threshold.
OnlyLeaking == [][shell' # shell => shell \in leaked]_vars
=============================================================================
