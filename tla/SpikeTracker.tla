---------------------------- MODULE SpikeTracker ----------------------------
(***************************************************************************)
(* The spike mode: which processes are taken for builds whose memory       *)
(* swings, which others are stopped to leave them room, and when these are *)
(* continued.  One cycle of the evictor, calm or under pressure, is one    *)
(* step: release_victims, SpikeTracker::update and the decisions it        *)
(* returns, all in the evictor thread and over one list of processes.      *)
(*                                                                         *)
(* The tracker knows a process by its pid only, and several processes may  *)
(* have one pid in turn.  Memory and time are counted in units of any      *)
(* size; times are ages, which grow with the gap between two cycles.       *)
(***************************************************************************)
EXTENDS Integers, Sequences, FiniteSetsExt

CONSTANTS
    Procs, First,     \* processes, and those that run at the start
    NoPid, Windows,   \* pids that a desktop plugin may report as the active window
    PidOf,            \* the pid of a process
    Prio,             \* its priority
    ReadingsOf,       \* what a cycle may read of it: see Readings
    Avails,           \* available RAM that a cycle may read
    Configs,          \* [spike_mode] as it may be reloaded: see Settings
    Include, Exclude, \* processes matched by these lists
    VictimExclude,
    Gaps,             \* time from one cycle to the next
    WindowSec, MinRss, GrowthThreshold, MinSamples, DropPct, HeadroomPct,
    IdleRssDelta, IdleTicks, VictimMinRss, CooldownSec,
    MaxLimit,         \* bound on max_victim_freeze_sec
    QuickReuse        \* a pid may be taken again before a cycle has missed it

Pids     == {PidOf[p] : p \in Procs}
Levels   == {"idle", "busy", "hot"}     \* CPU below, between, above both limits
Readings == [rss : Nat, swap : Nat, cpu : Levels, faults : BOOLEAN]
Settings == [on : BOOLEAN, limit : Nat] \* enabled, max_victim_freeze_sec

ASSUME ProcsAssumption ==
    /\ IsFiniteSet(Procs)
    /\ First \subseteq Procs /\ \A p, q \in First : PidOf[p] = PidOf[q] => p = q
    /\ PidOf \in [Procs -> Pids] /\ NoPid \notin Pids /\ Windows \subseteq Pids
    /\ Prio \in [Procs -> 0..100]
ASSUME ReadingsAssumption ==
    /\ ReadingsOf \in [Procs -> SUBSET Readings]
    /\ Avails \subseteq Nat /\ Gaps \subseteq Nat \ {0}
    /\ Configs \subseteq Settings /\ Configs # {}
    /\ MaxLimit \in Nat /\ \A c \in Configs : c.limit <= MaxLimit
ASSUME ListsAssumption ==
    Include \subseteq Procs /\ Exclude \subseteq Procs /\ VictimExclude \subseteq Procs
ASSUME LimitsAssumption ==
    /\ WindowSec \in Nat /\ MinRss \in Nat /\ GrowthThreshold \in Nat
    /\ MinSamples \in Nat /\ DropPct \in 0..100 /\ HeadroomPct \in Nat
    /\ IdleRssDelta \in Nat /\ IdleTicks \in Nat \ {0}
    /\ VictimMinRss \in Nat /\ CooldownSec \in Nat
ASSUME SwitchAssumption == QuickReuse \in BOOLEAN

VARIABLES
    live,      \* processes that run or are stopped
    stopped,   \* those that got a SIGSTOP
    tracker,   \* struct SpikeTracker
    cfg,       \* the settings in force
    requests,  \* spike_release_requests
    focus,     \* ACTIVE_FOREGROUND_PID
    room,      \* history: the available RAM of the last cycle
    seen       \* history: what the cycles have read of each process

vars == <<live, stopped, tracker, cfg, requests, focus, room, seen>>

Owner(pid) == CHOOSE p \in live : PidOf[p] = pid
Listed     == {PidOf[p] : p \in live}
Capped(n, cap) == IF n < cap THEN n ELSE cap
Less(a, b)     == IF a > b THEN a - b ELSE 0       \* saturating_sub

-----------------------------------------------------------------------------
(* The tracker: a state per pid, or NoState; the RSS of the last cycle, or *)
(* Unread; the victims; the age of the last cooldown of a pid.             *)

Unread  == -1
NoState == [phase |-> "none", samples |-> {}, initial |-> 0, peaked |-> FALSE,
            oscillated |-> FALSE, throttled |-> FALSE, idle |-> 0]

Samples     == [rss : Nat, age : Nat]
SpikeStates ==
    [phase : {"none", "Observing", "Tracking"}, samples : SUBSET Samples, initial : Nat,
     peaked : BOOLEAN, oscillated : BOOLEAN, throttled : BOOLEAN, idle : Nat]
Victims     == [proc : Procs, age : Nat]
Trackers    ==
    [spikes : [Pids -> SpikeStates], prev : [Pids -> Nat \cup {Unread}],
     victims : SUBSET Victims, cool : [Pids -> Nat]]

SpikePids(t)   == {i \in Pids : t.spikes[i].phase # "none"}
Tracking(t)    == {i \in Pids : t.spikes[i].phase = "Tracking"}
VictimPids(t)  == {PidOf[v.proc] : v \in t.victims}
VictimProcs(t) == {v.proc : v \in t.victims}

\* Time has passed since the last cycle.  Ages stop where nothing tells them apart.
Older(x, gap, cap) == [x EXCEPT !.age = Capped(@ + gap, cap)]

OlderSamples(s, gap) ==
    [s EXCEPT !.samples = {Older(x, gap, WindowSec + 1) : x \in @}]

Aged(t, gap) ==
    [t EXCEPT !.spikes  = [i \in Pids |-> OlderSamples(@[i], gap)],
              !.victims = {Older(v, gap, MaxLimit) : v \in @},
              !.cool    = [i \in Pids |-> Capped(@[i] + gap, CooldownSec)]]

-----------------------------------------------------------------------------
(* release_victims: those of spikes that are gone, those past their limit, *)
(* orphans, and those asked for.                                           *)

\* Mutated form of DrainIfNoneTracking: victims go with the first spike.
DrainAtOnce(t) == [t EXCEPT !.victims = {}]

DrainIfNoneTracking(t) ==
    IF Tracking(t) # {} THEN t ELSE [t EXCEPT !.victims = {}]

OnSpikeExit(t, pids) ==
    DrainIfNoneTracking(
        [t EXCEPT !.spikes = [i \in Pids |-> IF i \in pids THEN NoState ELSE @[i]],
                  !.prev   = [i \in Pids |-> IF i \in pids THEN Unread ELSE @[i]]])

\* These victims leave the books, and stay out of them for a while.
Rested(t, some) ==
    [t EXCEPT !.victims = @ \ some,
              !.cool = [i \in Pids |-> IF \E v \in some : PidOf[v.proc] = i THEN 0 ELSE @[i]]]

DrainTimedOut(t, limit) ==
    IF limit = 0 THEN t ELSE Rested(t, {v \in t.victims : v.age >= limit})

\* Mutated form of ReleaseRequested: without the cooldown.
ReleaseOnly(t, pids) == [t EXCEPT !.victims = {v \in @ : PidOf[v.proc] \notin pids}]

ReleaseRequested(t, pids) == Rested(t, {v \in t.victims : PidOf[v.proc] \in pids})

ReleaseVictims(t) ==
    LET gone   == SpikePids(t) \ Listed
        exited == IF gone = {} THEN t ELSE OnSpikeExit(t, gone)
    IN ReleaseRequested(DrainIfNoneTracking(DrainTimedOut(exited, cfg.limit)), requests)

-----------------------------------------------------------------------------
(* SpikeTracker::update.  read gives what was read of each live process.   *)

Fresh(initial) ==
    [NoState EXCEPT !.phase = "Observing", !.initial = initial]

Growth(t, p, r) == IF t.prev[PidOf[p]] = Unread THEN 0 ELSE Less(r.rss, t.prev[PidOf[p]])

\* A process is taken when it is listed, or large and growing or faulting.
IsCandidate(t, p, r) ==
    /\ p \notin Exclude
    /\ \/ p \in Include
       \/ /\ r.rss >= MinRss
          /\ \/ Growth(t, p, r) > GrowthThreshold
             \/ r.faults /\ t.prev[PidOf[p]] # Unread

Register(t, p, r) ==
    IF t.spikes[PidOf[p]].phase # "none" THEN t.spikes[PidOf[p]]
    ELSE IF ~IsCandidate(t, p, r) THEN NoState
    ELSE Fresh(IF t.prev[PidOf[p]] = Unread THEN r.rss ELSE t.prev[PidOf[p]])

\* rss_max: the peak of the window.
RssMax(s) == IF s.samples = {} THEN s.initial ELSE Max({x.rss : x \in s.samples})

\* The new sample, and those of the window.
Sampled(s, r) ==
    [s EXCEPT !.samples =
        {x \in @ : x.age <= WindowSec} \cup {[rss |-> r.rss, age |-> 0]}]

Measured(s, r) ==
    LET u      == Sampled(s, r)
        peaked == s.peaked \/ RssMax(u) > s.initial + GrowthThreshold
    IN [u EXCEPT !.peaked = peaked,
                 !.oscillated = @ \/ (peaked /\ r.rss < (RssMax(u) * DropPct) \div 100)]

\* Mutated form of Swings: a peak is enough.
SwingsUp(s) == s.peaked /\ Cardinality(s.samples) >= MinSamples

Swings(s) == s.peaked /\ s.oscillated /\ Cardinality(s.samples) >= MinSamples

IsIdle(r, growth) == r.cpu = "idle" /\ growth < IdleRssDelta

\* Mutated form of Phase: ticks that are not idle do not restart the count.
PhaseKeepsTicks(s, r, growth) ==
    IF s.phase = "Observing"
    THEN IF Swings(s) THEN [s EXCEPT !.phase = "Tracking", !.idle = 0] ELSE s
    ELSE IF ~IsIdle(r, growth) THEN s
    ELSE IF s.idle + 1 < IdleTicks THEN [s EXCEPT !.idle = @ + 1]
    ELSE Fresh(r.rss)

Phase(s, r, growth) ==
    IF s.phase = "Observing"
    THEN IF Swings(s) THEN [s EXCEPT !.phase = "Tracking", !.idle = 0] ELSE s
    ELSE IF ~IsIdle(r, growth) THEN [s EXCEPT !.idle = 0]
    ELSE IF s.idle + 1 < IdleTicks THEN [s EXCEPT !.idle = @ + 1]
    ELSE Fresh(r.rss)

Advance(t, p, r) ==
    LET s == Register(t, p, r)
    IN IF s.phase = "none" THEN s ELSE Phase(Measured(s, r), r, Growth(t, p, r))

\* CPU check of a Tracking state; not for the active window.
CpuCheck(s, p, r) ==
    IF s.phase = "Tracking" /\ focus # PidOf[p] THEN [s EXCEPT !.throttled = r.cpu = "hot"]
    ELSE s

\* Steps 1 to 3, and the CPU check, which looks at the same reading.
Updated(t, read) ==
    [t EXCEPT
        !.spikes = [i \in Pids |-> IF i \notin Listed THEN @[i]
                    ELSE LET p == Owner(i) IN CpuCheck(Advance(t, p, read[p]), p, read[p])],
        !.prev   = [i \in Pids |-> IF i \in Listed THEN read[Owner(i)].rss ELSE Unread]]

Demoted(t, u) == {i \in Tracking(t) : u.spikes[i].phase = "Observing"}

\* Victims are released with the last spike that went idle.
Settle(t, u) == IF Demoted(t, u) = {} THEN u ELSE DrainIfNoneTracking(u)

\* Headroom for the peaks of all Tracking states together.
SumOfPeaks(t) == LET Peak(i) == RssMax(t.spikes[i]) IN MapThenSumSet(Peak, Tracking(t))
Required(t)   == (SumOfPeaks(t) * HeadroomPct) \div 100
Needed(t, available) == Less(Required(t), available)

-----------------------------------------------------------------------------
(* FreezeForHeadroom: most expendable first, then largest, until the need  *)
(* is covered.                                                             *)

Eligible(t, read) ==
    {p \in live : /\ PidOf[p] \notin SpikePids(t) \cup VictimPids(t)
                  /\ PidOf[p] # focus
                  /\ t.cool[PidOf[p]] >= CooldownSec
                  /\ read[p].rss + read[p].swap >= VictimMinRss
                  /\ Prio[p] >= 60 /\ p \notin VictimExclude}

Sooner(p, q, read) ==
    Prio[p] > Prio[q] \/ (Prio[p] = Prio[q] /\ read[p].rss > read[q].rss)

Orders(S, read) ==
    LET n == Cardinality(S)
    IN {o \in [1..n -> S] :
            \A i, j \in 1..n : i < j => o[i] # o[j] /\ ~Sooner(o[j], o[i], read)}

RssOf(S, read) == LET Rss(p) == read[p].rss IN MapThenSumSet(Rss, S)

FirstOf(order, k) == {order[j] : j \in 1..k}

\* Mutated form of Suffices: one more than the need asks for.
SufficesAmply(order, k, need, read) ==
    /\ k = Len(order) \/ RssOf(FirstOf(order, k), read) > need
    /\ \A l \in 0..(k - 1) : RssOf(FirstOf(order, l), read) <= need

\* The loop stops after k processes.
Suffices(order, k, need, read) ==
    /\ k = Len(order) \/ RssOf(FirstOf(order, k), read) >= need
    /\ \A l \in 0..(k - 1) : RssOf(FirstOf(order, l), read) < need

-----------------------------------------------------------------------------
(* History: for each process the lowest reading since it was demoted last, *)
(* the highest that lies a growth above an earlier one, whether a later    *)
(* one fell below that; how many readings in a row were idle; and the time *)
(* since it was let go while a spike went on.                              *)

Unseen == [low |-> Unread, rise |-> 0, fell |-> FALSE, quiet |-> 0, freed |-> CooldownSec]

Swing(h, r) ==
    LET risen == h.low # Unread /\ r.rss > h.low + GrowthThreshold
        rise  == IF risen /\ r.rss > h.rise THEN r.rss ELSE h.rise
    IN [h EXCEPT !.low  = IF @ = Unread \/ r.rss < @ THEN r.rss ELSE @,
                 !.rise = rise,
                 !.fell = @ \/ (r.rss < (rise * DropPct) \div 100)]

\* u is the tracker after the update.
Seen(p, r, gap, u) ==
    LET h     == seen[p]
        i     == PidOf[p]
        calm  == IsIdle(r, Growth(tracker, p, r))
        goesOn == Tracking(tracker) \cap Tracking(u) # {}
        swung == IF ~cfg.on THEN h
                 ELSE IF i \in Demoted(tracker, u) THEN [Swing(Unseen, r) EXCEPT !.freed = h.freed]
                 ELSE Swing(h, r)
    IN [swung EXCEPT
            !.quiet = IF ~cfg.on THEN h.quiet
                      ELSE IF calm /\ i \in Tracking(tracker) THEN Capped(h.quiet + 1, IdleTicks)
                      ELSE 0,
            !.freed = IF p \in VictimProcs(tracker) \ VictimProcs(u) /\ goesOn THEN 0
                      ELSE Capped(h.freed + gap, CooldownSec)]

-----------------------------------------------------------------------------
Init ==
    /\ live = First /\ stopped = {}
    /\ tracker = [spikes  |-> [i \in Pids |-> NoState], prev |-> [i \in Pids |-> Unread],
                  victims |-> {}, cool |-> [i \in Pids |-> CooldownSec]]
    /\ cfg \in Configs /\ requests = {} /\ focus = NoPid /\ room \in Avails
    /\ seen = [p \in Procs |-> Unseen]

\* One cycle: run_spike_cycle.
Cycle ==
    \E gap \in Gaps, available \in Avails, read \in [live -> UNION {ReadingsOf[p] : p \in live}] :
        /\ \A p \in live : read[p] \in ReadingsOf[p]
        /\ LET t    == ReleaseVictims(Aged(tracker, gap))
               u    == IF cfg.on THEN Settle(t, Updated(t, read)) ELSE t
               need == IF cfg.on THEN Needed(u, available) ELSE 0
           IN \E order \in Orders(Eligible(u, read), read) : \E k \in 0..Len(order) :
                LET new == FirstOf(order, k)
                IN /\ Suffices(order, k, need, read)
                   /\ tracker' = [u EXCEPT !.victims = @ \cup [proc : new, age : {0}]]
                   /\ seen' = [p \in Procs |->
                         IF p \in live THEN Seen(p, read[p], gap, u) ELSE Unseen]
                   /\ stopped' = (stopped \ (VictimProcs(tracker) \ VictimProcs(u))) \cup new
        /\ requests' = {} /\ room' = available
        /\ UNCHANGED <<live, cfg, focus>>

Known(i) ==
    i \in SpikePids(tracker) \cup VictimPids(tracker) \/ tracker.prev[i] # Unread

Start(p) ==
    /\ PidOf[p] \notin Listed /\ p \notin VictimProcs(tracker)
    /\ QuickReuse \/ ~Known(PidOf[p])
    /\ live' = live \cup {p}
    /\ UNCHANGED <<stopped, tracker, cfg, requests, focus, room, seen>>

Exit(p) ==
    /\ p \in live
    /\ live' = live \ {p} /\ stopped' = stopped \ {p}
    /\ seen' = [seen EXCEPT ![p] = Unseen]
    /\ UNCHANGED <<tracker, cfg, requests, focus, room>>

\* mgctl unfreeze names a victim.
Request(i) ==
    /\ i \in VictimPids(tracker)
    /\ requests' = requests \cup {i}
    /\ UNCHANGED <<live, stopped, tracker, cfg, focus, room, seen>>

Focus(i) ==
    /\ focus' = i
    /\ UNCHANGED <<live, stopped, tracker, cfg, requests, room, seen>>

Reload(c) ==
    /\ cfg' = c
    /\ UNCHANGED <<live, stopped, tracker, requests, focus, room, seen>>

Next ==
    \/ Cycle
    \/ \E p \in Procs : Start(p) \/ Exit(p)
    \/ \E i \in Pids : Request(i)
    \/ \E i \in (Windows \cap Listed) \cup {NoPid} : Focus(i)
    \/ \E c \in Configs : Reload(c)

Spec == Init /\ [][Next]_vars

-----------------------------------------------------------------------------
Histories ==
    [low : Nat \cup {Unread}, rise : Nat, fell : BOOLEAN, quiet : Nat, freed : Nat]

TypeOK ==
    /\ live \subseteq Procs /\ stopped \subseteq live
    /\ tracker \in Trackers /\ cfg \in Configs
    /\ requests \subseteq Pids /\ focus \in Pids \cup {NoPid} /\ room \in Avails
    /\ seen \in [Procs -> Histories]

\* As long as one spike goes on Tracking, victims are let go only on request or when
\* max_victim_freeze_sec is over, whichever spike they were stopped for
\* (spike_mode.rs:398: releasing them with their initiator caused churn).
HeldTogether ==
    [][Tracking(tracker) \cap Tracking(tracker') # {} =>
          \A v \in tracker.victims :
              \/ v.proc \in VictimProcs(tracker')
              \/ PidOf[v.proc] \in requests
              \/ cfg.limit > 0 /\ \E gap \in Gaps : v.age + gap >= cfg.limit]_vars

\* A process is acted for as a spike only if it grew past the threshold and then lost
\* a tenth of its peak, both since it was demoted last: a start that only grows is no
\* spike (spike_mode.rs:251-276).
TrackingSwings ==
    [][\A p \in live :
          PidOf[p] \in Tracking(tracker)' \ Tracking(tracker) => seen'[p].fell]_vars

\* A spike is given up only after idle_ticks_required readings in a row that are idle;
\* a single busy one starts the count again (spike_mode.rs:291-325).
DemotedWhenQuiet ==
    [][\A p \in live :
          PidOf[p] \in Demoted(tracker, tracker') => seen'[p].quiet >= IdleTicks]_vars

\* A victim let go while spikes go on is not stopped again before its cooldown is over:
\* a request and a timeout mean something (spike_mode.rs:478, 494, spike.rs:158).
NotSoonAgain ==
    [][\A v \in tracker'.victims :
          v.age > 0 \/ v \in tracker.victims \/ seen'[v.proc].freed >= CooldownSec]_vars

\* One cycle stops no more than the missing room asks for: without the last one it
\* would still be missing (spike.rs:169-204).
NoMoreThanNeeded ==
    [][LET new    == stopped' \ stopped
           Rss(p) == tracker'.prev[PidOf[p]]
       IN new # {} =>
              \E v \in new : room' + MapThenSumSet(Rss, new \ {v}) < Required(tracker')]_vars
=============================================================================
