------------------------- MODULE SpikeTracker_proofs -------------------------
(* What the spike mode does to processes, for any number of them and any   *)
(* settings: its victims are held together, a spike is given up only when  *)
(* it is quiet, and a process that was let go is left alone for a while.   *)
EXTENDS SpikeTracker, SumTheorems, SequenceTheorems, TLAPS

\* Every process has a pid.
LEMMA PidType ==
    ASSUME NEW p \in Procs
    PROVE  PidOf[p] \in Pids
BY ProcsAssumption

\* A capped count is exact below its cap.
LEMMA CappedType ==
    ASSUME NEW n \in Nat, NEW cap \in Nat
    PROVE  /\ Capped(n, cap) \in Nat /\ Capped(n, cap) <= cap /\ Capped(n, cap) <= n
           /\ Capped(n, cap) < cap => Capped(n, cap) = n
BY DEF Capped

\* The limits of the mode, one by one.
LEMMA LimitTypes ==
    /\ WindowSec \in Nat /\ MaxLimit \in Nat /\ CooldownSec \in Nat
    /\ IdleTicks \in Nat \ {0} /\ Gaps \subseteq Nat \ {0}
BY LimitsAssumption, ReadingsAssumption

\* Samples and victims grow older by the gap, up to the cap.
LEMMA OlderType ==
    ASSUME NEW x, NEW gap \in Gaps, NEW cap \in Nat
    PROVE  /\ x \in Samples => Older(x, gap, cap) \in Samples
           /\ x \in Victims =>
                 /\ Older(x, gap, cap) \in Victims /\ Older(x, gap, cap).proc = x.proc
                 /\ Older(x, gap, cap).age = Capped(x.age + gap, cap)
<1>1. CASE x \in Samples
  <2>1. x.age + gap \in Nat
    BY <1>1, LimitTypes DEF Samples
  <2>2. QED
    BY <1>1, <2>1, CappedType DEF Older, Samples, Victims
<1>2. CASE x \in Victims
  <2>1. x.age + gap \in Nat
    BY <1>2, LimitTypes DEF Victims
  <2>2. QED
    BY <1>2, <2>1, CappedType DEF Older, Samples, Victims
<1>3. QED
  BY <1>1, <1>2

\* A state whose samples grow older keeps its phase and its idle count.
LEMMA OlderSamplesType ==
    ASSUME NEW s \in SpikeStates, NEW gap \in Gaps
    PROVE  /\ OlderSamples(s, gap) \in SpikeStates
           /\ OlderSamples(s, gap).phase = s.phase /\ OlderSamples(s, gap).idle = s.idle
<1>1. {Older(x, gap, WindowSec + 1) : x \in s.samples} \subseteq Samples
  <2>1. WindowSec + 1 \in Nat /\ s.samples \subseteq Samples
    BY LimitTypes DEF SpikeStates
  <2>2. QED
    BY <2>1, OlderType
<1>2. QED
  BY <1>1 DEF OlderSamples, SpikeStates

\* Time leaves phases, idle counts and readings alone.
LEMMA AgedType ==
    ASSUME NEW t \in Trackers, NEW gap \in Gaps
    PROVE  /\ Aged(t, gap) \in Trackers
           /\ \A i \in Pids : /\ Aged(t, gap).spikes[i].phase = t.spikes[i].phase
                              /\ Aged(t, gap).spikes[i].idle = t.spikes[i].idle
                              /\ Aged(t, gap).cool[i] = Capped(t.cool[i] + gap, CooldownSec)
           /\ Aged(t, gap).prev = t.prev
           /\ Aged(t, gap).victims = {Older(v, gap, MaxLimit) : v \in t.victims}
<1>1. \A i \in Pids : OlderSamples(t.spikes[i], gap) \in SpikeStates
  BY OlderSamplesType DEF Trackers
<1>2. {Older(v, gap, MaxLimit) : v \in t.victims} \subseteq Victims
  <2>1. \A v \in t.victims : Older(v, gap, MaxLimit) \in Victims
    BY OlderType, LimitTypes DEF Trackers
  <2>2. QED
    BY <2>1
<1>3. \A i \in Pids : Capped(t.cool[i] + gap, CooldownSec) \in Nat
  <2>1. \A i \in Pids : t.cool[i] + gap \in Nat
    BY LimitTypes DEF Trackers
  <2>2. QED
    BY <2>1, LimitTypes, CappedType
<1>4. \A i \in Pids : t.spikes[i] \in SpikeStates
  BY DEF Trackers
<1>5. QED
  BY <1>1, <1>2, <1>3, <1>4, OlderSamplesType DEF Aged, Trackers

-----------------------------------------------------------------------------
(* The steps of release_victims: states go with their process, victims     *)
(* with the last spike, at their limit, or on request, the last two with   *)
(* a cooldown.                                                             *)

\* The states a pid may begin with.
LEMMA StatesType ==
    /\ NoState \in SpikeStates /\ NoState.phase = "none" /\ NoState.idle = 0
    /\ Unread \in Nat \cup {Unread}
    /\ \A n \in Nat :
          Fresh(n) \in SpikeStates /\ Fresh(n).phase = "Observing" /\ Fresh(n).idle = 0
BY DEF NoState, SpikeStates, Fresh, Samples

\* Draining drops all victims if nothing is Tracking, and nothing else.
LEMMA DrainType ==
    ASSUME NEW t \in Trackers
    PROVE  LET u == DrainIfNoneTracking(t)
           IN /\ u \in Trackers /\ u.spikes = t.spikes /\ u.prev = t.prev /\ u.cool = t.cool
              /\ u.victims = IF Tracking(t) = {} THEN {} ELSE t.victims
BY DEF DrainIfNoneTracking, Trackers

\* An exit forgets the pids that are gone.
LEMMA ExitType ==
    ASSUME NEW t \in Trackers, NEW S \in SUBSET Pids
    PROVE  LET u == OnSpikeExit(t, S)
           IN /\ u \in Trackers /\ u.cool = t.cool
              /\ \A i \in Pids : /\ u.spikes[i] = IF i \in S THEN NoState ELSE t.spikes[i]
                                 /\ u.prev[i] = IF i \in S THEN Unread ELSE t.prev[i]
              /\ u.victims = IF Tracking(u) = {} THEN {} ELSE t.victims
<1> DEFINE v == [t EXCEPT !.spikes = [i \in Pids |-> IF i \in S THEN NoState ELSE @[i]],
                          !.prev   = [i \in Pids |-> IF i \in S THEN Unread ELSE @[i]]]
<1>1. /\ v \in Trackers /\ v.cool = t.cool /\ v.victims = t.victims
      /\ \A i \in Pids : /\ v.spikes[i] = IF i \in S THEN NoState ELSE t.spikes[i]
                         /\ v.prev[i] = IF i \in S THEN Unread ELSE t.prev[i]
  BY StatesType DEF Trackers
<1>2. OnSpikeExit(t, S) = DrainIfNoneTracking(v)
  BY DEF OnSpikeExit
<1> HIDE DEF v
<1>3. Tracking(OnSpikeExit(t, S)) = Tracking(v)
  BY <1>1, <1>2, DrainType DEF Tracking
<1>4. QED
  BY <1>1, <1>2, <1>3, DrainType

\* Victims that are let go begin their cooldown.
LEMMA RestedType ==
    ASSUME NEW t \in Trackers, NEW some \in SUBSET t.victims
    PROVE  LET u == Rested(t, some)
           IN /\ u \in Trackers /\ u.spikes = t.spikes /\ u.prev = t.prev
              /\ u.victims = t.victims \ some
              /\ \A i \in Pids : u.cool[i] \in {0, t.cool[i]}
              /\ \A v \in some : u.cool[PidOf[v.proc]] = 0
<1>1. \A v \in some : PidOf[v.proc] \in Pids
  BY PidType DEF Trackers, Victims
<1>2. QED
  BY <1>1 DEF Rested, Trackers

\* release_victims changes what is not listed any more, victims and cooldowns only.
LEMMA ReleaseType ==
    ASSUME NEW t \in Trackers, cfg \in Configs
    PROVE  LET u == ReleaseVictims(t)
           IN /\ u \in Trackers /\ u.victims \subseteq t.victims
              /\ \A i \in Pids :
                    /\ i \in Listed => u.spikes[i] = t.spikes[i] /\ u.prev[i] = t.prev[i]
                    /\ i \notin Listed => u.spikes[i].phase = "none"
                    /\ u.cool[i] \in {0, t.cool[i]}
              /\ Tracking(u) # {} =>
                    \A v \in t.victims \ u.victims :
                       /\ u.cool[PidOf[v.proc]] = 0
                       /\ \/ PidOf[v.proc] \in requests
                          \/ cfg.limit > 0 /\ v.age >= cfg.limit
<1> DEFINE gone == SpikePids(t) \ Listed
           e == IF gone = {} THEN t ELSE OnSpikeExit(t, gone)
           d == DrainTimedOut(e, cfg.limit)
           n == DrainIfNoneTracking(d)
           r == ReleaseRequested(n, requests)
<1>1. /\ e \in Trackers /\ e.cool = t.cool
      /\ \A i \in Pids : /\ i \in Listed => e.spikes[i] = t.spikes[i] /\ e.prev[i] = t.prev[i]
                         /\ i \notin Listed => e.spikes[i].phase = "none"
      /\ e.victims \subseteq t.victims
      /\ Tracking(e) # {} => e.victims = t.victims
  <2>1. gone \in SUBSET Pids
    BY DEF SpikePids
  <2>2. \A i \in Pids : i \notin Listed /\ i \notin gone => t.spikes[i].phase = "none"
    BY DEF SpikePids
  <2>3. CASE gone = {}
    BY <2>2, <2>3
  <2>4. CASE gone # {}
    <3>1. e = OnSpikeExit(t, gone)
      BY <2>4
    <3>3. \A i \in Listed : i \notin gone
      OBVIOUS
    <3> HIDE DEF gone, e
    <3>2. /\ e \in Trackers /\ e.cool = t.cool
          /\ \A i \in Pids : /\ e.spikes[i] = IF i \in gone THEN NoState ELSE t.spikes[i]
                             /\ e.prev[i] = IF i \in gone THEN Unread ELSE t.prev[i]
          /\ e.victims = IF Tracking(e) = {} THEN {} ELSE t.victims
      BY <2>1, <3>1, ExitType
    <3>4. QED
      BY <2>2, <3>2, <3>3, StatesType
  <2>5. QED
    BY <2>3, <2>4
<1>2. /\ d \in Trackers /\ d.spikes = e.spikes /\ d.prev = e.prev /\ d.victims \subseteq e.victims
      /\ \A i \in Pids : d.cool[i] \in {0, e.cool[i]}
      /\ \A v \in e.victims \ d.victims :
            d.cool[PidOf[v.proc]] = 0 /\ cfg.limit > 0 /\ v.age >= cfg.limit
  <2> HIDE DEF e
  <2>1. cfg.limit \in Nat
    BY ReadingsAssumption DEF Settings
  <2>2. CASE cfg.limit = 0
    BY <1>1, <2>2 DEF DrainTimedOut
  <2>3. CASE cfg.limit # 0
    <3>1. d = Rested(e, {v \in e.victims : v.age >= cfg.limit})
      BY <2>3 DEF DrainTimedOut
    <3> DEFINE S == {v \in e.victims : v.age >= cfg.limit}
    <3>2. S \in SUBSET e.victims /\ \A v \in S : v.age >= cfg.limit
      OBVIOUS
    <3>3. /\ d \in Trackers /\ d.spikes = e.spikes /\ d.prev = e.prev
          /\ d.victims = e.victims \ S
          /\ \A i \in Pids : d.cool[i] \in {0, e.cool[i]}
          /\ \A v \in S : d.cool[PidOf[v.proc]] = 0
      BY <1>1, <3>1, <3>2, RestedType
    <3> HIDE DEF S, d
    <3>4. QED
      BY <2>1, <2>3, <3>2, <3>3
  <2>4. QED
    BY <2>2, <2>3
<1> HIDE DEF e, d
<1>3. /\ n \in Trackers /\ n.spikes = d.spikes /\ n.prev = d.prev /\ n.cool = d.cool
      /\ n.victims = IF Tracking(d) = {} THEN {} ELSE d.victims
  BY <1>2, DrainType
<1> HIDE DEF n
<1>4. /\ r \in Trackers /\ r.spikes = n.spikes /\ r.prev = n.prev /\ r.victims \subseteq n.victims
      /\ \A i \in Pids : r.cool[i] \in {0, n.cool[i]}
      /\ \A v \in n.victims \ r.victims :
            r.cool[PidOf[v.proc]] = 0 /\ PidOf[v.proc] \in requests
  <2> DEFINE S == {v \in n.victims : PidOf[v.proc] \in requests}
  <2>1. r = Rested(n, S) /\ S \in SUBSET n.victims
    BY DEF ReleaseRequested
  <2>2. /\ r \in Trackers /\ r.spikes = n.spikes /\ r.prev = n.prev
        /\ r.victims = n.victims \ S
        /\ \A i \in Pids : r.cool[i] \in {0, n.cool[i]}
        /\ \A v \in S : r.cool[PidOf[v.proc]] = 0
    BY <1>3, <2>1, RestedType
  <2> HIDE DEF r
  <2>3. QED
    BY <2>2
<1>5. r = ReleaseVictims(t)
  BY DEF ReleaseVictims, e, d, n
<1> HIDE DEF r
<1>6. Tracking(r) = Tracking(e) /\ Tracking(r) = Tracking(d)
  BY <1>2, <1>3, <1>4 DEF Tracking
<1>7. ASSUME Tracking(r) # {}, NEW v \in t.victims \ r.victims
      PROVE  /\ r.cool[PidOf[v.proc]] = 0
             /\ PidOf[v.proc] \in requests \/ (cfg.limit > 0 /\ v.age >= cfg.limit)
  <2>1. PidOf[v.proc] \in Pids
    BY <1>7, PidType DEF Trackers, Victims
  <2>2. v \in e.victims /\ n.victims = d.victims
    BY <1>1, <1>3, <1>6, <1>7
  <2>3. CASE v \notin d.victims
    <3>1. d.cool[PidOf[v.proc]] = 0 /\ cfg.limit > 0 /\ v.age >= cfg.limit
      BY <1>2, <2>2, <2>3
    <3>2. QED
      BY <1>3, <1>4, <2>1, <3>1
  <2>4. CASE v \in d.victims
    BY <1>4, <1>7, <2>2, <2>4
  <2>5. QED
    BY <2>3, <2>4
<1>8. /\ r \in Trackers /\ r.victims \subseteq t.victims
      /\ \A i \in Pids :
            /\ i \in Listed => r.spikes[i] = t.spikes[i] /\ r.prev[i] = t.prev[i]
            /\ i \notin Listed => r.spikes[i].phase = "none"
            /\ r.cool[i] \in {0, t.cool[i]}
  <2>1. r.victims \subseteq t.victims
    BY <1>1, <1>2, <1>3, <1>4
  <2>2. r.spikes = e.spikes /\ r.prev = e.prev
    BY <1>2, <1>3, <1>4
  <2>3. \A i \in Pids : r.cool[i] \in {0, t.cool[i]}
    BY <1>1, <1>2, <1>3, <1>4
  <2>4. QED
    BY <1>1, <1>4, <2>1, <2>2, <2>3
<1>9. QED
  BY <1>5, <1>7, <1>8

-----------------------------------------------------------------------------
(* SpikeTracker::update.                                                    *)

\* A pid belongs to one live process at a time.
Unique == \A p, q \in live : PidOf[p] = PidOf[q] => p = q

\* With one live process per pid, the owner of a listed pid is that process.
LEMMA OwnerIs ==
    ASSUME live \subseteq Procs, Unique
    PROVE  /\ \A p \in live : Owner(PidOf[p]) = p /\ PidOf[p] \in Listed
           /\ \A i \in Listed : Owner(i) \in live /\ PidOf[Owner(i)] = i
           /\ Listed \subseteq Pids
<1>1. \A p \in live : Owner(PidOf[p]) = p
  BY DEF Owner, Unique
<1>2. QED
  BY <1>1, PidType DEF Listed

\* A measurement keeps phase and idle count.
LEMMA MeasuredType ==
    ASSUME NEW s \in SpikeStates, NEW r \in Readings
    PROVE  /\ Measured(s, r) \in SpikeStates
           /\ Measured(s, r).phase = s.phase /\ Measured(s, r).idle = s.idle
<1> DEFINE u == Sampled(s, r)
           peaked == s.peaked \/ RssMax(u) > s.initial + GrowthThreshold
           oscillated == u.oscillated \/ (peaked /\ r.rss < (RssMax(u) * DropPct) \div 100)
<1>1. u \in SpikeStates /\ u.phase = s.phase /\ u.idle = s.idle
  BY DEF Sampled, SpikeStates, Samples, Readings
<1>2. Measured(s, r) = [u EXCEPT !.peaked = peaked, !.oscillated = oscillated]
  BY DEF Measured
<1>3. peaked \in BOOLEAN /\ oscillated \in BOOLEAN
  OBVIOUS
<1> HIDE DEF u, peaked, oscillated
<1>4. QED
  BY <1>1, <1>2, <1>3 DEF SpikeStates

\* A pid that is tracked already is not registered anew.
LEMMA RegisterType ==
    ASSUME NEW t \in Trackers, NEW p \in Procs, NEW r \in Readings
    PROVE  /\ Register(t, p, r) \in SpikeStates
           /\ t.spikes[PidOf[p]].phase # "none" => Register(t, p, r) = t.spikes[PidOf[p]]
           /\ t.spikes[PidOf[p]].phase = "none" =>
                 Register(t, p, r).phase \in {"none", "Observing"}
<1>1. t.spikes[PidOf[p]] \in SpikeStates /\ t.prev[PidOf[p]] \in Nat \cup {Unread} /\ r.rss \in Nat
  BY PidType DEF Trackers, Readings
<1>2. QED
  BY <1>1, StatesType DEF Register

\* A state that is Tracking stays so until the reading is idle for the last time that it
\* takes, and counts.
Follows(s, a, idle) ==
    /\ a \in SpikeStates
    /\ s.phase = "Tracking" /\ a.phase = "Observing" => idle /\ s.idle + 1 >= IdleTicks
    /\ s.phase = "Tracking" => a.phase \in {"Tracking", "Observing"}
    /\ a.phase = "Tracking" =>
          \/ a.idle = 0
          \/ s.phase = "Tracking" /\ idle /\ a.idle = s.idle + 1 /\ a.idle < IdleTicks

\* What one reading does to the state of a pid.
LEMMA AdvanceType ==
    ASSUME NEW t \in Trackers, NEW p \in Procs, NEW r \in Readings
    PROVE  Follows(t.spikes[PidOf[p]], Advance(t, p, r), IsIdle(r, Growth(t, p, r)))
<1> DEFINE s == t.spikes[PidOf[p]]
           g == Register(t, p, r)
           m == Measured(g, r)
           a == Advance(t, p, r)
<1>1. s \in SpikeStates /\ r.rss \in Nat
  BY PidType DEF Trackers, Readings
<1>2. /\ g \in SpikeStates /\ (s.phase # "none" => g = s)
      /\ s.phase = "none" => g.phase \in {"none", "Observing"}
  BY RegisterType
<1>3. a = IF g.phase = "none" THEN g ELSE Phase(m, r, Growth(t, p, r))
  BY DEF Advance
<1> HIDE DEF s, g, a
<1>4. m \in SpikeStates /\ m.phase = g.phase /\ m.idle = g.idle
  BY <1>2, MeasuredType
<1> HIDE DEF m
<1>5. Fresh(r.rss) \in SpikeStates /\ Fresh(r.rss).phase = "Observing"
  BY <1>1, StatesType
<1>6. Follows(s, a, IsIdle(r, Growth(t, p, r)))
  <2>1. CASE g.phase = "none"
    BY <1>1, <1>2, <1>3, <2>1 DEF Follows
  <2>2. CASE g.phase = "Observing"
    BY <1>1, <1>2, <1>3, <1>4, <2>2 DEF Phase, SpikeStates, Follows
  <2>3. CASE g.phase = "Tracking"
    BY <1>1, <1>2, <1>3, <1>4, <1>5, <2>3, LimitTypes DEF Phase, SpikeStates, Follows
  <2>4. QED
    BY <1>2, <2>1, <2>2, <2>3 DEF SpikeStates
<1>7. QED
  BY <1>6 DEF s, a

\* What update() does to the state of each pid, whatever the order of the list.
LEMMA UpdatedType ==
    ASSUME NEW t \in Trackers, live \subseteq Procs, Unique,
           NEW read, \A p \in live : read[p] \in Readings
    PROVE  LET u == Settle(t, Updated(t, read))
           IN /\ u \in Trackers /\ u.cool = t.cool
              /\ \A i \in Pids \ Listed : u.spikes[i] = t.spikes[i]
              /\ \A p \in live :
                    /\ u.spikes[PidOf[p]].phase = Advance(t, p, read[p]).phase
                    /\ u.spikes[PidOf[p]].idle = Advance(t, p, read[p]).idle
              /\ u.victims = t.victims \/ (u.victims = {} /\ Tracking(u) = {})
<1> DEFINE Checked(i) == CpuCheck(Advance(t, Owner(i), read[Owner(i)]), Owner(i), read[Owner(i)])
           sp == [i \in Pids |-> IF i \notin Listed THEN t.spikes[i] ELSE Checked(i)]
           pr == [i \in Pids |-> IF i \in Listed THEN read[Owner(i)].rss ELSE Unread]
           w  == Updated(t, read)
<1>1. ASSUME NEW p \in live
      PROVE  /\ CpuCheck(Advance(t, p, read[p]), p, read[p]) \in SpikeStates
             /\ CpuCheck(Advance(t, p, read[p]), p, read[p]).phase = Advance(t, p, read[p]).phase
             /\ CpuCheck(Advance(t, p, read[p]), p, read[p]).idle = Advance(t, p, read[p]).idle
             /\ read[p].rss \in Nat
  <2>1. Advance(t, p, read[p]) \in SpikeStates
    BY <1>1, AdvanceType DEF Follows
  <2>2. QED
    BY <1>1, <2>1 DEF CpuCheck, SpikeStates, Readings
<1>2. sp \in [Pids -> SpikeStates]
  <2>1. \A i \in Listed : Checked(i) \in SpikeStates
    BY <1>1, OwnerIs
  <2>2. \A i \in Pids : t.spikes[i] \in SpikeStates
    BY DEF Trackers
  <2>3. QED
    BY <2>1, <2>2
<1>3. pr \in [Pids -> Nat \cup {Unread}]
  BY <1>1, OwnerIs
<1>4. w = [t EXCEPT !.spikes = sp, !.prev = pr]
  BY Zenon DEF Updated
<1>5. \A p \in live : sp[PidOf[p]].phase = Advance(t, p, read[p]).phase
                      /\ sp[PidOf[p]].idle = Advance(t, p, read[p]).idle
  BY <1>1, OwnerIs
<1>6. \A i \in Pids \ Listed : sp[i] = t.spikes[i]
  OBVIOUS
<1> HIDE DEF sp, pr, w
<1>7. w \in Trackers /\ w.spikes = sp /\ w.victims = t.victims /\ w.cool = t.cool
  BY <1>2, <1>3, <1>4 DEF Trackers
<1>8. LET u == Settle(t, w)
      IN /\ u \in Trackers /\ u.spikes = w.spikes /\ u.cool = w.cool
         /\ u.victims = w.victims \/ (u.victims = {} /\ Tracking(w) = {})
  BY <1>7, DrainType DEF Settle
<1>9. Tracking(Settle(t, w)) = Tracking(w)
  BY <1>8 DEF Tracking
<1>10. QED
  BY <1>5, <1>6, <1>7, <1>8, <1>9 DEF w

\* The state and the reading that update() leaves of a live process.
LEMMA UpdatedIs ==
    ASSUME NEW t \in Trackers, live \subseteq Procs, Unique, NEW read, NEW p \in live
    PROVE  LET u == Settle(t, Updated(t, read))
           IN /\ u.spikes[PidOf[p]] = CpuCheck(Advance(t, p, read[p]), p, read[p])
              /\ u.prev[PidOf[p]] = read[p].rss
<1> DEFINE sp == [i \in Pids |-> IF i \notin Listed THEN t.spikes[i]
                    ELSE CpuCheck(Advance(t, Owner(i), read[Owner(i)]), Owner(i), read[Owner(i)])]
           pr == [i \in Pids |-> IF i \in Listed THEN read[Owner(i)].rss ELSE Unread]
           w  == Updated(t, read)
<1>1. w = [t EXCEPT !.spikes = sp, !.prev = pr]
  BY Zenon DEF Updated
<1>2. PidOf[p] \in Pids /\ PidOf[p] \in Listed /\ Owner(PidOf[p]) = p
  BY OwnerIs
<1>3. /\ sp[PidOf[p]] = CpuCheck(Advance(t, p, read[p]), p, read[p])
      /\ pr[PidOf[p]] = read[p].rss
  BY <1>2
<1> HIDE DEF sp, pr, w
<1>4. w.spikes = sp /\ w.prev = pr
  BY <1>1 DEF Trackers
<1>5. Settle(t, w).spikes = w.spikes /\ Settle(t, w).prev = w.prev
  <2>1. w = [spikes |-> sp, prev |-> pr, victims |-> t.victims, cool |-> t.cool]
    BY <1>1 DEF Trackers
  <2>2. QED
    BY <2>1 DEF Settle, DrainIfNoneTracking
<1>6. QED
  BY <1>3, <1>4, <1>5 DEF w

-----------------------------------------------------------------------------
(* A cycle.                                                                 *)

\* The first entries of an order of S are in S.
LEMMA FirstOfType ==
    ASSUME NEW S, IsFiniteSet(S), NEW read, NEW order \in Orders(S, read),
           NEW k \in 0..Len(order)
    PROVE  FirstOf(order, k) \subseteq S
<1>1. Cardinality(S) \in Nat
  BY FS_CardinalityType
<1>2. order \in [1..Cardinality(S) -> S]
  BY DEF Orders
<1>3. Len(order) = Cardinality(S)
  BY <1>1, <1>2, LenProperties
<1>4. QED
  BY <1>1, <1>2, <1>3 DEF FirstOf

\* What a cycle turns the tracker into, before the new victims enter.
Turned(u, read, gap) ==
    /\ u \in Trackers
    /\ \A p \in live : read[p] \in Readings
    /\ \A i \in Pids : u.cool[i] \in {0, Capped(tracker.cool[i] + gap, CooldownSec)}
    /\ \A i \in Pids \ Listed : u.spikes[i].phase = "none"
    /\ \A p \in live :
          IF cfg.on
          THEN Follows(tracker.spikes[PidOf[p]], u.spikes[PidOf[p]],
                       IsIdle(read[p], Growth(tracker, p, read[p])))
          ELSE /\ u.spikes[PidOf[p]].phase = tracker.spikes[PidOf[p]].phase
               /\ u.spikes[PidOf[p]].idle = tracker.spikes[PidOf[p]].idle
    /\ \A v \in u.victims : \E w \in tracker.victims : v = Older(w, gap, MaxLimit)
    /\ Tracking(tracker) \cap Tracking(u) # {} =>
          \A v \in tracker.victims :
             \/ Older(v, gap, MaxLimit) \in u.victims
             \/ /\ u.cool[PidOf[v.proc]] = 0
                /\ \/ PidOf[v.proc] \in requests
                   \/ cfg.limit > 0 /\ v.age + gap >= cfg.limit

\* The pure half of a cycle does what Turned says.
LEMMA TurnedIs ==
    ASSUME TypeOK, Unique, NEW gap \in Gaps, NEW read, \A p \in live : read[p] \in Readings
    PROVE  LET t == ReleaseVictims(Aged(tracker, gap))
           IN Turned(IF cfg.on THEN Settle(t, Updated(t, read)) ELSE t, read, gap)
<1> DEFINE a == Aged(tracker, gap)
           t == ReleaseVictims(a)
           u == IF cfg.on THEN Settle(t, Updated(t, read)) ELSE t
<1>1. tracker \in Trackers /\ live \subseteq Procs /\ cfg \in Configs
  BY DEF TypeOK
<1>2. /\ a \in Trackers
      /\ \A i \in Pids : /\ a.spikes[i].phase = tracker.spikes[i].phase
                         /\ a.spikes[i].idle = tracker.spikes[i].idle
                         /\ a.cool[i] = Capped(tracker.cool[i] + gap, CooldownSec)
      /\ a.prev = tracker.prev
      /\ a.victims = {Older(v, gap, MaxLimit) : v \in tracker.victims}
  BY <1>1, AgedType
<1> HIDE DEF a
<1>3. /\ t \in Trackers /\ t.victims \subseteq a.victims
      /\ \A i \in Pids :
            /\ i \in Listed => t.spikes[i] = a.spikes[i] /\ t.prev[i] = a.prev[i]
            /\ i \notin Listed => t.spikes[i].phase = "none"
            /\ t.cool[i] \in {0, a.cool[i]}
      /\ Tracking(t) # {} =>
            \A v \in a.victims \ t.victims :
               /\ t.cool[PidOf[v.proc]] = 0
               /\ \/ PidOf[v.proc] \in requests
                  \/ cfg.limit > 0 /\ v.age >= cfg.limit
  BY <1>1, <1>2, ReleaseType
<1> HIDE DEF t
<1>4. \A p \in live : PidOf[p] \in Pids /\ PidOf[p] \in Listed
  BY <1>1, OwnerIs, PidType
<1>5. /\ u \in Trackers /\ u.cool = t.cool
      /\ \A i \in Pids \ Listed : u.spikes[i] = t.spikes[i]
      /\ u.victims = t.victims \/ (u.victims = {} /\ Tracking(u) = {})
      /\ \A p \in live :
            IF cfg.on
            THEN Follows(tracker.spikes[PidOf[p]], u.spikes[PidOf[p]],
                         IsIdle(read[p], Growth(tracker, p, read[p])))
            ELSE /\ u.spikes[PidOf[p]].phase = tracker.spikes[PidOf[p]].phase
                 /\ u.spikes[PidOf[p]].idle = tracker.spikes[PidOf[p]].idle
  <2>1. CASE ~cfg.on
    BY <1>2, <1>3, <1>4, <2>1
  <2>2. CASE cfg.on
    <3> DEFINE w == Settle(t, Updated(t, read))
    <3>1. /\ w \in Trackers /\ w.cool = t.cool
          /\ \A i \in Pids \ Listed : w.spikes[i] = t.spikes[i]
          /\ \A p \in live :
                /\ w.spikes[PidOf[p]].phase = Advance(t, p, read[p]).phase
                /\ w.spikes[PidOf[p]].idle = Advance(t, p, read[p]).idle
          /\ w.victims = t.victims \/ (w.victims = {} /\ Tracking(w) = {})
      BY <1>1, <1>3, UpdatedType
    <3>2. u = w
      BY <2>2
    <3> HIDE DEF w, u
    <3>3. ASSUME NEW p \in live
          PROVE  Follows(tracker.spikes[PidOf[p]], u.spikes[PidOf[p]],
                         IsIdle(read[p], Growth(tracker, p, read[p])))
      <4>1. Follows(t.spikes[PidOf[p]], Advance(t, p, read[p]),
                    IsIdle(read[p], Growth(t, p, read[p])))
        BY <1>1, <1>3, <3>3, AdvanceType
      <4>2. Growth(t, p, read[p]) = Growth(tracker, p, read[p])
        BY <1>2, <1>3, <1>4 DEF Growth
      <4>3. u.spikes[PidOf[p]] \in SpikeStates
        BY <1>4, <3>1, <3>2 DEF Trackers
      <4>4. /\ t.spikes[PidOf[p]].phase = tracker.spikes[PidOf[p]].phase
            /\ t.spikes[PidOf[p]].idle = tracker.spikes[PidOf[p]].idle
        BY <1>2, <1>3, <1>4
      <4>5. QED
        BY <3>1, <3>2, <4>1, <4>2, <4>3, <4>4 DEF Follows
    <3>4. QED
      BY <2>2, <3>1, <3>2, <3>3
  <2>3. QED
    BY <2>1, <2>2
<1> HIDE DEF u
<1>6. \A v \in u.victims : \E w \in tracker.victims : v = Older(w, gap, MaxLimit)
  BY <1>2, <1>3, <1>5
<1>7. ASSUME Tracking(tracker) \cap Tracking(u) # {}, NEW v \in tracker.victims
      PROVE  \/ Older(v, gap, MaxLimit) \in u.victims
             \/ /\ u.cool[PidOf[v.proc]] = 0
                /\ PidOf[v.proc] \in requests \/ (cfg.limit > 0 /\ v.age + gap >= cfg.limit)
  <2>1. PICK i \in Pids : tracker.spikes[i].phase = "Tracking" /\ u.spikes[i].phase = "Tracking"
    BY <1>7 DEF Tracking
  <2>2. i \in Listed
    BY <1>3, <1>5, <2>1
  <2>3. Tracking(t) # {} /\ Tracking(u) # {}
    BY <1>2, <1>3, <2>1, <2>2 DEF Tracking
  <2>4. u.victims = t.victims
    BY <1>5, <2>3
  <2> DEFINE o == Older(v, gap, MaxLimit)
  <2>5. /\ o \in a.victims /\ o.proc = v.proc /\ o.age = Capped(v.age + gap, MaxLimit)
        /\ v.age + gap \in Nat /\ cfg.limit \in Nat
    <3>1. v \in Victims /\ v.age \in Nat
      BY <1>1, <1>7 DEF Trackers, Victims
    <3>2. o.proc = v.proc /\ o.age = Capped(v.age + gap, MaxLimit)
      BY <3>1, OlderType, LimitTypes
    <3>3. o \in a.victims
      BY <1>2
    <3>4. cfg.limit \in Nat
      BY <1>1, ReadingsAssumption DEF Settings
    <3> HIDE DEF o
    <3>5. QED
      BY <3>1, <3>2, <3>3, <3>4, LimitTypes
  <2> HIDE DEF o
  <2>6. CASE o \in t.victims
    BY <2>4, <2>6 DEF o
  <2>7. CASE o \notin t.victims
    <3>1. /\ u.cool[PidOf[v.proc]] = 0
          /\ PidOf[v.proc] \in requests \/ (cfg.limit > 0 /\ o.age >= cfg.limit)
      BY <1>3, <1>5, <2>3, <2>5, <2>7
    <3>2. o.age \in Nat /\ o.age <= v.age + gap
      BY <2>5, CappedType, LimitTypes
    <3>3. QED
      BY <2>5, <3>1, <3>2
  <2>8. QED
    BY <2>6, <2>7
<1>8. Turned(u, read, gap)
  <2>1. \A i \in Pids : u.cool[i] \in {0, Capped(tracker.cool[i] + gap, CooldownSec)}
    BY <1>2, <1>3, <1>5
  <2>2. \A i \in Pids \ Listed : u.spikes[i].phase = "none"
    BY <1>3, <1>5
  <2>3. QED
    BY <1>5, <1>6, <1>7, <2>1, <2>2 DEF Turned
<1>9. QED
  BY <1>8 DEF u, t, a
\* Every cycle is of this form.
CycleTurns(gap, read, u, new) ==
    /\ Turned(u, read, gap)
    /\ new \subseteq Eligible(u, read)
    /\ tracker' = [u EXCEPT !.victims = @ \cup [proc : new, age : {0}]]
    /\ seen' = [p \in Procs |-> IF p \in live THEN Seen(p, read[p], gap, u) ELSE Unseen]
    /\ stopped' = (stopped \ (VictimProcs(tracker) \ VictimProcs(u))) \cup new
    /\ requests' = {} /\ room' \in Avails
    /\ UNCHANGED <<live, cfg, focus>>

\* The tracker after the update, before the new victims enter.
After(gap, read) ==
    LET t == ReleaseVictims(Aged(tracker, gap))
    IN IF cfg.on THEN Settle(t, Updated(t, read)) ELSE t

\* The new victims are the first of an order, as many as the need asks for.
CycleParts(gap, available, read, order, k) ==
    LET u == After(gap, read)
    IN /\ order \in Orders(Eligible(u, read), read) /\ k \in 0..Len(order)
       /\ Suffices(order, k, IF cfg.on THEN Needed(u, available) ELSE 0, read)
       /\ CycleTurns(gap, read, u, FirstOf(order, k))
       /\ room' = available

\* A cycle is of this form.
LEMMA CycleHasParts ==
    ASSUME TypeOK, Unique, Cycle
    PROVE  \E gap \in Gaps, available \in Avails : \E read, order, k :
              CycleParts(gap, available, read, order, k)
<1>1. PICK gap \in Gaps, available \in Avails,
           read \in [live -> UNION {ReadingsOf[p] : p \in live}] :
        /\ \A p \in live : read[p] \in ReadingsOf[p]
        /\ LET t    == ReleaseVictims(Aged(tracker, gap))
               u    == IF cfg.on THEN Settle(t, Updated(t, read)) ELSE t
               need == IF cfg.on THEN Needed(u, available) ELSE 0
           IN \E order \in Orders(Eligible(u, read), read) : \E k \in 0..Len(order) :
                LET new == FirstOf(order, k)
                IN /\ Suffices(order, k, need, read)
                   /\ tracker' = [u EXCEPT !.victims = @ \cup [proc : new, age : {0}]]
                   /\ seen' = [p \in Procs |->
                         IF p \in live THEN Seen(p, read[p], gap, u) ELSE Unseen]
                   /\ stopped' = (stopped \ (VictimProcs(tracker) \ VictimProcs(u))) \cup new
        /\ requests' = {} /\ room' = available
        /\ UNCHANGED <<live, cfg, focus>>
  BY Zenon DEF Cycle
<1> DEFINE u == After(gap, read)
           need == IF cfg.on THEN Needed(u, available) ELSE 0
<1>2. \A p \in live : read[p] \in Readings
  BY <1>1, ReadingsAssumption DEF TypeOK
<1>3. Turned(u, read, gap)
  BY <1>2, TurnedIs DEF After
<1>4. PICK order \in Orders(Eligible(u, read), read) : \E k \in 0..Len(order) :
        /\ Suffices(order, k, need, read)
        /\ tracker' = [u EXCEPT !.victims = @ \cup [proc : FirstOf(order, k), age : {0}]]
        /\ seen' = [p \in Procs |-> IF p \in live THEN Seen(p, read[p], gap, u) ELSE Unseen]
        /\ stopped' =
              (stopped \ (VictimProcs(tracker) \ VictimProcs(u))) \cup FirstOf(order, k)
  BY <1>1, Zenon DEF After
<1> HIDE DEF u
<1>5. PICK k \in 0..Len(order) :
        /\ Suffices(order, k, need, read)
        /\ tracker' = [u EXCEPT !.victims = @ \cup [proc : FirstOf(order, k), age : {0}]]
        /\ seen' = [p \in Procs |-> IF p \in live THEN Seen(p, read[p], gap, u) ELSE Unseen]
        /\ stopped' =
              (stopped \ (VictimProcs(tracker) \ VictimProcs(u))) \cup FirstOf(order, k)
  BY <1>4
<1>6. IsFiniteSet(Eligible(u, read))
  <2>1. Eligible(u, read) \subseteq Procs
    BY DEF Eligible, TypeOK
  <2>2. QED
    BY <2>1, FS_Subset, ProcsAssumption
<1>7. FirstOf(order, k) \subseteq Eligible(u, read)
  BY <1>4, <1>5, <1>6, FirstOfType
<1>8. CycleTurns(gap, read, u, FirstOf(order, k))
  BY <1>1, <1>3, <1>5, <1>7 DEF CycleTurns
<1>9. CycleParts(gap, available, read, order, k)
  BY <1>1, <1>4, <1>5, <1>8 DEF CycleParts, u
<1>10. QED
  BY <1>9

\* A cycle does what CycleTurns says.
LEMMA CycleIs ==
    ASSUME TypeOK, Unique, Cycle
    PROVE  \E gap, read, u, new : gap \in Gaps /\ CycleTurns(gap, read, u, new)
BY CycleHasParts DEF CycleParts

-----------------------------------------------------------------------------
(* Types, and one live process for a pid.                                  *)

\* How the history of a process goes on.
LEMMA SeenType ==
    ASSUME seen \in [Procs -> Histories], NEW p \in Procs, NEW r \in Readings,
           NEW gap \in Gaps, NEW u
    PROVE  /\ Seen(p, r, gap, u) \in Histories
           /\ Seen(p, r, gap, u).quiet =
                 IF ~cfg.on THEN seen[p].quiet
                 ELSE IF IsIdle(r, Growth(tracker, p, r)) /\ PidOf[p] \in Tracking(tracker)
                 THEN Capped(seen[p].quiet + 1, IdleTicks) ELSE 0
           /\ Seen(p, r, gap, u).freed =
                 IF /\ p \in VictimProcs(tracker) \ VictimProcs(u)
                    /\ Tracking(tracker) \cap Tracking(u) # {}
                 THEN 0 ELSE Capped(seen[p].freed + gap, CooldownSec)
<1> DEFINE h == seen[p]
           i == PidOf[p]
           calm == IsIdle(r, Growth(tracker, p, r))
           swung == IF ~cfg.on THEN h
                    ELSE IF i \in Demoted(tracker, u)
                    THEN [Swing(Unseen, r) EXCEPT !.freed = h.freed]
                    ELSE Swing(h, r)
           quiet == IF ~cfg.on THEN h.quiet
                    ELSE IF calm /\ i \in Tracking(tracker) THEN Capped(h.quiet + 1, IdleTicks)
                    ELSE 0
           freed == IF p \in VictimProcs(tracker) \ VictimProcs(u)
                       /\ Tracking(tracker) \cap Tracking(u) # {}
                    THEN 0 ELSE Capped(h.freed + gap, CooldownSec)
<1>1. h \in Histories /\ Unseen \in Histories /\ r.rss \in Nat
  BY LimitTypes DEF Histories, Unseen, Readings
<1>2. ASSUME NEW g \in Histories
      PROVE  Swing(g, r) \in Histories
  <2> DEFINE risen == g.low # Unread /\ r.rss > g.low + GrowthThreshold
             rise  == IF risen /\ r.rss > g.rise THEN r.rss ELSE g.rise
             fell  == g.fell \/ (r.rss < (rise * DropPct) \div 100)
  <2>1. rise \in Nat
    BY <1>1, <1>2 DEF Histories
  <2>2. fell \in BOOLEAN
    OBVIOUS
  <2>3. Swing(g, r) = [g EXCEPT !.low = IF @ = Unread \/ r.rss < @ THEN r.rss ELSE @,
                                !.rise = rise, !.fell = fell]
    BY DEF Swing
  <2> HIDE DEF rise, fell
  <2>4. QED
    BY <1>1, <1>2, <2>1, <2>2, <2>3 DEF Histories
<1>3. swung \in Histories
  <2>1. h.freed \in Nat /\ Swing(h, r) \in Histories /\ Swing(Unseen, r) \in Histories
    BY <1>1, <1>2 DEF Histories
  <2>2. QED
    BY <1>1, <2>1 DEF Histories
<1>4. quiet \in Nat /\ freed \in Nat
  <2>1. h.quiet \in Nat /\ h.freed \in Nat
    BY <1>1 DEF Histories
  <2>2. h.quiet + 1 \in Nat /\ h.freed + gap \in Nat
    BY <2>1, LimitTypes
  <2>3. QED
    BY <2>1, <2>2, CappedType, LimitTypes
<1>5. Seen(p, r, gap, u) = [swung EXCEPT !.quiet = quiet, !.freed = freed]
  BY Zenon DEF Seen
<1> HIDE DEF swung, quiet, freed
<1>6. /\ Seen(p, r, gap, u) \in Histories
      /\ Seen(p, r, gap, u).quiet = quiet /\ Seen(p, r, gap, u).freed = freed
  BY <1>3, <1>4, <1>5 DEF Histories
<1>7. QED
  BY <1>6 DEF quiet, freed

\* Actions that leave the books alone.
Aside ==
    \/ \E p \in Procs : Start(p) \/ Exit(p)
    \/ \E i \in Pids : Request(i)
    \/ \E i \in (Windows \cap Listed) \cup {NoPid} : Focus(i)
    \/ \E c \in Configs : Reload(c)

\* A step is a cycle or one of the outside.
LEMMA NextIs == Next <=> Cycle \/ Aside
BY Zenon DEF Next, Aside

\* No step of the outside touches the tracker.
LEMMA AsideKeeps ==
    ASSUME Aside
    PROVE  UNCHANGED tracker
BY DEF Aside, Start, Exit, Request, Focus, Reload

\* What a cycle leaves of the tracker: the states and cooldowns of u.
LEMMA CycleTracker ==
    ASSUME TypeOK, Unique, NEW gap \in Gaps, NEW read, NEW u, NEW new,
           CycleTurns(gap, read, u, new)
    PROVE  /\ u \in Trackers /\ tracker' \in Trackers
           /\ tracker'.spikes = u.spikes /\ tracker'.cool = u.cool
           /\ tracker'.victims = u.victims \cup [proc : new, age : {0}]
           /\ new \subseteq live
           /\ \A p \in new : u.cool[PidOf[p]] >= CooldownSec
           /\ Tracking(tracker') = Tracking(u) /\ Demoted(tracker, tracker') = Demoted(tracker, u)
<1>1. u \in Trackers /\ new \subseteq live /\ \A p \in new : u.cool[PidOf[p]] >= CooldownSec
  BY DEF CycleTurns, Turned, Eligible
<1>2. [proc : new, age : {0}] \subseteq Victims
  BY <1>1 DEF TypeOK, Victims
<1>3. /\ tracker' \in Trackers /\ tracker'.spikes = u.spikes /\ tracker'.cool = u.cool
      /\ tracker'.victims = u.victims \cup [proc : new, age : {0}]
  BY <1>1, <1>2 DEF CycleTurns, Trackers
<1>4. QED
  BY <1>1, <1>3 DEF Tracking, Demoted

\* Types hold at the start, and no pid has two live processes.
LEMMA InitType == Init => TypeOK /\ Unique
<1> SUFFICES ASSUME Init
             PROVE  TypeOK /\ Unique
  OBVIOUS
<1>1. tracker \in Trackers
  BY StatesType, LimitTypes DEF Init, Trackers
<1>2. seen \in [Procs -> Histories]
  BY LimitTypes DEF Init, Histories, Unseen
<1>3. Unique
  BY ProcsAssumption DEF Init, Unique
<1>4. QED
  BY <1>1, <1>2, <1>3, ProcsAssumption DEF Init, TypeOK

\* Both are inductive.
LEMMA NextType == TypeOK /\ Unique /\ [Next]_vars => (TypeOK /\ Unique)'
<1> SUFFICES ASSUME TypeOK, Unique, [Next]_vars
             PROVE  (TypeOK /\ Unique)'
  OBVIOUS
<1>1. CASE Cycle
  <2>1. PICK gap, read, u, new : gap \in Gaps /\ CycleTurns(gap, read, u, new)
    BY <1>1, CycleIs
  <2>2. tracker' \in Trackers /\ new \subseteq live
    BY <2>1, CycleTracker
  <2>3. seen' \in [Procs -> Histories]
    <3>1. \A p \in live : Seen(p, read[p], gap, u) \in Histories
      <4>1. \A p \in live : read[p] \in Readings
        BY <2>1 DEF CycleTurns, Turned
      <4>2. QED
        BY <2>1, <4>1, SeenType DEF TypeOK
    <3>2. Unseen \in Histories
      BY LimitTypes DEF Histories, Unseen
    <3>3. QED
      BY <2>1, <3>1, <3>2 DEF CycleTurns
  <2>4. QED
    BY <2>1, <2>2, <2>3 DEF CycleTurns, TypeOK, Unique
<1>2. ASSUME NEW p \in Procs, Start(p)
      PROVE  (TypeOK /\ Unique)'
  BY <1>2 DEF Start, TypeOK, Unique, Listed
<1>3. ASSUME NEW p \in Procs, Exit(p)
      PROVE  (TypeOK /\ Unique)'
  <2>1. Unseen \in Histories
    BY LimitTypes DEF Histories, Unseen
  <2>2. seen' \in [Procs -> Histories]
    BY <1>3, <2>1 DEF Exit, TypeOK
  <2>3. QED
    BY <1>3, <2>2 DEF Exit, TypeOK, Unique
<1>4. ASSUME NEW i \in Pids, Request(i)
      PROVE  (TypeOK /\ Unique)'
  BY <1>4 DEF Request, TypeOK, Unique
<1>5. ASSUME NEW i \in (Windows \cap Listed) \cup {NoPid}, Focus(i)
      PROVE  (TypeOK /\ Unique)'
  BY <1>5, ProcsAssumption DEF Focus, TypeOK, Unique
<1>6. ASSUME NEW c \in Configs, Reload(c)
      PROVE  (TypeOK /\ Unique)'
  BY <1>6 DEF Reload, TypeOK, Unique
<1>7. CASE UNCHANGED vars
  BY <1>7 DEF vars, TypeOK, Unique
<1>8. QED
  BY <1>1, <1>2, <1>3, <1>4, <1>5, <1>6, <1>7 DEF Next

\* Both are invariants.
LEMMA TypeInvariant == Spec => [](TypeOK /\ Unique)
<1>1. Init => TypeOK /\ Unique
  BY InitType
<1>2. TypeOK /\ Unique /\ [Next]_vars => (TypeOK /\ Unique)'
  BY NextType
<1>3. QED
  BY <1>1, <1>2, PTL DEF Spec

\* The tracker, its victims and what was read of the processes keep their types; a
\* stopped process is a live one.
THEOREM TypeCorrect == Spec => []TypeOK
BY TypeInvariant, PTL

-----------------------------------------------------------------------------
(* Victims are held together.                                              *)

\* While a spike goes on, a victim leaves on request or past its limit only.
LEMMA CycleHolds ==
    ASSUME TypeOK, Unique, Cycle, Tracking(tracker) \cap Tracking(tracker') # {},
           NEW v \in tracker.victims
    PROVE  \/ v.proc \in VictimProcs(tracker')
           \/ PidOf[v.proc] \in requests
           \/ cfg.limit > 0 /\ \E gap \in Gaps : v.age + gap >= cfg.limit
<1>1. PICK gap, read, u, new : gap \in Gaps /\ CycleTurns(gap, read, u, new)
  BY CycleIs
<1>2. Tracking(tracker') = Tracking(u) /\ u.victims \subseteq tracker'.victims
  BY <1>1, CycleTracker
<1>3. \/ Older(v, gap, MaxLimit) \in u.victims
      \/ PidOf[v.proc] \in requests
      \/ cfg.limit > 0 /\ v.age + gap >= cfg.limit
  BY <1>1, <1>2 DEF CycleTurns, Turned
<1>4. Older(v, gap, MaxLimit).proc = v.proc
  <2>1. v \in Victims
    BY DEF TypeOK, Trackers
  <2>2. QED
    BY <1>1, <2>1, OlderType, LimitTypes
<1>5. QED
  BY <1>1, <1>2, <1>3, <1>4 DEF VictimProcs

\* As long as one spike goes on, a victim is let go only on request or past its limit:
\* release_victims, drain_if_none_tracking and the demotions of one cycle together.
THEOREM VictimsHeldTogether == Spec => HeldTogether
<1>1. TypeOK /\ Unique /\ [Next]_vars =>
        [Tracking(tracker) \cap Tracking(tracker') # {} =>
           \A v \in tracker.victims :
              \/ v.proc \in VictimProcs(tracker')
              \/ PidOf[v.proc] \in requests
              \/ cfg.limit > 0 /\ \E gap \in Gaps : v.age + gap >= cfg.limit]_vars
  <2> SUFFICES ASSUME TypeOK, Unique, Next, Tracking(tracker) \cap Tracking(tracker') # {},
                      NEW v \in tracker.victims
               PROVE  \/ v.proc \in VictimProcs(tracker')
                      \/ PidOf[v.proc] \in requests
                      \/ cfg.limit > 0 /\ \E gap \in Gaps : v.age + gap >= cfg.limit
    OBVIOUS
  <2>1. CASE Cycle
    BY <2>1, CycleHolds
  <2>2. CASE Aside
    BY <2>2, AsideKeeps DEF VictimProcs
  <2>3. QED
    BY <2>1, <2>2, NextIs
<1>2. QED
  BY <1>1, TypeInvariant, PTL DEF Spec, HeldTogether

-----------------------------------------------------------------------------
(* A process that was let go is left alone: its pid has been in the        *)
(* cooldown no longer than the process has been free.                      *)

Rests ==
    /\ \A p \in Procs : tracker.cool[PidOf[p]] <= seen[p].freed
    /\ \A i \in Pids : tracker.cool[i] <= CooldownSec
    /\ \A v \in tracker.victims : v.age <= MaxLimit

\* The cooldown of a pid is not ahead of the time since its process was let go.
LEMMA FreedIs ==
    ASSUME TypeOK, Unique, Rests, NEW gap \in Gaps, NEW read, NEW u, NEW new,
           CycleTurns(gap, read, u, new), NEW p \in Procs
    PROVE  seen'[p].freed \in Nat /\ u.cool[PidOf[p]] \in Nat
           /\ u.cool[PidOf[p]] <= seen'[p].freed /\ u.cool[PidOf[p]] <= CooldownSec
<1>1. /\ u \in Trackers /\ PidOf[p] \in Pids
      /\ tracker.cool[PidOf[p]] \in Nat /\ u.cool[PidOf[p]] \in Nat
  BY CycleTracker, PidType DEF Trackers, TypeOK
<1>2. seen[p].freed \in Nat
  BY DEF TypeOK, Histories
<1>3. /\ tracker.cool[PidOf[p]] + gap \in Nat /\ seen[p].freed + gap \in Nat
      /\ tracker.cool[PidOf[p]] + gap <= seen[p].freed + gap
  BY <1>1, <1>2, LimitTypes DEF Rests
<1>4. u.cool[PidOf[p]] \in {0, Capped(tracker.cool[PidOf[p]] + gap, CooldownSec)}
  BY <1>1 DEF CycleTurns, Turned
<1>5. u.cool[PidOf[p]] <= CooldownSec
  BY <1>1, <1>3, <1>4, LimitTypes DEF Capped
<1>6. CASE p \notin live
  BY <1>1, <1>5, <1>6, LimitTypes DEF CycleTurns, Unseen
<1>7. CASE p \in live
  <2>1. seen'[p] = Seen(p, read[p], gap, u) /\ read[p] \in Readings
    BY <1>7 DEF CycleTurns, Turned
  <2>2. seen'[p].freed =
          IF /\ p \in VictimProcs(tracker) \ VictimProcs(u)
             /\ Tracking(tracker) \cap Tracking(u) # {}
          THEN 0 ELSE Capped(seen[p].freed + gap, CooldownSec)
    BY <2>1, SeenType DEF TypeOK
  <2>3. CASE /\ p \in VictimProcs(tracker) \ VictimProcs(u)
             /\ Tracking(tracker) \cap Tracking(u) # {}
    <3>1. PICK v \in tracker.victims : v.proc = p
      BY <2>3 DEF VictimProcs
    <3>2. Older(v, gap, MaxLimit).proc = p
      <4>1. v \in Victims
        BY <3>1 DEF TypeOK, Trackers
      <4>2. QED
        BY <3>1, <4>1, OlderType, LimitTypes
    <3>3. Older(v, gap, MaxLimit) \notin u.victims
      BY <2>3, <3>2 DEF VictimProcs
    <3>4. u.cool[PidOf[p]] = 0
      BY <2>3, <3>1, <3>3 DEF CycleTurns, Turned
    <3>5. QED
      BY <2>2, <2>3, <3>4, LimitTypes
  <2>4. CASE ~ /\ p \in VictimProcs(tracker) \ VictimProcs(u)
               /\ Tracking(tracker) \cap Tracking(u) # {}
    <3>1. seen'[p].freed = Capped(seen[p].freed + gap, CooldownSec)
      BY <2>2, <2>4
    <3>2. QED
      BY <1>1, <1>3, <1>4, <3>1, LimitTypes DEF Capped
  <2>5. QED
    BY <2>3, <2>4
<1>8. QED
  BY <1>6, <1>7

\* Rests is an invariant, whatever pids are taken again.
LEMMA RestsInvariant == Spec => []Rests
<1>1. Init => Rests
  <2> SUFFICES ASSUME Init
               PROVE  Rests
    OBVIOUS
  <2>1. \A p \in Procs : seen[p].freed = CooldownSec /\ PidOf[p] \in Pids
    BY PidType DEF Init, Unseen
  <2>2. \A i \in Pids : tracker.cool[i] = CooldownSec
    BY DEF Init
  <2>3. tracker.victims = {}
    BY DEF Init
  <2>4. QED
    BY <2>1, <2>2, <2>3, LimitTypes DEF Rests
<1>2. TypeOK /\ Unique /\ Rests /\ [Next]_vars => Rests'
  <2> SUFFICES ASSUME TypeOK, Unique, Rests, [Next]_vars
               PROVE  Rests'
    OBVIOUS
  <2>1. CASE Cycle
    <3>1. PICK gap, read, u, new : gap \in Gaps /\ CycleTurns(gap, read, u, new)
      BY <2>1, CycleIs
    <3>2. tracker'.cool = u.cool /\ tracker'.victims = u.victims \cup [proc : new, age : {0}]
      BY <3>1, CycleTracker
    <3>3. \A p \in Procs : tracker'.cool[PidOf[p]] <= seen'[p].freed
      BY <3>1, <3>2, FreedIs
    <3>4. \A i \in Pids : tracker'.cool[i] <= CooldownSec
      <4>1. \A i \in Pids : \E p \in Procs : PidOf[p] = i
        BY DEF Pids
      <4>2. QED
        BY <3>1, <3>2, <4>1, FreedIs
    <3>5. ASSUME NEW v \in tracker'.victims
          PROVE  v.age <= MaxLimit
      <4>1. CASE v \in u.victims
        <5>1. PICK w \in tracker.victims : v = Older(w, gap, MaxLimit)
          BY <3>1, <4>1 DEF CycleTurns, Turned
        <5>2. w \in Victims /\ w.age + gap \in Nat
          BY <3>1, <5>1, LimitTypes DEF TypeOK, Trackers, Victims
        <5>3. v.age = Capped(w.age + gap, MaxLimit)
          BY <3>1, <5>1, <5>2, OlderType, LimitTypes
        <5>4. QED
          BY <5>2, <5>3, LimitTypes DEF Capped
      <4>2. CASE v \in [proc : new, age : {0}]
        BY <4>2, LimitTypes
      <4>3. QED
        BY <3>2, <3>5, <4>1, <4>2
    <3>6. QED
      BY <3>3, <3>4, <3>5 DEF Rests
  <2>2. ASSUME NEW p \in Procs, Exit(p)
        PROVE  Rests'
    <3>1. /\ seen' = [seen EXCEPT ![p] = Unseen] /\ tracker' = tracker
          /\ seen \in [Procs -> Histories] /\ PidOf[p] \in Pids
      BY <2>2, PidType DEF Exit, TypeOK
    <3>2. Unseen.freed = CooldownSec
      BY DEF Unseen
    <3>3. \A q \in Procs : seen'[q].freed = IF q = p THEN CooldownSec ELSE seen[q].freed
      BY <3>1, <3>2
    <3>4. QED
      BY <3>1, <3>3 DEF Rests
  <2>3. CASE UNCHANGED <<tracker, seen>>
    BY <2>3 DEF Rests
  <2>4. QED
    BY <2>1, <2>2, <2>3 DEF Next, Start, Request, Focus, Reload, vars
<1>3. QED
  BY <1>1, <1>2, TypeInvariant, PTL DEF Spec

\* A victim let go while spikes go on is not stopped again before its cooldown is over:
\* maybe_freeze_victims reads the time that a request or the timeout has left there.
THEOREM VictimsRest == Spec => NotSoonAgain
<1>1. TypeOK /\ Unique /\ Rests /\ [Next]_vars =>
        [\A v \in tracker'.victims :
            v.age > 0 \/ v \in tracker.victims \/ seen'[v.proc].freed >= CooldownSec]_vars
  <2> SUFFICES ASSUME TypeOK, Unique, Rests, Next, NEW v \in tracker'.victims
               PROVE  v.age > 0 \/ v \in tracker.victims \/ seen'[v.proc].freed >= CooldownSec
    OBVIOUS
  <2>1. CASE Cycle
    <3>1. PICK gap, read, u, new : gap \in Gaps /\ CycleTurns(gap, read, u, new)
      BY <2>1, CycleIs
    <3>2. /\ tracker'.victims = u.victims \cup [proc : new, age : {0}]
          /\ new \subseteq live /\ \A p \in new : u.cool[PidOf[p]] >= CooldownSec
      BY <3>1, CycleTracker
    <3>3. CASE v \in u.victims
      <4>1. PICK w \in tracker.victims : v = Older(w, gap, MaxLimit)
        BY <3>1, <3>3 DEF CycleTurns, Turned
      <4>2. w \in Victims /\ w.age \in Nat /\ w.age + gap \in Nat /\ w.age <= MaxLimit
        BY <3>1, <4>1, LimitTypes DEF TypeOK, Trackers, Victims, Rests
      <4>3. v \in Victims /\ v.proc = w.proc /\ v.age = Capped(w.age + gap, MaxLimit)
        BY <3>1, <4>1, <4>2, OlderType, LimitTypes
      <4>4. v.age > 0 \/ v.age = w.age
        BY <3>1, <4>2, <4>3, LimitTypes DEF Capped
      <4>5. v.age = w.age => v = w
        BY <4>2, <4>3 DEF Victims
      <4>6. QED
        BY <4>1, <4>4, <4>5
    <3>4. CASE v \in [proc : new, age : {0}]
      <4>1. v.proc \in new /\ v.proc \in Procs
        BY <3>2, <3>4 DEF TypeOK
      <4>2. u.cool[PidOf[v.proc]] >= CooldownSec
        BY <3>2, <4>1
      <4>3. QED
        BY <3>1, <4>1, <4>2, FreedIs, LimitTypes
    <3>5. QED
      BY <3>2, <3>3, <3>4
  <2>2. CASE Aside
    BY <2>2, AsideKeeps
  <2>3. QED
    BY <2>1, <2>2, NextIs
<1>2. QED
  BY <1>1, TypeInvariant, RestsInvariant, PTL DEF Spec, NotSoonAgain

-----------------------------------------------------------------------------
(* A spike is given up only when it is quiet.  The tracker counts for a    *)
(* pid, the history for a process: the two agree if no pid is taken again  *)
(* before a cycle has missed its owner.                                    *)

Counts ==
    \A p \in live : PidOf[p] \in Tracking(tracker) =>
                       tracker.spikes[PidOf[p]].idle <= seen[p].quiet

\* The idle count of a pid is not ahead of the quiet cycles of its process.
LEMMA QuietIs ==
    ASSUME TypeOK, Unique, Counts, NEW gap \in Gaps, NEW read, NEW u, NEW new,
           CycleTurns(gap, read, u, new), NEW p \in live
    PROVE  /\ PidOf[p] \in Tracking(u) => u.spikes[PidOf[p]].idle <= seen'[p].quiet
           /\ PidOf[p] \in Demoted(tracker, u) => seen'[p].quiet >= IdleTicks
<1> DEFINE s == tracker.spikes[PidOf[p]]
           a == u.spikes[PidOf[p]]
           idle == IsIdle(read[p], Growth(tracker, p, read[p]))
<1>1. /\ p \in Procs /\ PidOf[p] \in Pids /\ u \in Trackers /\ read[p] \in Readings
      /\ seen'[p] = Seen(p, read[p], gap, u)
  BY PidType, CycleTracker DEF TypeOK, CycleTurns, Turned
<1>2. /\ s.idle \in Nat /\ a.idle \in Nat /\ seen[p].quiet \in Nat
      /\ s.phase = "Tracking" => s.idle <= seen[p].quiet
  BY <1>1 DEF TypeOK, Trackers, SpikeStates, Histories, Counts, Tracking
<1>3. /\ PidOf[p] \in Tracking(tracker) <=> s.phase = "Tracking"
      /\ PidOf[p] \in Tracking(u) <=> a.phase = "Tracking"
      /\ PidOf[p] \in Demoted(tracker, u) => s.phase = "Tracking" /\ a.phase = "Observing"
  BY <1>1 DEF Tracking, Demoted
<1>4. seen'[p].quiet = IF ~cfg.on THEN seen[p].quiet
                       ELSE IF idle /\ PidOf[p] \in Tracking(tracker)
                       THEN Capped(seen[p].quiet + 1, IdleTicks) ELSE 0
  BY <1>1, SeenType DEF TypeOK
<1>5. IF cfg.on THEN Follows(s, a, idle) ELSE a.phase = s.phase /\ a.idle = s.idle
  BY <1>1 DEF CycleTurns, Turned
<1> HIDE DEF s, a, idle
<1>6. CASE ~cfg.on
  BY <1>2, <1>3, <1>4, <1>5, <1>6 DEF a, s
<1>7. CASE cfg.on
  <2>1. Follows(s, a, idle)
    BY <1>5, <1>7
  <2>2. ASSUME a.phase = "Tracking"
        PROVE  a.idle <= seen'[p].quiet
    <3>1. CASE a.idle = 0
      BY <1>2, <1>3, <1>4, <1>7, <3>1, LimitTypes DEF Capped
    <3>2. CASE s.phase = "Tracking" /\ idle /\ a.idle = s.idle + 1 /\ a.idle < IdleTicks
      <4>1. seen'[p].quiet = Capped(seen[p].quiet + 1, IdleTicks)
        BY <1>3, <1>4, <1>7, <3>2
      <4>2. QED
        BY <1>2, <3>2, <4>1, LimitTypes DEF Capped
    <3>3. QED
      BY <2>1, <2>2, <3>1, <3>2 DEF Follows
  <2>3. ASSUME s.phase = "Tracking", a.phase = "Observing"
        PROVE  seen'[p].quiet >= IdleTicks
    <3>1. idle /\ s.idle + 1 >= IdleTicks
      BY <2>1, <2>3 DEF Follows
    <3>2. seen'[p].quiet = Capped(seen[p].quiet + 1, IdleTicks)
      BY <1>3, <1>4, <1>7, <2>3, <3>1
    <3>3. QED
      BY <1>2, <2>3, <3>1, <3>2, LimitTypes DEF Capped
  <2>4. QED
    BY <1>3, <2>2, <2>3 DEF a, s
<1>8. QED
  BY <1>6, <1>7

\* Counts is an invariant while no pid is taken again before a cycle missed its owner.
LEMMA CountsInvariant ==
    ASSUME ~QuickReuse
    PROVE  Spec => []Counts
<1>1. Init => Counts
  BY PidType DEF Init, Counts, Tracking, NoState
<1>2. TypeOK /\ Unique /\ Counts /\ [Next]_vars => Counts'
  <2> SUFFICES ASSUME TypeOK, Unique, Counts, [Next]_vars
               PROVE  Counts'
    OBVIOUS
  <2>1. CASE Cycle
    <3>1. PICK gap, read, u, new : gap \in Gaps /\ CycleTurns(gap, read, u, new)
      BY <2>1, CycleIs
    <3>2. /\ tracker'.spikes = u.spikes /\ Tracking(tracker') = Tracking(u)
          /\ live' = live
      BY <3>1, CycleTracker DEF CycleTurns
    <3>3. QED
      BY <3>1, <3>2, QuietIs DEF Counts
  <2>2. ASSUME NEW p \in Procs, Start(p)
        PROVE  Counts'
    <3>1. PidOf[p] \notin Tracking(tracker)
      BY <2>2 DEF Start, Known, SpikePids, Tracking
    <3>2. QED
      BY <2>2, <3>1 DEF Start, Counts
  <2>3. ASSUME NEW p \in Procs, Exit(p)
        PROVE  Counts'
    BY <2>3 DEF Exit, Counts, TypeOK
  <2>4. CASE UNCHANGED <<live, tracker, seen>>
    BY <2>4 DEF Counts
  <2>5. QED
    BY <2>1, <2>2, <2>3, <2>4 DEF Next, Request, Focus, Reload, vars
<1>3. QED
  BY <1>1, <1>2, TypeInvariant, PTL DEF Spec

\* A spike is given up only after idle_ticks_required idle readings in a row, unless a
\* new process took its pid between two cycles.
THEOREM SpikesGivenUpQuiet ==
    ASSUME ~QuickReuse
    PROVE  Spec => DemotedWhenQuiet
<1>1. TypeOK /\ Unique /\ Counts /\ [Next]_vars =>
        [\A p \in live : PidOf[p] \in Demoted(tracker, tracker') => seen'[p].quiet >= IdleTicks]_vars
  <2> SUFFICES ASSUME TypeOK, Unique, Counts, Next, NEW p \in live,
                      PidOf[p] \in Demoted(tracker, tracker')
               PROVE  seen'[p].quiet >= IdleTicks
    OBVIOUS
  <2>1. CASE Cycle
    <3>1. PICK gap, read, u, new : gap \in Gaps /\ CycleTurns(gap, read, u, new)
      BY <2>1, CycleIs
    <3>2. QED
      BY <3>1, CycleTracker, QuietIs
  <2>2. CASE Aside
    BY <2>2, AsideKeeps DEF Demoted, Tracking
  <2>3. QED
    BY <2>1, <2>2, NextIs
<1>2. QED
  BY <1>1, TypeInvariant, CountsInvariant, PTL DEF Spec, DemotedWhenQuiet
-----------------------------------------------------------------------------
(* No more is stopped than the missing room asks for.  The peaks are the   *)
(* greatest of finite sets of samples, and their sum and that of the       *)
(* victims are taken over finite sets.                                     *)

\* A finite set of numbers has a greatest one.
LEMMA MaxIs ==
    ASSUME NEW S, IsFiniteSet(S), S \subseteq Nat, S # {}
    PROVE  Max(S) \in S /\ \A y \in S : Max(S) >= y
<1> DEFINE Q == {s \in SUBSET S : s = {} \/ \E x \in s : \A y \in s : x >= y}
<1>1. ASSUME NEW s \in SUBSET S, \A v \in SUBSET s : v # s => v \in Q
      PROVE  s \in Q
  <2>1. CASE s = {}
    BY <2>1
  <2>2. CASE s # {}
    <3>1. PICK a \in s : TRUE
      BY <2>2
    <3>2. s \ {a} \in Q
      BY <1>1, <3>1
    <3>3. CASE s \ {a} = {}
      <4>1. \A y \in s : a >= y
        BY <3>1, <3>3
      <4>2. QED
        BY <3>1, <4>1
    <3>4. CASE s \ {a} # {}
      <4>1. PICK b \in s \ {a} : \A y \in s \ {a} : b >= y
        BY <3>2, <3>4
      <4>2. a \in Nat /\ b \in Nat /\ \A y \in s : y \in Nat
        BY <3>1, <4>1
      <4>3. CASE a >= b
        <5>1. \A y \in s : a >= y
          BY <4>1, <4>2, <4>3
        <5>2. QED
          BY <3>1, <5>1
      <4>4. CASE b >= a
        <5>1. \A y \in s : b >= y
          BY <4>1, <4>2, <4>4
        <5>2. QED
          BY <4>1, <5>1
      <4>5. QED
        BY <4>2, <4>3, <4>4
    <3>5. QED
      BY <3>3, <3>4
  <2>3. QED
    BY <2>1, <2>2
<1> HIDE DEF Q
<1>2. \A s \in SUBSET S : s \in Q
  BY <1>1, BySubsets, Zenon
<1>3. \E x \in S : \A y \in S : x >= y
  BY <1>2 DEF Q
<1>4. QED
  BY <1>3 DEF Max

\* What a function makes of a finite set is finite.
LEMMA ImageFinite ==
    ASSUME NEW S, IsFiniteSet(S), NEW f
    PROVE  IsFiniteSet({f[x] : x \in S})
<1> DEFINE T == {f[x] : x \in S}
           g == [x \in S |-> f[x]]
<1>1. g \in Surjection(S, T)
  BY DEF Surjection
<1>2. QED
  BY <1>1, FS_Surjection

\* There are finitely many pids.
LEMMA PidsFinite == IsFiniteSet(Pids)
BY ProcsAssumption, ImageFinite DEF Pids

\* A sum over processes of what their pids stand for is one of a function's values,
LEMMA PrevSum ==
    ASSUME NEW S, IsFiniteSet(S), NEW prev, NEW f, \A p \in S : f[p] = prev[PidOf[p]]
    PROVE  MapThenSumSet(LAMBDA p : prev[PidOf[p]], S) = Sum(f, S)
<1> DEFINE OfPrev(h) == h = [s \in SUBSET S |->
                          IF s = {} THEN 0 ELSE prev[PidOf[Pick(s)]] + h[s \ {Pick(s)}]]
           one == CHOOSE h : OfPrev(h)
<1>1. MapThenSumSet(LAMBDA p : prev[PidOf[p]], S) = one[S]
  BY DEF MapThenSumSet, MapThenFoldSet, Pick
<1>2. \A s \in SUBSET S : s # {} => f[Pick(s)] = prev[PidOf[Pick(s)]]
  BY PickIn
<1>3. \A h : OfPrev(h) <=> IsIter(f, S, h)
  BY <1>2 DEF IsIter
<1>4. \E h : OfPrev(h)
  BY <1>3, IterExists
<1>5. IsIter(f, S, one)
  <2> HIDE DEF OfPrev
  <2>1. QED
    BY <1>3, <1>4
<1>6. QED
  BY <1>1, <1>5, IterIsSum

\* and so is one of what was read of them,
LEMMA ReadSum ==
    ASSUME NEW S, IsFiniteSet(S), NEW read, NEW f, \A p \in S : f[p] = read[p].rss
    PROVE  RssOf(S, read) = Sum(f, S)
<1> DEFINE OfRead(h) == h = [s \in SUBSET S |->
                          IF s = {} THEN 0 ELSE read[Pick(s)].rss + h[s \ {Pick(s)}]]
           one == CHOOSE h : OfRead(h)
<1>1. RssOf(S, read) = one[S]
  BY DEF RssOf, MapThenSumSet, MapThenFoldSet, Pick
<1>2. \A s \in SUBSET S : s # {} => f[Pick(s)] = read[Pick(s)].rss
  BY PickIn
<1>3. \A h : OfRead(h) <=> IsIter(f, S, h)
  BY <1>2 DEF IsIter
<1>4. \E h : OfRead(h)
  BY <1>3, IterExists
<1>5. IsIter(f, S, one)
  <2> HIDE DEF OfRead
  <2>1. QED
    BY <1>3, <1>4
<1>6. QED
  BY <1>1, <1>5, IterIsSum

\* and that of the peaks.
Peaks(t) == [i \in Tracking(t) |-> RssMax(t.spikes[i])]

LEMMA PeakSum ==
    ASSUME NEW t
    PROVE  SumOfPeaks(t) = Sum(Peaks(t), Tracking(t))
<1> DEFINE S == Tracking(t)
           OfPeaks(h) == h = [s \in SUBSET S |->
               IF s = {} THEN 0 ELSE RssMax(t.spikes[Pick(s)]) + h[s \ {Pick(s)}]]
           one == CHOOSE h : OfPeaks(h)
<1>0. IsFiniteSet(S)
  BY PidsFinite, FS_Subset DEF Tracking
<1>1. SumOfPeaks(t) = one[S]
  BY DEF SumOfPeaks, MapThenSumSet, MapThenFoldSet, Pick
<1>2. \A s \in SUBSET S : s # {} => Peaks(t)[Pick(s)] = RssMax(t.spikes[Pick(s)])
  BY PickIn DEF Peaks
<1>3. \A h : OfPeaks(h) <=> IsIter(Peaks(t), S, h)
  BY <1>2 DEF IsIter
<1>4. \E h : OfPeaks(h)
  BY <1>0, <1>3, IterExists
<1>5. IsIter(Peaks(t), S, one)
  <2> HIDE DEF OfPeaks
  <2>1. QED
    BY <1>3, <1>4
<1>6. QED
  BY <1>0, <1>1, <1>5, IterIsSum

-----------------------------------------------------------------------------
\* What a cycle makes of the state and the reading of a live process.
LEMMA StateAfter ==
    ASSUME TypeOK, Unique, NEW gap \in Gaps, NEW read, NEW p \in live
    PROVE  LET u == After(gap, read)
               i == PidOf[p]
               o == OlderSamples(tracker.spikes[i], gap)
           IN IF cfg.on
              THEN /\ u.prev[i] = read[p].rss
                   /\ \E t \in Trackers :
                         /\ t.spikes[i] = o /\ t.prev[i] = tracker.prev[i]
                         /\ u.spikes[i] = CpuCheck(Advance(t, p, read[p]), p, read[p])
              ELSE u.spikes[i] = o /\ u.prev[i] = tracker.prev[i]
<1> DEFINE a == Aged(tracker, gap)
           t == ReleaseVictims(a)
           i == PidOf[p]
           o == OlderSamples(tracker.spikes[i], gap)
<1>1. tracker \in Trackers /\ live \subseteq Procs /\ i \in Pids /\ i \in Listed
  BY PidType DEF TypeOK, Listed
<1>2. a \in Trackers /\ a.spikes[i] = o /\ a.prev = tracker.prev
  <2>1. a \in Trackers /\ a.prev = tracker.prev
    BY <1>1, AgedType
  <2>2. a.spikes[i] = o
    BY <1>1 DEF Aged, Trackers
  <2>3. QED
    BY <2>1, <2>2
<1> HIDE DEF a
<1>3. t \in Trackers /\ t.spikes[i] = o /\ t.prev[i] = tracker.prev[i]
  BY <1>1, <1>2, ReleaseType DEF TypeOK
<1>4. After(gap, read) = IF cfg.on THEN Settle(t, Updated(t, read)) ELSE t
  BY DEF After, a
<1> HIDE DEF t, o
<1>5. CASE cfg.on
  <2>1. /\ Settle(t, Updated(t, read)).spikes[i] = CpuCheck(Advance(t, p, read[p]), p, read[p])
        /\ Settle(t, Updated(t, read)).prev[i] = read[p].rss
    BY <1>1, <1>3, UpdatedIs
  <2>2. QED
    BY <1>3, <1>4, <1>5, <2>1 DEF o
<1>6. CASE ~cfg.on
  BY <1>3, <1>4, <1>6 DEF o
<1>7. QED
  BY <1>5, <1>6

\* The window of a pid that is tracked holds finitely many samples.
FiniteSamples(t) ==
    \A i \in Pids : t.spikes[i].phase # "none" => IsFiniteSet(t.spikes[i].samples)

\* Growing older keeps it so,
LEMMA OlderFinite ==
    ASSUME NEW s \in SpikeStates, NEW gap, IsFiniteSet(s.samples)
    PROVE  IsFiniteSet(OlderSamples(s, gap).samples)
<1> DEFINE f == [x \in s.samples |-> Older(x, gap, WindowSec + 1)]
<1>1. IsFiniteSet({f[x] : x \in s.samples})
  BY ImageFinite
<1>2. OlderSamples(s, gap).samples = {f[x] : x \in s.samples}
  BY DEF OlderSamples, SpikeStates
<1>3. QED
  BY <1>1, <1>2

\* and so does a reading.
LEMMA AdvanceFinite ==
    ASSUME NEW t \in Trackers, NEW p \in Procs, NEW r \in Readings,
           LET s == t.spikes[PidOf[p]] IN s.phase # "none" => IsFiniteSet(s.samples)
    PROVE  LET a == CpuCheck(Advance(t, p, r), p, r)
           IN a.phase # "none" => IsFiniteSet(a.samples)
<1> DEFINE g == Register(t, p, r)
           m == Measured(g, r)
           a == Advance(t, p, r)
<1>1. t.prev[PidOf[p]] \in Nat \cup {Unread} /\ r.rss \in Nat
  BY PidType DEF Trackers, Readings
<1>2. g \in SpikeStates /\ (g.phase # "none" => IsFiniteSet(g.samples))
  <2>1. \A n \in Nat : Fresh(n).samples = {}
    BY DEF Fresh, NoState
  <2>2. \A n : IsFiniteSet({})
    BY FS_EmptySet
  <2>3. g \in SpikeStates
    BY RegisterType
  <2>4. g.phase # "none" => IsFiniteSet(g.samples)
    BY <1>1, <2>1, <2>2, StatesType DEF Register
  <2>5. QED
    BY <2>3, <2>4
<1>3. a = IF g.phase = "none" THEN g ELSE Phase(m, r, Growth(t, p, r))
  BY DEF Advance
<1>4. a \in SpikeStates
  BY AdvanceType DEF Follows
<1>5. g.phase # "none" => IsFiniteSet(a.samples)
  <2> SUFFICES ASSUME g.phase # "none"
               PROVE  IsFiniteSet(a.samples)
    OBVIOUS
  <2>1. m \in SpikeStates
    BY <1>2, MeasuredType
  <2>2. IsFiniteSet(m.samples)
    <3> DEFINE kept == {x \in g.samples : x.age <= WindowSec}
               n == [rss |-> r.rss, age |-> 0]
    <3>1. m.samples = kept \cup {n}
      BY <1>2 DEF Measured, Sampled, SpikeStates
    <3>2. IsFiniteSet(kept)
      BY <1>2, FS_Subset
    <3>3. QED
      BY <3>1, <3>2, FS_AddElement
  <2>3. Fresh(r.rss).samples = {} /\ IsFiniteSet({})
    BY FS_EmptySet DEF Fresh, NoState
  <2> HIDE DEF m, g, a
  <2>4. a.samples = m.samples \/ a.samples = {}
    BY <1>3, <2>1, <2>3 DEF Phase, SpikeStates
  <2>5. QED
    BY <2>2, <2>3, <2>4
<1>6. g.phase = "none" => a.phase = "none"
  BY <1>3
<1> HIDE DEF a, g
<1>7. /\ CpuCheck(a, p, r).phase = a.phase /\ CpuCheck(a, p, r).samples = a.samples
  BY <1>4 DEF CpuCheck, SpikeStates
<1>8. QED
  BY <1>5, <1>6, <1>7 DEF a

\* So a cycle keeps it so.
LEMMA AfterFinite ==
    ASSUME TypeOK, Unique, FiniteSamples(tracker), NEW gap \in Gaps, NEW read,
           \A p \in live : read[p] \in Readings
    PROVE  FiniteSamples(After(gap, read))
<1> DEFINE u == After(gap, read)
<1>1. Turned(u, read, gap)
  BY TurnedIs DEF After
<1> HIDE DEF u
<1>2. ASSUME NEW i \in Pids, u.spikes[i].phase # "none"
      PROVE  IsFiniteSet(u.spikes[i].samples)
  <2>1. PICK p \in live : PidOf[p] = i
    BY <1>1, <1>2 DEF Turned, Listed
  <2> DEFINE s == tracker.spikes[i]
             o == OlderSamples(s, gap)
  <2>2. s \in SpikeStates /\ o.phase = s.phase
    <3>1. s \in SpikeStates
      BY DEF TypeOK, Trackers
    <3>2. QED
      BY <3>1, OlderSamplesType
  <2>3. o.phase # "none" => IsFiniteSet(o.samples)
    BY <2>2, OlderFinite DEF FiniteSamples
  <2> HIDE DEF o
  <2>4. CASE cfg.on
    <3>1. PICK t \in Trackers : /\ t.spikes[i] = o
                                /\ u.spikes[i] = CpuCheck(Advance(t, p, read[p]), p, read[p])
      BY <2>1, <2>4, StateAfter DEF o, u
    <3>2. p \in Procs /\ read[p] \in Readings
      BY DEF TypeOK
    <3>3. QED
      BY <1>2, <2>1, <2>3, <3>1, <3>2, AdvanceFinite
  <2>5. CASE ~cfg.on
    <3>1. u.spikes[i] = o
      BY <2>1, <2>5, StateAfter DEF o, u
    <3>2. QED
      BY <1>2, <2>3, <3>1
  <2>6. QED
    BY <2>4, <2>5
<1>3. QED
  BY <1>2 DEF FiniteSamples, u

\* The windows are finite at any time.
LEMMA FiniteInvariant == Spec => []FiniteSamples(tracker)
<1>1. Init => FiniteSamples(tracker)
  BY DEF Init, FiniteSamples, NoState
<1>2. TypeOK /\ Unique /\ FiniteSamples(tracker) /\ [Next]_vars => FiniteSamples(tracker)'
  <2> SUFFICES ASSUME TypeOK, Unique, FiniteSamples(tracker), [Next]_vars
               PROVE  FiniteSamples(tracker')
    OBVIOUS
  <2>1. CASE Cycle
    <3>1. PICK gap \in Gaps, available \in Avails : \E read, order, k :
              CycleParts(gap, available, read, order, k)
      BY <2>1, CycleHasParts
    <3>2. PICK read, order, k : CycleParts(gap, available, read, order, k)
      BY <3>1
    <3>3. CycleTurns(gap, read, After(gap, read), FirstOf(order, k))
      BY <3>2 DEF CycleParts
    <3>4. tracker'.spikes = After(gap, read).spikes
      BY <3>3, CycleTracker
    <3>5. FiniteSamples(After(gap, read))
      BY <3>3, AfterFinite DEF CycleTurns, Turned
    <3>6. QED
      BY <3>4, <3>5 DEF FiniteSamples
  <2>2. CASE Aside
    BY <2>2, AsideKeeps
  <2>3. CASE UNCHANGED vars
    BY <2>3 DEF vars
  <2>4. QED
    BY <2>1, <2>2, <2>3, NextIs
<1>3. QED
  BY <1>1, <1>2, TypeInvariant, PTL DEF Spec

\* What is required for the peaks is a number, and depends on the states alone.
LEMMA RequiredType ==
    ASSUME NEW t \in Trackers, FiniteSamples(t)
    PROVE  /\ Required(t) \in Int
           /\ \A w \in Trackers : w.spikes = t.spikes => Required(w) = Required(t)
<1>1. IsFiniteSet(Tracking(t))
  BY PidsFinite, FS_Subset DEF Tracking
<1>2. \A i \in Tracking(t) : Peaks(t)[i] \in Nat
  <2>1. ASSUME NEW i \in Tracking(t)
        PROVE  RssMax(t.spikes[i]) \in Nat
    <3> DEFINE s == t.spikes[i]
               S == {x.rss : x \in s.samples}
               f == [x \in s.samples |-> x.rss]
    <3>1. s \in SpikeStates /\ IsFiniteSet(s.samples)
      BY <2>1 DEF Tracking, Trackers, FiniteSamples
    <3>2. S \subseteq Nat /\ s.initial \in Nat
      BY <3>1 DEF SpikeStates, Samples
    <3>3. S = {f[x] : x \in s.samples} /\ IsFiniteSet({f[x] : x \in s.samples})
      BY <3>1, ImageFinite
    <3>4. s.samples # {} => Max(S) \in Nat
      <4>1. s.samples # {} => S # {}
        OBVIOUS
      <4>2. IsFiniteSet(S)
        BY <3>3
      <4> HIDE DEF S
      <4>3. QED
        BY <3>2, <4>1, <4>2, MaxIs
    <3>5. QED
      BY <3>2, <3>4 DEF RssMax
  <2>2. QED
    BY <2>1 DEF Peaks
<1>3. SumOfPeaks(t) \in Nat
  BY <1>1, <1>2, PeakSum, SumIsNat
<1>4. Required(t) \in Int
  BY <1>3, LimitsAssumption DEF Required
<1>5. ASSUME NEW w \in Trackers, w.spikes = t.spikes
      PROVE  Required(w) = Required(t)
  <2>1. Tracking(w) = Tracking(t) /\ Peaks(w) = Peaks(t)
    BY <1>5 DEF Tracking, Peaks
  <2>2. QED
    BY <2>1, PeakSum DEF Required
<1>6. QED
  BY <1>4, <1>5

\* One cycle stops no more than the missing room asks for, for any number of processes,
\* sizes and peaks: without the last one it would still be missing (spike.rs:169-204).
THEOREM NobodyStoppedInVain == Spec => NoMoreThanNeeded
<1> DEFINE Stopped == stopped' \ stopped
           Freed(v) == MapThenSumSet(LAMBDA p : tracker'.prev[PidOf[p]], Stopped \ {v})
<1>1. ASSUME TypeOK, Unique, FiniteSamples(tracker), [Next]_vars, Stopped # {}
      PROVE  \E v \in Stopped : room' + Freed(v) < Required(tracker')
  <2>1. Cycle
    BY <1>1, Zenon DEF Next, Start, Exit, Request, Focus, Reload, vars
  <2>2. PICK gap \in Gaps, available \in Avails : \E read, order, k :
            CycleParts(gap, available, read, order, k)
    BY <1>1, <2>1, CycleHasParts
  <2>3. PICK read, order, k : CycleParts(gap, available, read, order, k)
    BY <2>2
  <2> DEFINE u == After(gap, read)
             need == IF cfg.on THEN Needed(u, available) ELSE 0
             new == FirstOf(order, k)
             rss == [p \in live |-> read[p].rss]
  <2>4. /\ CycleTurns(gap, read, u, new) /\ room' = available
        /\ order \in Orders(Eligible(u, read), read) /\ k \in 0..Len(order)
        /\ Suffices(order, k, need, read)
    BY <2>3 DEF CycleParts
  <2>5. /\ u \in Trackers /\ tracker' \in Trackers /\ tracker'.spikes = u.spikes
        /\ tracker'.prev = u.prev
    <3>1. u \in Trackers /\ tracker' \in Trackers /\ tracker'.spikes = u.spikes
      BY <1>1, <2>4, CycleTracker
    <3>2. tracker'.prev = u.prev
      BY <2>4, <3>1 DEF CycleTurns, Trackers
    <3>3. QED
      BY <3>1, <3>2
  <2>6. IsFiniteSet(live) /\ \A p \in live : read[p] \in Readings /\ rss[p] \in Nat
    <3>1. \A p \in live : read[p] \in Readings
      BY <2>4 DEF CycleTurns, Turned
    <3>2. QED
      BY <1>1, <3>1, FS_Subset, ProcsAssumption DEF TypeOK, Readings
  <2>7. available \in Nat /\ Required(u) \in Int /\ Required(tracker') = Required(u)
    <3>1. FiniteSamples(u)
      BY <1>1, <2>6, AfterFinite
    <3>2. QED
      BY <2>5, <3>1, RequiredType, ReadingsAssumption
  <2>8. Len(order) \in Nat /\ \A l \in 0..Len(order) : FirstOf(order, l) \subseteq live
    <3>1. Eligible(u, read) \subseteq live
      BY DEF Eligible
    <3>2. IsFiniteSet(Eligible(u, read))
      BY <2>6, <3>1, FS_Subset
    <3>3. \A l \in 0..Len(order) : FirstOf(order, l) \subseteq Eligible(u, read)
      BY <2>4, <3>2, FirstOfType
    <3>4. Len(order) \in Nat
      <4>1. Cardinality(Eligible(u, read)) \in Nat
        BY <3>2, FS_CardinalityType
      <4>2. order \in [1..Cardinality(Eligible(u, read)) -> Eligible(u, read)]
        BY <2>4 DEF Orders
      <4>3. QED
        BY <4>1, <4>2, LenProperties
    <3>5. QED
      BY <3>1, <3>3, <3>4
  <2>9. Stopped \subseteq new
    BY <2>4 DEF CycleTurns
  <2>10. k \in Nat /\ k # 0 /\ k - 1 \in 0..Len(order) /\ k - 1 \in 0..(k - 1)
    <3>1. k = 0 => new = {}
      BY DEF FirstOf
    <3>2. k # 0
      BY <1>1, <2>9, <3>1
    <3>3. QED
      BY <2>4, <2>8, <3>2
  <2> DEFINE before == FirstOf(order, k - 1)
  <2>11. PICK v \in Stopped : Stopped \ {v} \subseteq before
    <3>1. new \subseteq before \cup {order[k]}
      BY <2>10 DEF FirstOf
    <3>2. CASE order[k] \in Stopped
      BY <2>9, <3>1, <3>2
    <3>3. CASE order[k] \notin Stopped
      BY <1>1, <2>9, <3>1, <3>3
    <3>4. QED
      BY <3>2, <3>3
  <2>12. /\ RssOf(before, read) < need /\ RssOf(before, read) = Sum(rss, before)
         /\ Sum(rss, before) \in Nat /\ before \subseteq live /\ IsFiniteSet(before)
    <3>1. before \subseteq live
      BY <2>8, <2>10
    <3>2. IsFiniteSet(before)
      BY <2>6, <3>1, FS_Subset
    <3>3. \A p \in before : rss[p] = read[p].rss
      BY <3>1
    <3>4. RssOf(before, read) < need
      BY <2>4, <2>10 DEF Suffices
    <3> HIDE DEF rss, before
    <3>5. RssOf(before, read) = Sum(rss, before)
      BY <3>2, <3>3, ReadSum
    <3>6. Sum(rss, before) \in Nat
      BY <2>6, <3>1, SumIsNat
    <3>7. QED
      BY <3>1, <3>2, <3>4, <3>5, <3>6
  <2>13. cfg.on /\ available + Sum(rss, before) < Required(u)
    <3>1. cfg.on
      BY <2>12
    <3>2. Sum(rss, before) < Less(Required(u), available)
      BY <2>12, <3>1 DEF Needed
    <3>3. QED
      BY <2>7, <2>12, <3>1, <3>2 DEF Less
  <2>14. Freed(v) = Sum(rss, Stopped \ {v})
    <3>1. \A p \in live : u.prev[PidOf[p]] = read[p].rss
      BY <1>1, <2>13, StateAfter
    <3>2. IsFiniteSet(Stopped \ {v}) /\ Stopped \ {v} \subseteq live
      BY <2>11, <2>12, FS_Subset
    <3>3. \A p \in Stopped \ {v} : rss[p] = tracker'.prev[PidOf[p]]
      BY <2>5, <3>1, <3>2
    <3> HIDE DEF rss, Stopped
    <3>4. QED
      BY <3>2, <3>3, PrevSum
  <2>15. Sum(rss, Stopped \ {v}) \in Nat /\ Sum(rss, Stopped \ {v}) <= Sum(rss, before)
    <3>1. \A p \in before : rss[p] \in Nat
      BY <2>6, <2>12
    <3>2. Stopped \ {v} \in SUBSET before
      BY <2>11
    <3> HIDE DEF rss, before, Stopped
    <3>3. QED
      BY <2>12, <3>1, <3>2, SumMonotone, SumIsNat
  <2> HIDE DEF Freed, rss, before, Stopped, u
  <2>16. room' + Freed(v) < Required(tracker')
    BY <2>4, <2>7, <2>12, <2>13, <2>14, <2>15
  <2>17. QED
    BY <2>11, <2>16
<1>2. TypeOK /\ Unique /\ FiniteSamples(tracker) /\ [Next]_vars =>
        [LET new    == stopped' \ stopped
             Rss(p) == tracker'.prev[PidOf[p]]
         IN new # {} =>
                \E v \in new : room' + MapThenSumSet(Rss, new \ {v}) < Required(tracker')]_vars
  BY <1>1
<1>3. QED
  BY <1>2, TypeInvariant, FiniteInvariant, PTL DEF Spec, NoMoreThanNeeded

-----------------------------------------------------------------------------
(* A process is acted for as a spike only when its memory has swung.  What *)
(* the tracker remembers of a pid is no more than what was read of its     *)
(* process since it was demoted last.                                      *)

\* Of a greater peak a greater part is required.
LEMMA DropMonotone ==
    ASSUME NEW a \in Nat, NEW b \in Nat, a <= b
    PROVE  (a * DropPct) \div 100 <= (b * DropPct) \div 100
<1>1. DropPct \in Nat
  BY LimitsAssumption
<1>2. a * DropPct \in Nat /\ b * DropPct \in Nat /\ a * DropPct <= b * DropPct
  BY <1>1
<1>3. \A x, y \in Nat : x <= y => x \div 100 <= y \div 100
  OBVIOUS
<1>4. QED
  BY <1>2, <1>3

\* What a reading adds to the history.
LEMMA SwingIs ==
    ASSUME NEW h \in Histories, NEW r \in Readings
    PROVE  LET n == Swing(h, r)
           IN /\ n \in Histories /\ n.low # Unread /\ n.low <= r.rss
              /\ h.low # Unread => n.low <= h.low
              /\ n.rise >= h.rise
              /\ h.low # Unread /\ r.rss > h.low + GrowthThreshold => n.rise >= r.rss
              /\ h.fell => n.fell
              /\ r.rss < (n.rise * DropPct) \div 100 => n.fell
<1> DEFINE risen == h.low # Unread /\ r.rss > h.low + GrowthThreshold
           rise  == IF risen /\ r.rss > h.rise THEN r.rss ELSE h.rise
           fell  == h.fell \/ (r.rss < (rise * DropPct) \div 100)
           low   == IF h.low = Unread \/ r.rss < h.low THEN r.rss ELSE h.low
<1>1. h.low \in Nat \cup {Unread} /\ h.rise \in Nat /\ h.fell \in BOOLEAN /\ r.rss \in Nat
  BY DEF Histories, Readings
<1>2. GrowthThreshold \in Nat
  BY LimitsAssumption
<1>3. /\ rise \in Nat /\ rise >= h.rise /\ (risen => rise >= r.rss)
      /\ low \in Nat /\ low <= r.rss /\ (h.low # Unread => low <= h.low)
  BY <1>1, <1>2 DEF Unread
<1>4. fell \in BOOLEAN
  OBVIOUS
<1>5. Swing(h, r) = [h EXCEPT !.low = low, !.rise = rise, !.fell = fell]
  BY DEF Swing
<1>6. low # Unread
  BY <1>3 DEF Unread
<1> HIDE DEF rise, low
<1>7. /\ Swing(h, r) \in Histories /\ Swing(h, r).low = low
      /\ Swing(h, r).rise = rise /\ Swing(h, r).fell = fell
  <2> HIDE DEF fell
  <2>1. QED
    BY <1>3, <1>4, <1>5 DEF Histories
<1>8. QED
  BY <1>3, <1>6, <1>7

\* The tracker sees no swing that the history has not.
Swung(s, h) ==
    /\ \A x \in s.samples : x.rss > s.initial + GrowthThreshold => h.rise >= x.rss
    /\ s.peaked => h.rise > s.initial + GrowthThreshold
    /\ s.oscillated => h.fell

\* A reading that both take keeps it so: initial is no lower than what was read before it.
LEMMA MeasuredSwings ==
    ASSUME NEW g \in SpikeStates, NEW h \in Histories, NEW r \in Readings,
           IsFiniteSet(g.samples), Swung(g, h),
           (h.low # Unread /\ h.low <= g.initial) \/ g.initial = r.rss
    PROVE  LET m == Measured(g, r)
               n == Swing(h, r)
           IN Swung(m, n) /\ m.initial = g.initial /\ n.low # Unread /\ n.low <= g.initial
<1> DEFINE m == Measured(g, r)
           n == Swing(h, r)
           v == Sampled(g, r)
           kept == {x \in g.samples : x.age <= WindowSec}
           new == [rss |-> r.rss, age |-> 0]
           peaked == g.peaked \/ RssMax(v) > g.initial + GrowthThreshold
           oscillated == g.oscillated \/ (peaked /\ r.rss < (RssMax(v) * DropPct) \div 100)
<1>1. /\ g.initial \in Nat /\ r.rss \in Nat /\ GrowthThreshold \in Nat
      /\ h.low \in Nat \cup {Unread} /\ h.rise \in Nat
      /\ g.samples \subseteq Samples /\ g.peaked \in BOOLEAN /\ g.oscillated \in BOOLEAN
  BY LimitsAssumption DEF SpikeStates, Readings, Histories
<1>2. /\ n \in Histories /\ n.low # Unread /\ n.low <= r.rss
      /\ h.low # Unread => n.low <= h.low
      /\ n.rise >= h.rise /\ n.low \in Nat \cup {Unread} /\ n.rise \in Nat
      /\ h.low # Unread /\ r.rss > h.low + GrowthThreshold => n.rise >= r.rss
      /\ h.fell => n.fell
      /\ r.rss < (n.rise * DropPct) \div 100 => n.fell
  BY SwingIs DEF Histories
<1>3. n.low <= g.initial
  BY <1>1, <1>2 DEF Unread
<1>4. /\ v.samples = kept \cup {new} /\ v.initial = g.initial /\ v \in SpikeStates
      /\ v.peaked = g.peaked /\ v.oscillated = g.oscillated
  BY <1>1 DEF Sampled, SpikeStates, Samples
<1>5. \A x \in v.samples : x.rss \in Nat /\ (x.rss > g.initial + GrowthThreshold => n.rise >= x.rss)
  <2>1. \A x \in kept :
           x.rss \in Nat /\ (x.rss > g.initial + GrowthThreshold => n.rise >= x.rss)
    <3>1. \A x \in kept :
             x.rss \in Nat /\ (x.rss > g.initial + GrowthThreshold => h.rise >= x.rss)
      BY <1>1 DEF Swung, Samples
    <3> HIDE DEF n, kept
    <3>2. QED
      BY <1>1, <1>2, <3>1
  <2>2. r.rss > g.initial + GrowthThreshold => n.rise >= r.rss
    <3> HIDE DEF n
    <3>1. QED
      BY <1>1, <1>2 DEF Unread
  <2>3. QED
    BY <1>1, <1>4, <2>1, <2>2
<1>6. RssMax(v) \in {x.rss : x \in v.samples}
  <2> DEFINE S == {x.rss : x \in v.samples}
             f == [x \in v.samples |-> x.rss]
  <2>1. IsFiniteSet(v.samples) /\ v.samples # {}
    <3>1. IsFiniteSet(kept)
      BY FS_Subset
    <3>2. v.samples = kept \cup {new}
      BY <1>4
    <3> HIDE DEF v, kept, new
    <3>3. IsFiniteSet(kept \cup {new})
      BY <3>1, FS_AddElement
    <3>4. QED
      BY <3>2, <3>3
  <2>2. IsFiniteSet({f[x] : x \in v.samples})
    BY <2>1, ImageFinite
  <2>3. IsFiniteSet(S) /\ S \subseteq Nat /\ S # {}
    BY <1>5, <2>1, <2>2
  <2>4. RssMax(v) = Max(S)
    BY <2>1 DEF RssMax
  <2> HIDE DEF S
  <2>5. Max(S) \in S
    BY <2>3, MaxIs
  <2>6. QED
    BY <2>4, <2>5 DEF S
<1>7. RssMax(v) \in Nat /\ (RssMax(v) > g.initial + GrowthThreshold => n.rise >= RssMax(v))
  BY <1>5, <1>6
<1>8. /\ m.samples = v.samples /\ m.initial = g.initial
      /\ m.peaked = peaked /\ m.oscillated = oscillated
  <2>1. m = [v EXCEPT !.peaked = peaked, !.oscillated = oscillated]
    BY <1>4 DEF Measured
  <2> HIDE DEF v, peaked, oscillated
  <2>2. QED
    BY <1>4, <2>1 DEF SpikeStates
<1> HIDE DEF m, n, v
<1>9. peaked => n.rise > g.initial + GrowthThreshold
  <2>1. g.peaked => h.rise > g.initial + GrowthThreshold
    BY DEF Swung
  <2>2. QED
    BY <1>1, <1>2, <1>7, <2>1
<1>10. oscillated => n.fell
  <2>1. CASE g.oscillated
    BY <1>2, <2>1 DEF Swung
  <2>2. CASE peaked /\ r.rss < (RssMax(v) * DropPct) \div 100
    <3>1. n.rise >= RssMax(v)
      BY <1>1, <1>2, <1>7, <1>9, <2>2
    <3>2. (RssMax(v) * DropPct) \div 100 <= (n.rise * DropPct) \div 100
      BY <1>2, <1>7, <3>1, DropMonotone
    <3>3. (RssMax(v) * DropPct) \div 100 \in Int /\ (n.rise * DropPct) \div 100 \in Int
      <4>1. DropPct \in Nat
        BY LimitsAssumption
      <4>2. RssMax(v) * DropPct \in Int /\ n.rise * DropPct \in Int
        BY <1>2, <1>7, <4>1
      <4>3. QED
        BY <4>2
    <3>4. r.rss < (n.rise * DropPct) \div 100
      BY <1>1, <2>2, <3>2, <3>3
    <3>5. QED
      BY <1>2, <3>4
  <2>3. QED
    BY <2>1, <2>2
<1>11. Swung(m, n)
  BY <1>5, <1>8, <1>9, <1>10 DEF Swung
<1>12. QED
  BY <1>2, <1>3, <1>8, <1>11 DEF m, n

\* Samples that grow older are the same sizes; a history with the same swing stands for it.
LEMMA OlderSwings ==
    ASSUME NEW s \in SpikeStates, NEW gap \in Gaps, NEW h, Swung(s, h)
    PROVE  LET o == OlderSamples(s, gap)
           IN o.initial = s.initial /\ Swung(o, h)
<1> DEFINE o == OlderSamples(s, gap)
           older == {Older(x, gap, WindowSec + 1) : x \in s.samples}
<1>1. \A x \in s.samples : Older(x, gap, WindowSec + 1).rss = x.rss
  BY DEF SpikeStates, Samples, Older
<1>2. \A y \in older : \E x \in s.samples : y.rss = x.rss
  BY <1>1
<1>3. /\ o.samples = older /\ o.initial = s.initial
      /\ o.peaked = s.peaked /\ o.oscillated = s.oscillated
  BY DEF OlderSamples, SpikeStates
<1> HIDE DEF o, older
<1>4. Swung(o, h)
  BY <1>2, <1>3 DEF Swung
<1>5. QED
  BY <1>3, <1>4 DEF o

\* How the swing of a history goes on: from nothing for a pid that is demoted.
LEMMA SeenSwing ==
    ASSUME seen \in [Procs -> Histories], NEW p \in Procs, NEW r \in Readings, NEW gap, NEW u
    PROVE  LET n == Seen(p, r, gap, u)
               h == IF PidOf[p] \in Demoted(tracker, u) THEN Unseen ELSE seen[p]
           IN IF cfg.on
              THEN /\ n.low = Swing(h, r).low /\ n.rise = Swing(h, r).rise
                   /\ n.fell = Swing(h, r).fell
              ELSE n.low = seen[p].low /\ n.rise = seen[p].rise /\ n.fell = seen[p].fell
<1> DEFINE h == seen[p]
           i == PidOf[p]
           calm == IsIdle(r, Growth(tracker, p, r))
           swung == IF ~cfg.on THEN h
                    ELSE IF i \in Demoted(tracker, u)
                    THEN [Swing(Unseen, r) EXCEPT !.freed = h.freed]
                    ELSE Swing(h, r)
           quiet == IF ~cfg.on THEN h.quiet
                    ELSE IF calm /\ i \in Tracking(tracker) THEN Capped(h.quiet + 1, IdleTicks)
                    ELSE 0
           freed == IF p \in VictimProcs(tracker) \ VictimProcs(u)
                       /\ Tracking(tracker) \cap Tracking(u) # {}
                    THEN 0 ELSE Capped(h.freed + gap, CooldownSec)
<1>1. /\ Unseen \in Histories /\ h \in Histories
      /\ Swing(Unseen, r) \in Histories /\ Swing(h, r) \in Histories
  <2>1. Unseen \in Histories
    BY LimitTypes DEF Histories, Unseen
  <2>2. QED
    BY <2>1, SwingIs
<1>2. Seen(p, r, gap, u) = [swung EXCEPT !.quiet = quiet, !.freed = freed]
  BY Zenon DEF Seen
<1> HIDE DEF quiet, freed
<1>3. CASE ~cfg.on
  BY <1>1, <1>2, <1>3 DEF Histories
<1>4. CASE cfg.on /\ i \in Demoted(tracker, u)
  <2>1. swung = [Swing(Unseen, r) EXCEPT !.freed = h.freed]
    BY <1>4
  <2> HIDE DEF swung
  <2>2. QED
    BY <1>1, <1>2, <1>4, <2>1 DEF Histories
<1>5. CASE cfg.on /\ i \notin Demoted(tracker, u)
  BY <1>1, <1>2, <1>5 DEF Histories
<1>6. QED
  BY <1>3, <1>4, <1>5

\* The state s and the last reading of a pid, and the history of its process.
Remembered(s, last, h) ==
    /\ last # Unread => h.low # Unread /\ h.low <= last
    /\ s.phase = "Observing" => h.low # Unread /\ h.low <= s.initial /\ Swung(s, h)

\* It is not more than was read, reading by reading; and what starts Tracking has swung.
LEMMA AdvanceSwings ==
    ASSUME NEW t \in Trackers, NEW p \in Procs, NEW r \in Readings, NEW h \in Histories,
           LET s == t.spikes[PidOf[p]]
           IN Remembered(s, t.prev[PidOf[p]], h)
              /\ (s.phase # "none" => IsFiniteSet(s.samples))
    PROVE  LET s == t.spikes[PidOf[p]]
               a == CpuCheck(Advance(t, p, r), p, r)
               demoted == s.phase = "Tracking" /\ a.phase = "Observing"
               n == Swing(IF demoted THEN Unseen ELSE h, r)
           IN /\ Remembered(a, r.rss, n)
              /\ s.phase # "Tracking" /\ a.phase = "Tracking" => n.fell
<1> DEFINE s == t.spikes[PidOf[p]]
           last == t.prev[PidOf[p]]
           g == Register(t, p, r)
           m == Measured(g, r)
           b == Advance(t, p, r)
           a == CpuCheck(b, p, r)
           demoted == s.phase = "Tracking" /\ a.phase = "Observing"
           n == Swing(IF demoted THEN Unseen ELSE h, r)
<1>1. last \in Nat \cup {Unread} /\ r.rss \in Nat /\ s \in SpikeStates
  BY PidType DEF Trackers, Readings
<1>2. Unseen \in Histories /\ Unseen.low = Unread
  BY LimitTypes DEF Histories, Unseen
<1>3. n.low # Unread /\ n.low <= r.rss
  BY <1>2, SwingIs
<1>4. Follows(s, b, IsIdle(r, Growth(t, p, r))) /\ b \in SpikeStates
  BY AdvanceType DEF Follows
<1>5. b = IF g.phase = "none" THEN g ELSE Phase(m, r, Growth(t, p, r))
  BY DEF Advance
<1>6. /\ g \in SpikeStates /\ (s.phase # "none" => g = s)
      /\ s.phase = "none" => g.phase \in {"none", "Observing"}
  BY RegisterType
<1>7. /\ a.phase = b.phase
      /\ a.phase # "Tracking" => a = b
  <2> HIDE DEF b
  <2>1. QED
    BY <1>4 DEF CpuCheck, SpikeStates
<1>8. ASSUME NEW x \in Nat
      PROVE  /\ Fresh(x).phase = "Observing" /\ Fresh(x).initial = x /\ IsFiniteSet(Fresh(x).samples)
             /\ \A k : Swung(Fresh(x), k)
  <2>1. /\ Fresh(x).phase = "Observing" /\ Fresh(x).initial = x /\ Fresh(x).samples = {}
        /\ ~Fresh(x).peaked /\ ~Fresh(x).oscillated
    BY DEF Fresh, NoState
  <2>2. QED
    BY <2>1, FS_EmptySet DEF Swung
<1>9. CASE g.phase = "none"
  <2>1. b.phase = "none"
    BY <1>5, <1>9
  <2>2. QED
    BY <1>3, <1>7, <2>1 DEF Remembered
<1>10. CASE g.phase = "Observing"
  <2>1. /\ Swung(g, h) /\ IsFiniteSet(g.samples)
        /\ (h.low # Unread /\ h.low <= g.initial) \/ g.initial = r.rss
    <3>1. CASE s.phase # "none"
      BY <1>6, <1>10, <3>1 DEF Remembered
    <3>2. CASE s.phase = "none"
      <4>1. g = Fresh(IF last = Unread THEN r.rss ELSE last)
        BY <1>10, <3>2 DEF Register, NoState
      <4>2. CASE last = Unread
        BY <1>1, <1>8, <4>1, <4>2
      <4>3. CASE last # Unread
        <5>1. last \in Nat /\ h.low # Unread /\ h.low <= last
          BY <1>1, <4>3 DEF Remembered
        <5>2. QED
          BY <1>8, <4>1, <4>3, <5>1
      <4>4. QED
        BY <4>2, <4>3
    <3>3. QED
      BY <3>1, <3>2
  <2>2. ~demoted
    BY <1>6, <1>10
  <2> HIDE DEF demoted, g
  <2>3. /\ Swung(m, n) /\ m.initial = g.initial /\ n.low # Unread /\ n.low <= g.initial
        /\ m \in SpikeStates /\ m.phase = "Observing"
    BY <1>6, <1>10, <2>1, <2>2, MeasuredSwings, MeasuredType
  <2> HIDE DEF m, n, b, a
  <2>4. b = IF Swings(m) THEN [m EXCEPT !.phase = "Tracking", !.idle = 0] ELSE m
    BY <1>5, <1>10, <2>3 DEF Phase
  <2>5. CASE Swings(m)
    <3>1. b.phase = "Tracking" /\ m.oscillated
      BY <2>3, <2>4, <2>5 DEF SpikeStates, Swings
    <3>2. n.fell
      BY <2>3, <3>1 DEF Swung
    <3>3. QED
      BY <1>3, <1>7, <3>1, <3>2 DEF Remembered, m, n, b, a, demoted
  <2>6. CASE ~Swings(m)
    <3>1. b = m /\ a = m
      BY <1>7, <2>3, <2>4, <2>6
    <3>2. Remembered(a, r.rss, n) /\ a.phase # "Tracking"
      BY <1>3, <2>3, <3>1 DEF Remembered
    <3>3. QED
      BY <3>2 DEF m, n, b, a, demoted
  <2>7. QED
    BY <2>5, <2>6
<1>11. CASE g.phase = "Tracking"
  <2>1. g = s /\ s.phase = "Tracking"
    BY <1>6, <1>11
  <2>2. m \in SpikeStates /\ m.phase = "Tracking"
    BY <1>6, <1>11, MeasuredType
  <2>3. CASE b.phase = "Tracking"
    BY <1>3, <1>7, <2>1, <2>3 DEF Remembered
  <2>4. CASE b.phase # "Tracking"
    <3>1. b = Fresh(r.rss)
      <4> HIDE DEF m
      <4>1. b = Phase(m, r, Growth(t, p, r))
        BY <1>5, <1>11
      <4> HIDE DEF b
      <4>2. QED
        BY <2>2, <2>4, <4>1 DEF Phase, SpikeStates
    <3>2. a = Fresh(r.rss)
      BY <1>7, <2>4, <3>1
    <3> HIDE DEF a, b, n
    <3>3. Remembered(a, r.rss, n) /\ a.phase # "Tracking"
      BY <1>1, <1>3, <1>8, <3>2 DEF Remembered
    <3>4. QED
      BY <3>3 DEF a, b, n
  <2>5. QED
    BY <2>3, <2>4
<1>12. QED
  BY <1>6, <1>9, <1>10, <1>11 DEF SpikeStates

\* What the tracker remembers of a live process was read of that process.
Recalled ==
    \A p \in live : Remembered(tracker.spikes[PidOf[p]], tracker.prev[PidOf[p]], seen[p])

\* A cycle keeps it so for each process, and acts for none that has not swung.
LEMMA CycleSwings ==
    ASSUME TypeOK, Unique, FiniteSamples(tracker), Recalled, NEW gap \in Gaps,
           NEW available, NEW read, NEW order, NEW k,
           CycleParts(gap, available, read, order, k), NEW p \in live
    PROVE  /\ Remembered(tracker'.spikes[PidOf[p]], tracker'.prev[PidOf[p]], seen'[p])
           /\ PidOf[p] \in Tracking(tracker') \ Tracking(tracker) => seen'[p].fell
<1> DEFINE u == After(gap, read)
           i == PidOf[p]
           s == tracker.spikes[i]
           last == tracker.prev[i]
           o == OlderSamples(s, gap)
           h == seen[p]
           k2 == seen'[p]
           r == read[p]
<1>1. CycleTurns(gap, read, u, FirstOf(order, k))
  BY DEF CycleParts
<1>2. /\ p \in Procs /\ i \in Pids /\ r \in Readings /\ h \in Histories /\ s \in SpikeStates
      /\ k2 = Seen(p, r, gap, u)
  BY <1>1, PidType DEF CycleTurns, Turned, TypeOK, Trackers
<1>3. /\ u \in Trackers /\ tracker'.spikes = u.spikes /\ tracker'.prev = u.prev
      /\ Tracking(tracker') = Tracking(u)
  <2>1. /\ u \in Trackers /\ tracker'.spikes = u.spikes /\ Tracking(tracker') = Tracking(u)
    BY <1>1, CycleTracker
  <2>2. tracker'.prev = u.prev
    BY <1>1, <2>1 DEF CycleTurns, Trackers
  <2>3. QED
    BY <2>1, <2>2
<1>4. Remembered(s, last, h)
  BY DEF Recalled
<1>5. o.phase = s.phase /\ Remembered(o, last, h)
  <2>1. o.phase = s.phase
    BY <1>2, OlderSamplesType
  <2>2. s.phase = "Observing" => o.initial = s.initial /\ Swung(o, h)
    BY <1>2, <1>4, OlderSwings DEF Remembered
  <2> HIDE DEF o, s, last, h
  <2>3. QED
    BY <1>4, <2>1, <2>2 DEF Remembered
<1>6. o.phase # "none" => IsFiniteSet(o.samples)
  <2>1. s.phase # "none" => IsFiniteSet(s.samples)
    BY <1>2 DEF FiniteSamples
  <2>2. QED
    BY <1>2, <1>5, <2>1, OlderFinite
<1>7. i \in Demoted(tracker, u) <=> s.phase = "Tracking" /\ u.spikes[i].phase = "Observing"
  BY <1>2 DEF Demoted, Tracking
<1>8. /\ i \in Tracking(u) <=> u.spikes[i].phase = "Tracking"
      /\ i \in Tracking(tracker) <=> s.phase = "Tracking"
  BY <1>2 DEF Tracking
<1>9. ASSUME NEW a, NEW l, NEW m, NEW n, Remembered(a, l, m),
             n.low = m.low, n.rise = m.rise, n.fell = m.fell
      PROVE  Remembered(a, l, n)
  BY <1>9 DEF Remembered, Swung
<1>10. CASE cfg.on
  <2>1. PICK t \in Trackers : /\ t.spikes[i] = o /\ t.prev[i] = last
                              /\ u.spikes[i] = CpuCheck(Advance(t, p, r), p, r)
    BY <1>10, StateAfter
  <2>2. u.prev[i] = r.rss
    BY <1>10, StateAfter
  <2> DEFINE demoted == s.phase = "Tracking" /\ u.spikes[i].phase = "Observing"
             n == Swing(IF demoted THEN Unseen ELSE h, r)
  <2>3. k2.low = n.low /\ k2.rise = n.rise /\ k2.fell = n.fell
    <3>1. demoted <=> i \in Demoted(tracker, u)
      BY <1>7
    <3>2. n = Swing(IF i \in Demoted(tracker, u) THEN Unseen ELSE seen[p], r)
      BY <3>1
    <3> HIDE DEF n, k2, u, demoted
    <3>3. /\ Seen(p, r, gap, u).low = n.low /\ Seen(p, r, gap, u).rise = n.rise
          /\ Seen(p, r, gap, u).fell = n.fell
      BY <1>2, <1>10, <3>2, SeenSwing DEF TypeOK
    <3>4. QED
      BY <1>2, <3>3
  <2> HIDE DEF o, h, last, r
  <2>4. /\ Remembered(u.spikes[i], r.rss, n)
        /\ s.phase # "Tracking" /\ u.spikes[i].phase = "Tracking" => n.fell
    BY <1>2, <1>5, <1>6, <2>1, AdvanceSwings
  <2> HIDE DEF n, u, s, k2
  <2>5. Remembered(u.spikes[i], u.prev[i], k2)
    BY <1>9, <2>2, <2>3, <2>4
  <2>6. QED
    BY <1>3, <1>8, <2>3, <2>4, <2>5 DEF k2
<1>11. CASE ~cfg.on
  <2>1. u.spikes[i] = o /\ u.prev[i] = last
    BY <1>11, StateAfter
  <2>2. k2.low = h.low /\ k2.rise = h.rise /\ k2.fell = h.fell
    <3> HIDE DEF u
    <3>1. QED
      BY <1>2, <1>11, SeenSwing DEF TypeOK
  <2> HIDE DEF u, s, k2, o, h, last
  <2>3. Remembered(u.spikes[i], u.prev[i], k2)
    BY <1>5, <1>9, <2>1, <2>2
  <2>4. QED
    BY <1>3, <1>5, <1>8, <2>1, <2>3 DEF k2
<1>12. QED
  BY <1>10, <1>11

\* Recalled is an invariant while no pid is taken again before a cycle missed its owner.
LEMMA RecalledInvariant ==
    ASSUME ~QuickReuse
    PROVE  Spec => []Recalled
<1>1. Init => Recalled
  <2> SUFFICES ASSUME Init, NEW p \in live
               PROVE  Remembered(tracker.spikes[PidOf[p]], tracker.prev[PidOf[p]], seen[p])
    BY DEF Recalled
  <2>1. PidOf[p] \in Pids
    BY PidType, ProcsAssumption DEF Init
  <2>2. tracker.spikes[PidOf[p]].phase = "none" /\ tracker.prev[PidOf[p]] = Unread
    BY <2>1 DEF Init, NoState
  <2>3. QED
    BY <2>2 DEF Remembered
<1>2. TypeOK /\ Unique /\ FiniteSamples(tracker) /\ Recalled /\ [Next]_vars => Recalled'
  <2> SUFFICES ASSUME TypeOK, Unique, FiniteSamples(tracker), Recalled, [Next]_vars
               PROVE  Recalled'
    OBVIOUS
  <2>1. CASE Cycle
    <3>1. PICK gap \in Gaps, available \in Avails : \E read, order, k :
              CycleParts(gap, available, read, order, k)
      BY <2>1, CycleHasParts
    <3>2. PICK read, order, k : CycleParts(gap, available, read, order, k)
      BY <3>1
    <3>3. live' = live
      BY <3>2 DEF CycleParts, CycleTurns
    <3>4. \A p \in live :
             Remembered(tracker'.spikes[PidOf[p]], tracker'.prev[PidOf[p]], seen'[p])
      BY <3>2, CycleSwings
    <3>5. QED
      BY <3>3, <3>4 DEF Recalled
  <2>2. ASSUME NEW p \in Procs, Start(p)
        PROVE  Recalled'
    <3>1. /\ tracker' = tracker /\ seen' = seen /\ live' = live \cup {p}
          /\ PidOf[p] \notin SpikePids(tracker) /\ tracker.prev[PidOf[p]] = Unread
      BY <2>2 DEF Start, Known
    <3>2. tracker.spikes[PidOf[p]].phase = "none"
      BY <3>1, PidType DEF SpikePids
    <3>3. Remembered(tracker.spikes[PidOf[p]], tracker.prev[PidOf[p]], seen[p])
      BY <3>1, <3>2 DEF Remembered
    <3>4. QED
      BY <3>1, <3>3 DEF Recalled
  <2>3. ASSUME NEW p \in Procs, Exit(p)
        PROVE  Recalled'
    <3>1. /\ tracker' = tracker /\ live' = live \ {p}
          /\ \A q \in live' : seen'[q] = seen[q]
      BY <2>3 DEF Exit, TypeOK
    <3>2. QED
      BY <3>1 DEF Recalled
  <2>4. CASE UNCHANGED <<live, tracker, seen>>
    BY <2>4 DEF Recalled
  <2>5. QED
    BY <2>1, <2>2, <2>3, <2>4 DEF Next, Request, Focus, Reload, vars
<1>3. QED
  BY <1>1, <1>2, TypeInvariant, FiniteInvariant, PTL DEF Spec

\* A process is acted for as a spike only if it grew past the threshold and then lost a
\* part of its peak, both since it was demoted last, unless a new process took its pid
\* between two cycles (spike_mode.rs:251-276).
THEOREM SpikesHaveSwung ==
    ASSUME ~QuickReuse
    PROVE  Spec => TrackingSwings
<1>1. TypeOK /\ Unique /\ FiniteSamples(tracker) /\ Recalled /\ [Next]_vars =>
        [\A p \in live :
            PidOf[p] \in Tracking(tracker)' \ Tracking(tracker) => seen'[p].fell]_vars
  <2> SUFFICES ASSUME TypeOK, Unique, FiniteSamples(tracker), Recalled, Next, NEW p \in live,
                      PidOf[p] \in Tracking(tracker') \ Tracking(tracker)
               PROVE  seen'[p].fell
    OBVIOUS
  <2>1. CASE Cycle
    <3>1. PICK gap \in Gaps, available \in Avails : \E read, order, k :
              CycleParts(gap, available, read, order, k)
      BY <2>1, CycleHasParts
    <3>2. PICK read, order, k : CycleParts(gap, available, read, order, k)
      BY <3>1
    <3>3. QED
      BY <3>2, CycleSwings
  <2>2. CASE Aside
    BY <2>2, AsideKeeps
  <2>3. QED
    BY <2>1, <2>2, NextIs
<1>2. QED
  BY <1>1, TypeInvariant, FiniteInvariant, RecalledInvariant, PTL DEF Spec, TrackingSwings
=============================================================================
