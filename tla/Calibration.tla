----------------------------- MODULE Calibration -----------------------------
(***************************************************************************)
(* The passive calibrator: the evictor and the maintenance thread feed it  *)
(* readings of the pressure, with the seconds they stand for; it keeps     *)
(* histograms of them on disk and proposes thresholds once it has enough.  *)
(*                                                                         *)
(* A reading is <<some_avg10, full_avg10>>, in percent.                    *)
(***************************************************************************)
EXTENDS Integers, FiniteSetsExt

CONSTANTS
    Readings, FirstReading,   \* of the kernel
    Weight,                   \* seconds that a reading of a thread stands for
    MinObserved, MinStallEvents, MinStallSecs,
    Current,                  \* the thresholds in use
    Torn, NoFlight,           \* a file that does not parse; no reading in flight
    MaxSecs, MaxEvents,       \* bounds on the seconds and the stalls observed, ...
    MaxLate                   \* ... and on late observations

Threads == {"evictor", "maintenance"}
Bins    == {r[1] : r \in Readings} \cup {r[2] : r \in Readings}

\* CalibratorState: seconds per bin of benign and of stalling readings.
Evidence == [benign : [Bins -> Nat], stall : [Bins -> Nat], full : [Bins -> Nat],
             observed : Nat, events : Nat]

ReadingsAssumption ==
    /\ Torn \notin Evidence
    /\ Readings \subseteq (0..99) \X (0..99) /\ IsFiniteSet(Readings) /\ FirstReading \in Readings
    /\ Weight \in [Threads -> Nat \ {0}]
LimitsAssumption ==
    /\ {MinObserved, MinStallEvents, MinStallSecs, MaxSecs, MaxEvents} \subseteq Nat \ {0}
    /\ MaxLate \in Nat

VARIABLES
    pressure,   \* the reading that the kernel would give
    treated,    \* processes are frozen or checkpointed
    flight,     \* per thread: a reading not yet observed, and was it taken of a treated system?
    evidence,   \* CalibratorState
    inStall,    \* in_stall
    dirty,
    pending,    \* what is being written, or Torn
    phase,      \* of the daemon
    file,       \* calibration_state.toml
    proposed,   \* calibration_suggestion.toml: a set of at most one suggestion
    episodes,   \* history: the stalls there were since the histograms began
    late,       \* history: observations after the stall they saw was over, or had begun
    kept,       \* history: seconds in the last file that was written whole and is not lost
    failed      \* history: the last write failed

disk == <<file, proposed>>
vars == <<pressure, treated, flight, evidence, inStall, dirty, pending, phase, disk,
          episodes, late, kept, failed>>

-----------------------------------------------------------------------------
(* Proposals.                                                              *)

Least(a, b)         == IF a < b THEN a ELSE b
Greatest(a, b)      == IF a > b THEN a ELSE b
Clamp(a, low, high) == Least(Greatest(a, low), high)

Total(hist) == LET At(b) == hist[b] IN MapThenSumSet(At, Bins)

\* percentile: the upper edge of the first bin where the sum reaches pct of the total.
Percentile(hist, pct, none) ==
    LET At(b)  == hist[b]
        UpTo(b) == MapThenSumSet(At, {c \in Bins : c <= b})
        target == (Total(hist) * pct + 99) \div 100
    IN IF Total(hist) = 0 THEN none
       ELSE 1 + CHOOSE b \in Bins :
                   UpTo(b) >= target /\ \A c \in Bins : c < b => UpTo(c) < target

Elevated(benign, onset) ==
    LET noise == Clamp(benign + 2, 2, 15)
    IN IF onset < noise THEN Greatest(onset, 2) ELSE noise

\* The upper tiers keep the default ratios to elevated_pct: 5, 10 and 14.
Suggested(benign, onset, full) ==
    LET elevated  == Elevated(benign, onset)
        emergency == Least(14 * elevated, 100)
        critical  == Least(10 * elevated, emergency - 1)
        high      == Least(5 * elevated, critical - 1)
    IN [elevated |-> elevated, high |-> high, critical |-> critical, emergency |-> emergency,
        fullCritical |-> Clamp(full, 5, 50)]

\* suggest, as a set: empty as long as there is too little evidence.
Suggestions(ev) ==
    IF ev.observed < MinObserved \/ ev.events < MinStallEvents \/ Total(ev.stall) < MinStallSecs
    THEN {}
    ELSE {Suggested(Percentile(ev.benign, 95, 0), Percentile(ev.stall, 10, 100),
                    Percentile(ev.full, 95, 20))}

\* PsiThresholds::valid
Valid(t) ==
    /\ 0 < t.elevated /\ t.elevated < t.high /\ t.high < t.critical
    /\ t.critical < t.emergency /\ t.emergency <= 100 /\ t.fullCritical > 0

-----------------------------------------------------------------------------
(* Evidence.                                                               *)

Stalling(r) == r[2] >= 1

NoSecs == [b \in Bins |-> 0]
Fresh  == [benign |-> NoSecs, stall |-> NoSecs, full |-> NoSecs, observed |-> 0, events |-> 0]

\* Mutated form of NewStall: every stalling reading is a stall.
NewStallAlways(r) == Stalling(r)

NewStall(r) == Stalling(r) /\ ~inStall

Counted(r, w) ==
    [evidence EXCEPT
        !.events = IF NewStall(r) THEN @ + 1 ELSE @,
        !.observed = @ + w,
        !.benign[r[1]] = IF Stalling(r) THEN @ ELSE @ + w,
        !.stall[r[1]] = IF Stalling(r) THEN @ + w ELSE @,
        !.full[r[2]] = IF Stalling(r) THEN @ + w ELSE @]

DirtyAfter(r) == TRUE

\* intervention_active
Excluded == treated

\* load_calibrator
Loaded(f) == IF f = Torn THEN Fresh ELSE f

-----------------------------------------------------------------------------
Init ==
    /\ pressure = FirstReading /\ treated = FALSE
    /\ flight = [t \in Threads |-> NoFlight]
    /\ evidence = Fresh /\ inStall = FALSE /\ dirty = FALSE /\ pending = Torn
    /\ phase = "running" /\ file = Torn /\ proposed = {}
    /\ episodes = IF Stalling(FirstReading) THEN 1 ELSE 0
    /\ late = 0 /\ kept = 0 /\ failed = FALSE

Idle == \A t \in Threads : flight[t] = NoFlight

\* The load of the machine changes.
Change(r) ==
    /\ pressure' = r
    /\ episodes' = IF Stalling(r) /\ ~Stalling(pressure) THEN episodes + 1 ELSE episodes
    /\ episodes' <= MaxEvents
    /\ UNCHANGED <<treated, flight, evidence, inStall, dirty, pending, phase, disk, late, kept,
                   failed>>

\* The first process is frozen or checkpointed, or the last is let go.
Treat ==
    /\ treated' = ~treated
    /\ UNCHANGED <<pressure, flight, evidence, inStall, dirty, pending, phase, disk,
                   episodes, late, kept, failed>>

\* read_pressure.  The maintenance thread leaves a reading that is not Normal alone.
Read(t) ==
    /\ phase = "running" /\ flight[t] = NoFlight
    /\ t = "maintenance" => pending = Torn /\ pressure[1] < Current.elevated
    /\ evidence.observed + Weight[t] <= MaxSecs
    /\ flight' = [flight EXCEPT ![t] = [reading |-> pressure, treated |-> treated]]
    /\ UNCHANGED <<pressure, treated, evidence, inStall, dirty, pending, phase, disk,
                   episodes, late, kept, failed>>

\* observe.  Between, the maintenance thread samples the processes and may run the helper
\* that empties the swap.
Observe(t) ==
    /\ flight[t] # NoFlight
    /\ LET r == flight[t].reading
       IN /\ evidence' = IF Excluded THEN evidence ELSE Counted(r, Weight[t])
          /\ dirty' = IF Excluded THEN dirty ELSE DirtyAfter(r)
          /\ inStall' = Stalling(r)
          /\ late' = IF Stalling(r) = Stalling(pressure) THEN late ELSE late + 1
    /\ late' <= MaxLate
    /\ flight' = [flight EXCEPT ![t] = NoFlight]
    /\ UNCHANGED <<pressure, treated, pending, phase, disk, episodes, kept, failed>>

\* flush_calibration, by the maintenance thread or by main at the end: serialises, ...
FlushTake ==
    /\ phase \in {"running", "flushing"} /\ pending = Torn /\ flight["maintenance"] = NoFlight
    /\ dirty
    /\ pending' = evidence /\ dirty' = FALSE
    /\ UNCHANGED <<pressure, treated, flight, evidence, inStall, phase, disk,
                   episodes, late, kept, failed>>

Written == IF phase = "flushing" THEN "exited" ELSE phase

\* ... writes the file, and the suggestion of that evidence.
FlushWrite ==
    /\ pending # Torn
    /\ file' = pending /\ kept' = pending.observed /\ failed' = FALSE
    /\ proposed' = IF Suggestions(pending) = {} THEN proposed ELSE Suggestions(pending)
    /\ pending' = Torn /\ phase' = Written
    /\ UNCHANGED <<pressure, treated, flight, evidence, inStall, dirty, episodes, late>>

\* A write fails before or after it has emptied the file; nobody tries it again.
FlushFail ==
    /\ pending # Torn
    /\ file' \in {file, Torn}
    /\ failed' = TRUE /\ pending' = Torn /\ phase' = Written
    /\ UNCHANGED <<pressure, treated, flight, evidence, inStall, dirty, proposed,
                   episodes, late, kept>>

\* main has joined the threads; it flushes once more.
Stop ==
    /\ phase = "running" /\ Idle /\ pending = Torn
    /\ phase' = IF dirty THEN "flushing" ELSE "exited"
    /\ UNCHANGED <<pressure, treated, flight, evidence, inStall, dirty, pending, disk,
                   episodes, late, kept, failed>>

Crash ==
    /\ phase # "exited"
    /\ phase' = "exited" /\ failed' = TRUE
    /\ file' = file \/ (pending # Torn /\ file' = Torn)
    /\ flight' = [t \in Threads |-> NoFlight] /\ pending' = Torn
    /\ UNCHANGED <<pressure, treated, evidence, inStall, dirty, proposed, episodes, late, kept>>

\* A stall that is going on counts again.
Start ==
    /\ phase = "exited"
    /\ phase' = "running" /\ treated' = FALSE /\ failed' = FALSE
    /\ evidence' = Loaded(file) /\ inStall' = FALSE /\ dirty' = FALSE
    /\ episodes' = IF Stalling(pressure) THEN episodes + 1 ELSE episodes
    /\ episodes' <= MaxEvents
    /\ kept' = IF file = Torn THEN 0 ELSE kept
    /\ UNCHANGED <<pressure, flight, pending, disk, late>>

Next ==
    \/ \E r \in Readings : Change(r)
    \/ \E t \in Threads : Read(t) \/ Observe(t)
    \/ Treat \/ FlushTake \/ FlushWrite \/ FlushFail \/ Stop \/ Crash \/ Start

Spec == Init /\ [][Next]_vars

-----------------------------------------------------------------------------
\* Types of the variables.
TypeOK ==
    /\ pressure \in Readings /\ {treated, inStall, dirty, failed} \subseteq BOOLEAN
    /\ flight \in [Threads -> [reading : Readings, treated : BOOLEAN] \cup {NoFlight}]
    /\ \A ev \in {evidence, file, pending} \ {Torn} :
          /\ ev \in Evidence
          /\ ev.observed = Total(ev.benign) + Total(ev.stall) /\ Total(ev.full) = Total(ev.stall)
    /\ evidence # Torn
    /\ phase \in {"running", "flushing", "exited"} /\ episodes \in 0..MaxEvents
    /\ late \in 0..MaxLate /\ kept \in Nat

\* A stall counts once, however many readings of however many threads see it.  What is
\* counted beyond the stalls there were is owed to readings that were observed when the
\* stall had ended, or had begun, in between; one such reading adds at most one
\* (calibrate.rs:108-116).
StallsCountedOnce == evidence.events <= episodes + late

\* Evidence that was written whole comes back with the daemon and is never written over by
\* less of it; it is lost only by a write that left a torn file when the daemon ended
\* (maintenance.rs:138-168).
EvidenceKept ==
    [][/\ phase = "exited" /\ phase' = "running" /\ file # Torn => evidence'.observed >= kept
       /\ kept' < kept => phase = "exited" /\ file = Torn]_vars

\* Not so of this code: a reading taken while processes were held is no evidence, even if
\* they are let go before it is observed (calibrate.rs:6-8).
OnlyUntreated ==
    [][\A t \in Threads :
          flight[t] # NoFlight /\ flight'[t] = NoFlight
              /\ evidence'.observed > evidence.observed
          => ~flight[t].treated]_vars

\* A daemon that stops in order leaves nothing behind, unless its last write failed
\* (main.rs:83, maintenance.rs:153-168).
SavedAtExit == phase = "exited" /\ ~failed => (evidence = Fresh \/ file = evidence)

\* What it proposes is in order by itself, and the two values that it does not comment out
\* are in order with the tiers in use (calibrate.rs:170-184, 228-237).
SuggestionUsable ==
    \A s \in proposed :
        /\ Valid(s)
        /\ Valid([Current EXCEPT !.elevated = s.elevated, !.fullCritical = s.fullCritical])
=============================================================================
