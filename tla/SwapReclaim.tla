----------------------------- MODULE SwapReclaim -----------------------------
(***************************************************************************)
(* The reclaim of swap: maintenance decides when, and a privileged helper  *)
(* switches each zram device off, which brings its pages back into RAM,    *)
(* and on again.  The helper trusts no one: it measures the headroom       *)
(* itself.  Maintenance waits for it.                                      *)
(*                                                                         *)
(* Sizes are in units of RAM; what the compressed pages give back is left  *)
(* out.  Age is counted in passes of maintenance.                          *)
(***************************************************************************)
EXTENDS Integers, FiniteSets, FiniteSetsExt

CONSTANTS
    Devices, NoDevice, \* zram swap devices
    MinUsed,      \* both thresholds on the use of swap
    Headroom,     \* reclaim_headroom_mult, in tenths
    Cooldown,     \* reclaim_cooldown_secs
    KillCooldown, \* KILL_RECLAIM_COOLDOWN_SECS
    MaxData,      \* bound: pages in a device
    MaxAvail,     \* bound: available memory
    MaxErrors,    \* bound: system calls that fail, and signals
    Drift         \* memory is used after the helper has measured it

DevicesAssumption == IsFiniteSet(Devices) /\ NoDevice \notin Devices
LimitsAssumption ==
    /\ {MinUsed, Headroom, Cooldown, KillCooldown, MaxData, MaxAvail, MaxErrors} \subseteq Nat
    /\ MinUsed > 0 /\ Headroom >= 10 /\ KillCooldown <= Cooldown /\ Drift \in BOOLEAN

VARIABLES
    kind,      \* the helper that is installed: capped, uncapped or absent
    on, data,  \* of each device: it is swapped on, and what it holds
    avail,     \* MemAvailable
    age,       \* passes since LAST_RECLAIM
    disabled,  \* RECLAIM_DISABLED
    at,        \* where the helper is: gone, start, next or on
    cur, todo, \* the device in hand, and those left
    tries,     \* swapons of cur that failed
    bad,       \* kinds of errors met: eperm, transient
    signal,    \* a signal is pending
    refused,   \* history: devices that four swapons could not bring back
    errors

daemon  == <<age, disabled>>
memory  == <<on, data, avail>>
process == <<at, cur, todo, tries, bad, signal>>
vars    == <<kind, memory, daemon, process, refused, errors>>

Listed == {d \in Devices : on[d]}
Held(S) == MapThenSumSet(LAMBDA d : data[d], S)

-----------------------------------------------------------------------------
(* The system.                                                             *)

\* What the environment may do to one device and to the memory.
Use(d, n, m) ==
    /\ at \in {"gone", "start"} \/ Drift
    /\ on[d]
    /\ data' = [data EXCEPT ![d] = n] /\ avail' = m
    /\ UNCHANGED <<kind, on, daemon, process, refused, errors>>

\* Someone ends the helper, or the session; the helper sees it when it does not block signals.
Interrupt ==
    /\ at # "gone" /\ ~signal /\ errors < MaxErrors
    /\ signal' = TRUE /\ errors' = errors + 1
    /\ UNCHANGED <<kind, memory, daemon, at, cur, todo, tries, bad, refused>>

-----------------------------------------------------------------------------
(* The daemon.                                                             *)

\* reclaim_gates_pass
GatesPass == Held(Listed) >= MinUsed /\ avail > (Held(Listed) * Headroom) \div 10

\* check_proactive_reclaim: after a kill the pressure does not count, and the cooldown is
\* shorter.
Pass(kill, calm) ==
    LET due == age + 1 >= IF kill THEN KillCooldown ELSE Cooldown
    IN /\ at = "gone"
       /\ age' = IF age < Cooldown THEN age + 1 ELSE age
       /\ IF disabled \/ ~(kill \/ calm) \/ ~due THEN UNCHANGED <<disabled, process>>
          ELSE IF kind = "absent" THEN disabled' = TRUE /\ UNCHANGED process
          ELSE /\ UNCHANGED <<disabled, cur, todo, tries, signal>>
               /\ IF GatesPass THEN at' = "start" /\ bad' = {} ELSE UNCHANGED <<at, bad>>
       /\ UNCHANGED <<kind, memory, refused, errors>>

\* The end of the helper.  Success puts LAST_RECLAIM to the time before it, an error nothing;
\* only an error of kind eperm is taken for lasting.
Return(code) ==
    /\ at' = "gone" /\ cur' = NoDevice /\ todo' = {} /\ tries' = 0 /\ bad' = {} /\ signal' = FALSE
    /\ age' \in IF code = "ok" THEN 0..Cooldown ELSE {age}
    /\ disabled' = (disabled \/ code = "eperm")

-----------------------------------------------------------------------------
(* The helper.                                                             *)

\* headroom_safe
Safe == avail > Held(Listed)

\* With nothing listed there is nothing to do, which is a success.
List ==
    /\ at = "start" /\ ~signal
    /\ IF Listed = {} THEN Return("ok")
       ELSE \/ Safe /\ at' = "next" /\ todo' = Listed
               /\ UNCHANGED <<daemon, cur, tries, bad, signal>>
            \/ ~Safe /\ Return("refused")
    /\ UNCHANGED <<kind, memory, refused, errors>>

\* Between two devices signals are let in.
Killed ==
    /\ at \in {"start", "next"} /\ signal
    /\ Return("signal")
    /\ UNCHANGED <<kind, memory, refused, errors>>

\* swapoff of the next device; one that fails leaves it on.
Off(d) ==
    /\ at = "next" /\ ~signal /\ d \in todo
    /\ todo' = todo \ {d}
    /\ \/ /\ kind = "capped" /\ data[d] <= avail
          /\ on' = [on EXCEPT ![d] = FALSE]
          /\ data' = [data EXCEPT ![d] = 0] /\ avail' = avail - data[d]
          /\ at' = "on" /\ cur' = d /\ tries' = 0
          /\ UNCHANGED <<bad, errors>>
       \/ /\ kind = "capped" /\ errors < MaxErrors
          /\ bad' = bad \cup {"transient"} /\ errors' = errors + 1
          /\ UNCHANGED <<memory, at, cur, tries>>
       \/ /\ kind = "capped" /\ data[d] > avail
          /\ bad' = bad \cup {"transient"}
          /\ UNCHANGED <<memory, at, cur, tries, errors>>
       \/ /\ kind = "uncapped"
          /\ bad' = bad \cup {"eperm"}
          /\ UNCHANGED <<memory, at, cur, tries, errors>>
    /\ UNCHANGED <<kind, daemon, signal, refused>>

On ==
    /\ at = "on"
    /\ on' = [on EXCEPT ![cur] = TRUE]
    /\ at' = "next" /\ cur' = NoDevice
    /\ UNCHANGED <<kind, data, avail, daemon, todo, tries, bad, signal, refused, errors>>

\* Mutated form of OnFails: without retries.
OnFailsOnce ==
    /\ at = "on" /\ errors < MaxErrors
    /\ errors' = errors + 1
    /\ at' = "next" /\ cur' = NoDevice /\ bad' = bad \cup {"transient"}
    /\ UNCHANGED <<kind, memory, daemon, todo, tries, signal, refused>>

\* A swapon fails; after the fourth the device is left off.
OnFails ==
    /\ at = "on" /\ errors < MaxErrors
    /\ errors' = errors + 1
    /\ IF tries < 3
       THEN tries' = tries + 1 /\ UNCHANGED <<at, cur, bad, refused>>
       ELSE /\ at' = "next" /\ cur' = NoDevice /\ bad' = bad \cup {"transient"}
            /\ refused' = refused \cup {cur} /\ UNCHANGED tries
    /\ UNCHANGED <<kind, memory, daemon, todo, signal>>

Code == IF "eperm" \in bad THEN "eperm" ELSE IF bad # {} THEN "transient" ELSE "ok"

Done ==
    /\ at = "next" /\ ~signal /\ todo = {}
    /\ Return(Code)
    /\ UNCHANGED <<kind, memory, refused, errors>>

Helper == List \/ Killed \/ (\E d \in Devices : Off(d)) \/ On \/ OnFails \/ Done

Init ==
    /\ kind \in {"capped", "uncapped", "absent"}
    /\ on = [d \in Devices |-> TRUE] /\ data = [d \in Devices |-> 0] /\ avail = MaxAvail
    /\ age = Cooldown /\ disabled = FALSE
    /\ at = "gone" /\ cur = NoDevice /\ todo = {} /\ tries = 0 /\ bad = {} /\ signal = FALSE
    /\ refused = {} /\ errors = 0

Next ==
    \/ \E d \in Devices, n \in 0..MaxData, m \in 0..MaxAvail : Use(d, n, m)
    \/ Interrupt \/ Helper
    \/ \E kill, calm \in BOOLEAN : Pass(kill, calm)

Spec == Init /\ [][Next]_vars

\* Maintenance runs, and the helper to its end.
Fairness == WF_vars(Pass(FALSE, TRUE)) /\ WF_vars(Helper)

-----------------------------------------------------------------------------
TypeOK ==
    /\ kind \in {"capped", "uncapped", "absent"}
    /\ on \in [Devices -> BOOLEAN] /\ data \in [Devices -> 0..MaxData] /\ avail \in 0..MaxAvail
    /\ age \in 0..Cooldown /\ disabled \in BOOLEAN
    /\ at \in {"gone", "start", "next", "on"} /\ cur \in Devices \cup {NoDevice}
    /\ todo \subseteq Devices /\ tries \in 0..3 /\ bad \subseteq {"eperm", "transient"}
    /\ signal \in BOOLEAN /\ refused \subseteq Devices /\ errors \in 0..MaxErrors

\* No swap is lost: a device is off only while the helper is about to switch it on again,
\* or when four swapons failed; neither a signal nor an error of another device strands it
\* (reclaim.rs:111-151).
SwapKept == \A d \in Devices : on[d] \/ (at = "on" /\ cur = d) \/ d \in refused

\* The headroom that was there for all devices is there for each when its turn comes
\* (reclaim.rs:83-102).
Fits == at = "next" => Held(todo) < avail

\* Swap that can be reclaimed does not stay: an error that passes does not switch reclaim off
\* (maintenance.rs:362-375, reclaim.rs:67-73).
Drained == kind = "capped" => []<>~GatesPass
=============================================================================
