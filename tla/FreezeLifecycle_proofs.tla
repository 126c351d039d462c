----------------------- MODULE FreezeLifecycle_proofs -----------------------
(* Theorems about FreezeLifecycle, for every number of processes, threads, *)
(* pid reuses and unfreezes per cycle.                                     *)
EXTENDS FreezeLifecycle, TLAPS

(***************************************************************************)
(* Type correctness.  A thread that is about to signal or to take the lock *)
(* names a process: the induction needs it for every update of a function  *)
(* over Pids.                                                              *)
(***************************************************************************)
LocalsOK ==
    /\ ev.pc \in {"cont", "drop", "signal", "record", "undo"} => ev.pid \in Pids
    /\ \A t \in Threads : conn[t].pc # "idle" => conn[t].pid \in Pids

TypeInv == TypeOK /\ LocalsOK

USE PidsAssumption, BoundsAssumption, ThreadsAssumption, SwitchesAssumption

\* The generation that stands for no process.
LEMMA ZeroGen == 0 \in Gens
BY DEF Gens

\* Moving to the next pass keeps the evictor's record well formed.
LEMMA PassOverType ==
    ASSUME TypeInv
    PROVE  /\ PassOver \in EvStates
           /\ PassOver.pc \in {"top", "pass"}
           /\ PassOver.todo = ev.todo /\ PassOver.rel = ev.rel
           /\ PassOver.seen = ev.seen
<1>1. NextPass(ev.path, ev.pass) \in PassNames \cup {"none"}
  BY DEF TypeInv, TypeOK, NextPass, PassNames
<1>2. QED
  BY <1>1, ZeroGen DEF TypeInv, TypeOK, EvStates, PassOver

\* Entries removed from the registry leave well-typed functions.
LEMMA RemoveType ==
    ASSUME TypeInv, NEW S, RegistryRemove(S)
    PROVE  frozen' \in [Pids -> Gens] /\ aged' \in [Pids -> BOOLEAN]
BY DEF TypeInv, TypeOK, RegistryRemove, Gens

\* An added entry keeps the types of the registry.
LEMMA AddType ==
    ASSUME TypeInv, NEW p \in Pids, RegistryAdd(p)
    PROVE  frozen' \in [Pids -> Gens] /\ aged' \in [Pids -> BOOLEAN]
BY DEF TypeInv, TypeOK, RegistryAdd, reg

\* Draining moves records from the tracker to the list of releases.
LEMMA DrainType ==
    ASSUME TypeInv, NEW S, NEW manual \in SUBSET Pids, Drain(S, manual)
    PROVE  /\ victims' \in [Pids -> Gens]
           /\ ev' \in EvStates /\ ev'.pc = "release"
<1> DEFINE rel == [p \in Pids |-> IF p \in S THEN victims[p] ELSE 0]
<1>1. rel \in [Pids -> Gens] /\ victims' \in [Pids -> Gens]
  BY ZeroGen DEF TypeInv, TypeOK, Drain
<1>2. ev' = [ev EXCEPT !.pc = "release", !.manual = manual, !.rel = rel]
  BY DEF Drain
<1> HIDE DEF rel
<1>3. QED
  BY <1>1, <1>2 DEF TypeInv, TypeOK, EvStates

\* A loop over a set of candidates starts.
LEMMA LoopType ==
    ASSUME TypeInv, NEW S \in SUBSET Pids, ev' = [ev EXCEPT !.pc = "loop", !.todo = S]
    PROVE  ev' \in EvStates /\ ev'.pc = "loop"
BY DEF TypeInv, TypeOK, EvStates

\* Back to the loop after one candidate.
LEMMA BackType ==
    ASSUME TypeInv, ev' = [ev EXCEPT !.pc = "loop", !.pid = NoPid, !.st = 0]
    PROVE  ev' \in EvStates /\ ev'.pc = "loop"
BY ZeroGen DEF TypeInv, TypeOK, EvStates

\* The types hold at the start.
LEMMA InitType == Init => TypeInv
<1> SUFFICES ASSUME Init PROVE TypeInv
  OBVIOUS
<1>1. None \in [Pids -> Gens]
  BY DEF None, Gens
<1>2. EvInit \in EvStates /\ EvInit.pc = "top"
  BY <1>1 DEF EvInit, EvStates, Paths, PassNames, Gens
<1>3. ConnInit \in [Threads -> ConnStates] /\ \A t \in Threads : ConnInit[t].pc = "idle"
  BY DEF ConnInit, ConnStates, Gens
<1>4. born \in [Pids -> Gens]
  BY DEF Init, Gens
<1>5. LocalsOK
  BY <1>2, <1>3 DEF Init, LocalsOK
<1>6. QED
  BY <1>1, <1>2, <1>3, <1>4, <1>5 DEF Init, TypeInv, TypeOK

\* The evictor's own steps keep the type invariant.
LEMMA EvictorType ==
    ASSUME TypeInv, Evictor
    PROVE  TypeInv'
<1> USE DEF TypeInv, TypeOK
<1>1. CASE \E path \in Paths : EvTop(path)
  <2>1. PICK path \in Paths : EvTop(path)
    BY <1>1
  <2>2. FirstPass(path) \in PassNames
    BY DEF FirstPass, PassNames
  <2>3. ev' \in EvStates /\ LocalsOK'
    BY <2>1, <2>2 DEF LocalsOK, EvTop, EvStates
  <2>4. QED
    BY <2>1, <2>3 DEF EvTop, procs, reg, spikes
<1>2. CASE EvShutdown
  <2>1. ev' \in EvStates
    BY <1>2 DEF EvShutdown, EvStates
  <2>2. LocalsOK'
    BY <1>2 DEF LocalsOK, EvShutdown, EvStates
  <2>3. QED
    BY <1>2, <2>1, <2>2 DEF EvShutdown, At, reg, spikes
<1>3. CASE EvFocus
  <2>1. ev' \in EvStates
    BY <1>3, PassOverType DEF EvFocus, EvStates, Registered
  <2>2. LocalsOK'
    BY <1>3, PassOverType DEF LocalsOK, EvFocus, EvStates, Registered
  <2>3. QED
    BY <1>3, <2>1, <2>2 DEF EvFocus, procs, reg, spikes
<1>4. CASE EvFocusCont
  <2>1. ev' \in EvStates
    BY <1>4 DEF EvFocusCont, EvStates, At
  <2>2. LocalsOK'
    BY <1>4 DEF LocalsOK, EvFocusCont, EvStates, At
  <2>3. QED
    BY <1>4, <2>1, <2>2 DEF EvFocusCont, At, Unfreeze, reg, spikes
<1>5. CASE EvFocusDrop
  <2>1. ev' \in EvStates
    BY <1>5, PassOverType DEF EvFocusDrop, EvStates
  <2>2. LocalsOK'
    BY <1>5, PassOverType DEF LocalsOK, EvFocusDrop, EvStates
  <2>3. QED
    BY <1>5, <2>1, <2>2, RemoveType DEF EvFocusDrop, LocalsOK, procs, spikes
<1>6. CASE EvExited
  <2>1. PICK t \in BOOLEAN : Drain(IF t THEN {} ELSE Victims, requests) /\ tracking' = t
    BY <1>6 DEF EvExited
  <2>2. requests \in SUBSET Pids
    BY DEF EvStates
  <2>3. victims' \in [Pids -> Gens] /\ ev' \in EvStates /\ ev'.pc = "release"
    BY <2>1, <2>2, DrainType
  <2>4. QED
    BY <1>6, <2>1, <2>3 DEF EvExited, LocalsOK, procs, reg
<1>7. CASE EvTimedOut
  <2>1. PICK S \in SUBSET Victims : Drain(S, ev.manual)
    BY <1>7 DEF EvTimedOut
  <2>2. ev.manual \in SUBSET Pids
    BY DEF EvStates
  <2>3. victims' \in [Pids -> Gens] /\ ev' \in EvStates /\ ev'.pc = "release"
    BY <2>1, <2>2, DrainType
  <2>4. QED
    BY <1>7, <2>1, <2>3 DEF EvTimedOut, LocalsOK, procs, reg
<1>8. CASE EvRequested
  <2>1. Drain(ev.manual \cap Victims, {})
    BY <1>8 DEF EvRequested
  <2>2. {} \in SUBSET Pids
    BY DEF EvStates
  <2>3. victims' \in [Pids -> Gens] /\ ev' \in EvStates /\ ev'.pc = "release"
    BY <2>1, <2>2, DrainType
  <2>4. QED
    BY <1>8, <2>1, <2>3 DEF EvRequested, LocalsOK, procs, reg
<1>9. CASE EvUpdate
  <2>1. PICK t \in BOOLEAN :
          /\ tracking' = t
          /\ IF t
             THEN /\ \E S \in SUBSET (Candidates \ {active}) :
                        ev' = [ev EXCEPT !.pc = "loop", !.todo = S]
                  /\ UNCHANGED victims
             ELSE Drain(IF tracking THEN Victims ELSE {}, {})
    BY <1>9 DEF EvUpdate
  <2>2. victims' \in [Pids -> Gens] /\ ev' \in EvStates /\ ev'.pc \in {"loop", "release"}
    <3>1. CASE t
      <4>1. PICK S \in SUBSET (Candidates \ {active}) :
              ev' = [ev EXCEPT !.pc = "loop", !.todo = S]
        BY <2>1, <3>1
      <4>2. S \in SUBSET Pids
        BY DEF Candidates
      <4>3. QED
        BY <2>1, <3>1, <4>1, <4>2, LoopType
    <3>2. CASE ~t
      BY <2>1, <3>2, DrainType
    <3>3. QED
      BY <3>1, <3>2
  <2>3. QED
    BY <1>9, <2>1, <2>2 DEF EvUpdate, LocalsOK, procs, reg
<1>10. CASE EvIdle
  <2>1. PICK S \in SUBSET Pids : ev' = [ev EXCEPT !.pc = "loop", !.todo = S]
    BY <1>10 DEF EvIdle, Candidates
  <2>2. QED
    BY <1>10, <2>1, LoopType DEF EvIdle, LocalsOK, procs, reg, spikes
<1>11. CASE EvPlan
  <2>1. ev' \in EvStates /\ ev'.pc \in {"top", "pass", "loop"}
    <3>1. CASE ev' = PassOver
      BY <3>1, PassOverType
    <3>2. CASE \E S \in SUBSET Candidates : ev' = [ev EXCEPT !.pc = "loop", !.todo = S]
      BY <3>2, LoopType DEF Candidates
    <3>3. QED
      BY <1>11, <3>1, <3>2 DEF EvPlan
  <2>2. QED
    BY <1>11, <2>1 DEF EvPlan, LocalsOK, procs, reg, spikes
<1>12. CASE \E p \in Pids : EvPick(p)
  <2>1. PICK p \in Pids : EvPick(p)
    BY <1>12
  <2>2. StartTime(p) \in Gens
    BY ZeroGen DEF StartTime
  <2>3. ev' \in EvStates /\ LocalsOK'
    BY <2>1, <2>2 DEF EvPick, EvStates, LocalsOK
  <2>4. QED
    BY <2>1, <2>3 DEF EvPick, procs, reg, spikes
<1>13. CASE \E p \in Pids : EvRelease(p)
  <2>1. ev' \in EvStates
    BY <1>13 DEF EvRelease, EvStates, At, Gens
  <2>2. LocalsOK'
    BY <1>13 DEF LocalsOK, EvRelease, EvStates, At, Gens
  <2>3. QED
    BY <1>13, <2>1, <2>2 DEF EvRelease, At, Unfreeze, reg, spikes
<1>14. CASE EvSignal
  <2>1. ev' \in EvStates /\ LocalsOK'
    <3>1. CASE ev' = [ev EXCEPT !.pc = "record"]
      BY <1>14, <3>1 DEF EvSignal, At, EvStates, LocalsOK
    <3>2. CASE ev' = [ev EXCEPT !.pc = "loop", !.pid = NoPid, !.st = 0]
      BY <1>14, <3>2, BackType DEF EvSignal, LocalsOK
    <3>3. QED
      BY <1>14, <3>1, <3>2 DEF EvSignal
  <2>2. QED
    BY <1>14, <2>1 DEF EvSignal, reg, spikes
<1>15. CASE EvRecord
  <2>1. ev' \in EvStates /\ LocalsOK'
    <3>1. CASE ev' = [ev EXCEPT !.pc = "undo"]
      BY <1>15, <3>1 DEF EvRecord, At, EvStates, LocalsOK
    <3>2. CASE ev' = [ev EXCEPT !.pc = "loop", !.pid = NoPid, !.st = 0]
      BY <1>15, <3>2, BackType DEF EvRecord, LocalsOK
    <3>3. QED
      BY <1>15, <3>1, <3>2 DEF EvRecord
  <2>2. ev.pid \in Pids /\ ev.st \in Gens
    BY <1>15 DEF EvRecord, At, LocalsOK, EvStates
  <2>3. /\ frozen' \in [Pids -> Gens] /\ aged' \in [Pids -> BOOLEAN]
        /\ victims' \in [Pids -> Gens]
    BY <1>15, <2>2, AddType DEF EvRecord, reg
  <2>4. QED
    BY <1>15, <2>1, <2>3 DEF EvRecord, procs
<1>16. CASE EvDone
  <2>1. ev' \in EvStates
    BY <1>16, PassOverType DEF EvDone, EvStates
  <2>2. LocalsOK'
    BY <1>16, PassOverType DEF LocalsOK, EvDone, EvStates
  <2>3. QED
    BY <1>16, <2>1, <2>2 DEF EvDone, Victims, procs, reg
<1>17. CASE EvUndo
  <2>1. ev' \in EvStates /\ LocalsOK'
    BY <1>17, BackType DEF EvUndo, LocalsOK
  <2>2. QED
    BY <1>17, <2>1 DEF EvUndo, reg, spikes
<1>18. QED
  BY <1>1, <1>2, <1>3, <1>4, <1>5, <1>6, <1>7, <1>8, <1>9, <1>10, <1>11, <1>12,
     <1>13, <1>14, <1>15, <1>16, <1>17 DEF Evictor

\* A thread moves to a program counter that names the process it works on.
LEMMA ThreadToType ==
    ASSUME TypeInv, NEW t \in Threads, NEW p \in Pids, NEW st \in Gens,
           NEW pc \in {"idle", "signal", "add", "cont", "drop"},
           ThreadTo(t, pc, p, st), UNCHANGED ev
    PROVE  conn' \in [Threads -> ConnStates] /\ LocalsOK'
BY DEF TypeInv, TypeOK, LocalsOK, ThreadTo, ConnStates

\* The end of a thread keeps the types.
LEMMA ThreadDoneType ==
    ASSUME TypeInv, NEW t \in Threads, ThreadDone(t), UNCHANGED ev
    PROVE  conn' \in [Threads -> ConnStates] /\ LocalsOK'
BY ZeroGen DEF TypeInv, TypeOK, LocalsOK, ThreadDone, ThreadTo, ConnStates

\* The steps of connection threads and ActiveWindow threads.
LEMMA ThreadsType ==
    ASSUME TypeInv, Commands \/ \E t \in Threads : ThreadStep(t)
    PROVE  TypeInv'
<1> USE DEF TypeInv, TypeOK
<1>1. CASE \E t \in Freezers, p \in Pids : FreezeCheck(t, p)
  <2>1. PICK t \in Freezers, p \in Pids : FreezeCheck(t, p)
    BY <1>1
  <2>2. conn' \in [Threads -> ConnStates] /\ LocalsOK'
    BY <2>1, ThreadToType, ZeroGen DEF FreezeCheck, Threads
  <2>3. QED
    BY <2>1, <2>2 DEF FreezeCheck, procs, reg, spikes
<1>2. CASE \E t \in Unfreezers, p \in Pids : UnfreezeRead(t, p)
  <2>1. PICK t \in Unfreezers, p \in Pids : UnfreezeRead(t, p)
    BY <1>2
  <2>2. conn' \in [Threads -> ConnStates] /\ LocalsOK'
    BY <2>1, ThreadToType DEF UnfreezeRead, Threads
  <2>3. QED
    BY <2>1, <2>2 DEF UnfreezeRead, procs, reg, spikes
<1>3. CASE \E p \in Pids : RequestRelease(p)
  BY <1>3 DEF RequestRelease, LocalsOK, procs, reg
<1>4. CASE \E p \in Pids \cup {NoPid} : ActiveWindow(p)
  <2>1. PICK p \in Pids \cup {NoPid} : ActiveWindow(p)
    BY <1>4
  <2>2. conn' \in [Threads -> ConnStates] /\ LocalsOK'
    <3>1. CASE p \in Registered
      <4>1. PICK t \in Focusers : ThreadTo(t, "cont", p, frozen[p])
        BY <2>1, <3>1 DEF ActiveWindow
      <4>2. p \in Pids /\ t \in Threads
        BY <3>1 DEF Registered, Threads
      <4>3. QED
        BY <2>1, <4>1, <4>2, ThreadToType DEF ActiveWindow
    <3>2. CASE p \notin Registered
      BY <2>1, <3>2 DEF ActiveWindow, LocalsOK
    <3>3. QED
      BY <3>1, <3>2
  <2>3. QED
    BY <2>1, <2>2 DEF ActiveWindow, procs, reg, spikes
<1>5. CASE \E t \in Threads : ThreadStep(t)
  <2>1. PICK t \in Threads : ThreadStep(t)
    BY <1>5
  <2>2. conn[t] \in ConnStates /\ conn[t].st \in Gens
    BY DEF ConnStates
  <2>3. CASE FreezeSignal(t)
    <3>1. conn[t].pid \in Pids
      BY <2>3 DEF FreezeSignal, ThreadAt, LocalsOK
    <3>2. conn' \in [Threads -> ConnStates] /\ LocalsOK'
      BY <2>3, <3>1, ThreadToType, ThreadDoneType, ZeroGen DEF FreezeSignal
    <3>3. QED
      BY <2>3, <3>1, <3>2 DEF FreezeSignal, reg, spikes
  <2>4. CASE FreezeAdd(t)
    <3>1. conn[t].pid \in Pids
      BY <2>4 DEF FreezeAdd, ThreadAt, LocalsOK
    <3>2. conn' \in [Threads -> ConnStates] /\ LocalsOK'
      BY <2>4, ThreadDoneType DEF FreezeAdd
    <3>3. QED
      BY <2>4, <3>1, <3>2, AddType DEF FreezeAdd, procs, spikes
  <2>5. CASE UnfreezeCont(t)
    <3>1. conn[t].pid \in Pids
      BY <2>5 DEF UnfreezeCont, ThreadAt, LocalsOK
    <3>2. conn' \in [Threads -> ConnStates] /\ LocalsOK'
      BY <2>2, <2>5, <3>1, ThreadToType DEF UnfreezeCont
    <3>3. QED
      BY <2>5, <3>1, <3>2 DEF UnfreezeCont, Unfreeze, reg, spikes
  <2>6. CASE UnfreezeDrop(t)
    <3>1. conn' \in [Threads -> ConnStates] /\ LocalsOK'
      BY <2>6, ThreadDoneType DEF UnfreezeDrop
    <3>2. QED
      BY <2>6, <3>1, RemoveType DEF UnfreezeDrop, procs, spikes
  <2>7. QED
    BY <2>1, <2>3, <2>4, <2>5, <2>6 DEF ThreadStep
<1>6. QED
  BY <1>1, <1>2, <1>3, <1>4, <1>5 DEF Commands

\* The steps of the recovery manager.
LEMMA RecoveryType ==
    ASSUME TypeInv, Recovery
    PROVE  TypeInv'
<1> USE DEF TypeInv, TypeOK, LocalsOK
<1>1. CASE RecCheck
  BY <1>1 DEF RecCheck, procs, reg, spikes
<1>2. CASE RecWake
  BY <1>2 DEF RecWake, procs, reg, spikes
<1>3. CASE RecSkip
  BY <1>3 DEF RecSkip, procs, reg, spikes
<1>4. CASE RecRelease
  <2>1. PICK S \in SUBSET Due :
          /\ stopped' = [p \in Pids |-> stopped[p] /\ (p \in S => StartTime(p) # frozen[p])]
          /\ RegistryRemove(S)
    BY <1>4 DEF RecRelease
  <2>2. stopped' \in [Pids -> BOOLEAN]
    BY <2>1
  <2>3. QED
    BY <1>4, <2>1, <2>2, RemoveType DEF RecRelease, spikes
<1>5. QED
  BY <1>1, <1>2, <1>3, <1>4 DEF Recovery

\* main, the processes themselves, and a crash or a restart.
LEMMA MainType ==
    ASSUME TypeInv, Main
    PROVE  TypeInv'
<1> USE DEF TypeInv, TypeOK
<1>0. ConnInit \in [Threads -> ConnStates] /\ \A t \in Threads : ConnInit[t].pc = "idle"
  BY DEF ConnInit, ConnStates, Gens
<1>1. CASE SweepCollect
  BY <1>1 DEF SweepCollect, LocalsOK, procs, reg, spikes
<1>2. CASE Exit
  BY <1>0, <1>2 DEF Exit, LocalsOK, procs, reg, spikes
<1>3. CASE Started
  BY <1>3 DEF Started, LocalsOK, procs, reg, spikes
<1>4. CASE \E p \in Pids : SweepOne(p)
  BY <1>4, ZeroGen DEF SweepOne, Unfreeze, LocalsOK, reg, spikes
<1>5. QED
  BY <1>1, <1>2, <1>3, <1>4 DEF Main

\* The steps of kernel, clients, shutdown and startup.
LEMMA EnvironmentType ==
    ASSUME TypeInv, Environment
    PROVE  TypeInv'
<1> USE DEF TypeInv, TypeOK
<1>0. /\ ConnInit \in [Threads -> ConnStates]
      /\ \A t \in Threads : ConnInit[t].pc = "idle"
      /\ None \in [Pids -> Gens]
      /\ EvInit \in EvStates /\ EvInit.pc = "top"
  BY DEF ConnInit, ConnStates, EvInit, EvStates, None, Gens, Paths, PassNames
<1>1. CASE \E p \in Pids : Die(p)
  BY <1>1 DEF Die, LocalsOK, reg, spikes
<1>2. CASE \E p \in Pids : Spawn(p)
  BY <1>2 DEF Spawn, Gens, LocalsOK, reg, spikes
<1>3. CASE \E p \in Pids : Age(p)
  BY <1>3 DEF Age, LocalsOK, procs, spikes
<1>4. CASE SigTerm
  BY <1>4 DEF SigTerm, LocalsOK, procs, reg, spikes
<1>5. CASE Crash
  <2>1. /\ frozen' \in [Pids -> Gens] /\ aged' \in [Pids -> BOOLEAN]
        /\ victims' \in [Pids -> Gens]
    BY <1>0, <1>5, RemoveType DEF Crash, reg
  <2>2. LocalsOK'
    BY <1>0, <1>5 DEF Crash, LocalsOK
  <2>3. QED
    BY <1>0, <1>5, <2>1, <2>2 DEF Crash, procs
<1>6. CASE Start
  <2>1. LocalsOK'
    BY <1>0, <1>6 DEF Start, LocalsOK
  <2>2. QED
    BY <1>0, <1>6, <2>1 DEF Start, procs, reg
<1>7. QED
  BY <1>1, <1>2, <1>3, <1>4, <1>5, <1>6 DEF Environment

\* The stuttering step.
LEMMA StutterType ==
    ASSUME TypeInv, UNCHANGED vars
    PROVE  TypeInv'
BY DEF TypeInv, TypeOK, LocalsOK, vars

\* Every step of the program.
LEMMA TypeStep == TypeInv /\ [Next]_vars => TypeInv'
BY EvictorType, ThreadsType, RecoveryType, MainType, EnvironmentType, StutterType
   DEF Next

\* Every variable keeps its type, in every behaviour of the program: a thread
\* never signals, registers or removes something that is not a process.
THEOREM TypeCorrect == Spec => []TypeOK
<1>1. Init => TypeInv
  BY InitType
<1>2. TypeInv /\ [Next]_vars => TypeInv'
  BY TypeStep
<1>3. TypeInv => TypeOK
  BY DEF TypeInv
<1>4. QED
  BY <1>1, <1>2, <1>3, PTL DEF Spec

-----------------------------------------------------------------------------
(* Safety.  Each invariant part below is named for the reason why the      *)
(* program does not lose a stopped process; a theorem assumes away only    *)
(* the behaviour that really breaks it.                                    *)

\* Only a live process is stopped, and a start time is never 0.
StoppedLives == \A p \in Pids : born[p] # 0 /\ (stopped[p] => alive[p])

\* The evictor's freezing loops work on processes that are not victims, on
\* one after the other, and only on those whose start time they could read.
Picked ==
    /\ ev.pc \in {"loop", "signal", "record", "undo"} => ev.todo \cap Victims = {}
    /\ ev.pc \in {"signal", "record"} =>
           ev.st # 0 /\ ev.pid \notin Victims \cup ev.todo

\* Nobody is between reading a registry entry and removing it.
NobodyUnfreezes ==
    /\ active = NoPid
    /\ ev.pc \notin {"cont", "drop"}
    /\ \A t \in Threads : conn[t].pc \notin {"cont", "drop"}

\* The daemon has not been killed, and sweeps only while shutting down.
OneLife ==
    /\ daemon \in {"run", "stopping", "sweep", "exited"}
    /\ daemon \in {"run", "stopping"} => sweep = None

-----------------------------------------------------------------------------
\* Where each step of the evictor leads.
LEMMA EvictorGoesTo ==
    ASSUME TypeInv
    PROVE  /\ (\E path \in Paths : EvTop(path)) => ev'.pc = "pass"
           /\ EvShutdown => ev'.pc = "exit"
           /\ EvFocus => ev'.pc \in {"top", "pass", "cont"}
           /\ EvFocusCont => ev'.pc = "drop"
           /\ EvFocusDrop \/ EvDone => ev'.pc \in {"top", "pass"}
           /\ EvExited \/ EvTimedOut \/ EvRequested => ev'.pc = "release"
           /\ EvUpdate => ev'.pc \in {"loop", "release"}
           /\ EvIdle => ev'.pc = "loop"
           /\ EvPlan => ev'.pc \in {"top", "pass", "loop"}
           /\ (\E p \in Pids : EvPick(p)) => ev'.pc \in {"loop", "signal"}
           /\ (\E p \in Pids : EvRelease(p)) => ev'.pc = "release"
           /\ EvSignal => ev'.pc \in {"loop", "record"}
           /\ EvRecord => ev'.pc \in {"loop", "undo"}
           /\ EvUndo => ev'.pc = "loop"
<1>0. ev \in EvStates
  BY DEF TypeInv, TypeOK
<1>1. (\E path \in Paths : EvTop(path)) => ev'.pc = "pass"
  BY <1>0 DEF EvTop, EvStates
<1>2. (EvShutdown => ev'.pc = "exit") /\ (EvFocusCont => ev'.pc = "drop")
  BY <1>0 DEF EvShutdown, EvFocusCont, EvStates
<1>3. EvFocus => ev'.pc \in {"top", "pass", "cont"}
  BY <1>0, PassOverType DEF EvFocus, EvStates
<1>4. EvFocusDrop \/ EvDone => ev'.pc \in {"top", "pass"}
  BY PassOverType DEF EvFocusDrop, EvDone
<1>5. ASSUME NEW S, NEW manual, Drain(S, manual) PROVE ev'.pc = "release"
  BY <1>0, <1>5 DEF Drain, EvStates
<1>6. EvExited \/ EvTimedOut \/ EvRequested => ev'.pc = "release"
  BY <1>5 DEF EvExited, EvTimedOut, EvRequested
<1>7. ASSUME NEW S, ev' = [ev EXCEPT !.pc = "loop", !.todo = S] PROVE ev'.pc = "loop"
  BY <1>0, <1>7 DEF EvStates
<1>8. (EvUpdate => ev'.pc \in {"loop", "release"}) /\ (EvIdle => ev'.pc = "loop")
  BY <1>5, <1>7 DEF EvUpdate, EvIdle
<1>9. EvPlan => ev'.pc \in {"top", "pass", "loop"}
  BY <1>7, PassOverType DEF EvPlan
<1>10. (\E p \in Pids : EvPick(p)) => ev'.pc \in {"loop", "signal"}
  BY <1>0 DEF EvPick, At, EvStates
<1>11. (\E p \in Pids : EvRelease(p)) => ev'.pc = "release"
  BY <1>0 DEF EvRelease, At, EvStates
<1>12. EvSignal => ev'.pc \in {"loop", "record"}
  BY <1>0 DEF EvSignal, EvStates
<1>13. (EvRecord => ev'.pc \in {"loop", "undo"}) /\ (EvUndo => ev'.pc = "loop")
  BY <1>0 DEF EvRecord, EvUndo, EvStates
<1>14. QED
  BY <1>1, <1>2, <1>3, <1>4, <1>6, <1>8, <1>9, <1>10, <1>11, <1>12, <1>13

-----------------------------------------------------------------------------
\* StoppedLives holds at the start.
LEMMA StoppedLivesInit == Init => StoppedLives
BY DEF Init, StoppedLives

\* No step breaks StoppedLives.
LEMMA StoppedLivesStep ==
    ASSUME TypeInv, Picked, StoppedLives, [Next]_vars
    PROVE  StoppedLives'
<1> USE DEF TypeInv, TypeOK, StoppedLives
<1>1. CASE Evictor
  <2>1. CASE EvSignal
    <3>1. ev.pid \in Pids
      BY <2>1 DEF EvSignal, At, LocalsOK
    <3>2. ev.st # 0
      BY <2>1 DEF EvSignal, At, Picked
    <3>3. QED
      BY <2>1, <3>1, <3>2 DEF EvSignal, StartTime
  <2>2. CASE EvShutdown
    BY <2>2 DEF EvShutdown
  <2>3. CASE EvFocusCont \/ \E p \in Pids : EvRelease(p)
    BY <2>3 DEF EvFocusCont, EvRelease, Unfreeze
  <2>4. CASE ~EvSignal /\ ~EvShutdown /\ ~EvFocusCont /\ ~\E p \in Pids : EvRelease(p)
    BY <1>1, <2>4 DEF Evictor, EvTop, EvFocus, EvFocusDrop, EvExited, EvTimedOut,
       EvRequested, EvUpdate, EvIdle, EvPlan, EvPick, EvRecord, EvUndo, EvDone, procs
  <2>5. QED
    BY <2>1, <2>2, <2>3, <2>4
<1>2. CASE Recovery
  BY <1>2 DEF Recovery, RecCheck, RecWake, RecSkip, RecRelease, procs
<1>3. CASE Commands
  BY <1>3 DEF Commands, FreezeCheck, UnfreezeRead, RequestRelease, ActiveWindow, procs
<1>4. CASE \E t \in Threads : ThreadStep(t)
  <2>1. PICK t \in Threads : ThreadStep(t)
    BY <1>4
  <2>2. CASE FreezeSignal(t)
    BY <2>2 DEF FreezeSignal
  <2>3. CASE FreezeAdd(t) \/ UnfreezeDrop(t)
    BY <2>3 DEF FreezeAdd, UnfreezeDrop, procs
  <2>4. CASE UnfreezeCont(t)
    BY <2>4 DEF UnfreezeCont, Unfreeze
  <2>5. QED
    BY <2>1, <2>2, <2>3, <2>4 DEF ThreadStep
<1>5. CASE Main
  BY <1>5 DEF Main, SweepCollect, Exit, Started, SweepOne, Unfreeze, procs
<1>6. CASE Environment
  BY <1>6 DEF Environment, Die, Spawn, Age, SigTerm, Crash, Start, Gens, procs
<1>7. CASE UNCHANGED vars
  BY <1>7 DEF vars
<1>8. QED
  BY <1>1, <1>2, <1>3, <1>4, <1>5, <1>6, <1>7 DEF Next
-----------------------------------------------------------------------------
\* A loop over candidates starts with none of the victims.
LEMMA CandidatesLoop ==
    ASSUME TypeInv, NEW S \in SUBSET Candidates,
           ev' = [ev EXCEPT !.pc = "loop", !.todo = S], UNCHANGED victims
    PROVE  Picked'
<1>1. Victims' = Victims /\ S \cap Victims = {}
  BY DEF Candidates, Victims
<1>2. ev'.pc = "loop" /\ ev'.todo = S
  BY DEF TypeInv, TypeOK, EvStates
<1>3. QED
  BY <1>1, <1>2 DEF Picked

\* No step breaks Picked.
LEMMA PickedStep ==
    ASSUME TypeInv, Picked, [Next]_vars
    PROVE  Picked'
<1> USE DEF TypeInv, TypeOK, Picked
<1>1. CASE Evictor
  <2>1. CASE \E path \in Paths : EvTop(path)
    BY <2>1 DEF EvTop, EvStates
  <2>2. CASE EvShutdown \/ EvFocusCont
    BY <2>2 DEF EvShutdown, EvFocusCont, EvStates
  <2>3. CASE EvFocus \/ EvFocusDrop \/ EvDone
    <3>1. ev'.pc \in {"top", "pass", "cont"}
      BY <2>3, EvictorGoesTo
    <3>2. QED
      BY <3>1
  <2>4. CASE EvExited \/ EvTimedOut \/ EvRequested
    BY <2>4, EvictorGoesTo
  <2>5. CASE EvUpdate
    <3>1. CASE \E S \in SUBSET (Candidates \ {active}) :
                 ev' = [ev EXCEPT !.pc = "loop", !.todo = S] /\ UNCHANGED victims
      BY <3>1, CandidatesLoop
    <3>2. CASE Drain(IF tracking THEN Victims ELSE {}, {})
      BY <3>2 DEF Drain, EvStates
    <3>3. QED
      BY <2>5, <3>1, <3>2 DEF EvUpdate
  <2>6. CASE EvIdle \/ EvPlan
    <3>1. CASE \E S \in SUBSET Candidates :
                 ev' = [ev EXCEPT !.pc = "loop", !.todo = S] /\ UNCHANGED victims
      BY <3>1, CandidatesLoop
    <3>2. CASE ev' = PassOver
      BY <3>2, PassOverType
    <3>3. QED
      BY <2>6, <3>1, <3>2 DEF EvIdle, EvPlan, spikes
  <2>7. CASE \E p \in Pids : EvPick(p)
    BY <2>7 DEF EvPick, At, EvStates, Victims, spikes
  <2>8. CASE \E p \in Pids : EvRelease(p)
    BY <2>8 DEF EvRelease, At, EvStates
  <2>9. CASE EvSignal
    <3>1. Victims' = Victims
      BY <2>9 DEF EvSignal, Victims, spikes
    <3>2. CASE ev' = [ev EXCEPT !.pc = "record"]
      BY <2>9, <3>1, <3>2 DEF EvSignal, At, EvStates
    <3>3. CASE ev' = [ev EXCEPT !.pc = "loop", !.pid = NoPid, !.st = 0]
      BY <2>9, <3>1, <3>3 DEF EvSignal, At, EvStates
    <3>4. QED
      BY <2>9, <3>2, <3>3 DEF EvSignal
  <2>10. CASE EvRecord
    <3>1. ev.pid \in Pids /\ Victims' \subseteq Victims \cup {ev.pid}
      BY <2>10 DEF EvRecord, At, LocalsOK, Victims
    <3>2. QED
      BY <2>10, <3>1 DEF EvRecord, At, EvStates
  <2>11. CASE EvUndo
    BY <2>11 DEF EvUndo, At, EvStates, Victims, spikes
  <2>12. QED
    BY <1>1, <2>1, <2>2, <2>3, <2>4, <2>5, <2>6, <2>7, <2>8, <2>9, <2>10, <2>11 DEF Evictor
<1>2. CASE Recovery
  BY <1>2 DEF Recovery, RecCheck, RecWake, RecSkip, RecRelease, Victims, spikes
<1>3. CASE Commands
  BY <1>3 DEF Commands, FreezeCheck, UnfreezeRead, RequestRelease, ActiveWindow, Victims, spikes
<1>4. CASE \E t \in Threads : ThreadStep(t)
  BY <1>4 DEF ThreadStep, FreezeSignal, FreezeAdd, UnfreezeCont, UnfreezeDrop, Victims, spikes
<1>5. CASE Main
  BY <1>5 DEF Main, SweepCollect, Exit, Started, SweepOne, Victims, spikes
<1>6. CASE Environment
  <2>1. CASE Crash \/ Start
    BY <2>1 DEF Crash, Start, EvInit
  <2>2. CASE ~Crash /\ ~Start
    BY <1>6, <2>2 DEF Environment, Die, Spawn, Age, SigTerm, Victims, spikes
  <2>3. QED
    BY <2>1, <2>2
<1>7. CASE UNCHANGED vars
  BY <1>7 DEF vars, Victims
<1>8. QED
  BY <1>1, <1>2, <1>3, <1>4, <1>5, <1>6, <1>7 DEF Next
-----------------------------------------------------------------------------
\* No step breaks NobodyUnfreezes.
LEMMA NobodyUnfreezesStep ==
    ASSUME Unfreezers = {}, Focusers = {}, TypeInv, NobodyUnfreezes, [Next]_vars
    PROVE  NobodyUnfreezes'
<1> USE DEF TypeInv, TypeOK, NobodyUnfreezes
<1>1. CASE Evictor
  <2>1. CASE EvFocus \/ EvDone
    <3>1. ev'.pc \in {"top", "pass"}
      BY <2>1, PassOverType DEF EvFocus, EvDone, EvStates, Registered
    <3>2. QED
      BY <2>1, <3>1 DEF EvFocus, EvDone
  <2>2. CASE EvExited \/ EvTimedOut \/ EvRequested \/ EvUpdate
    BY <2>2, EvictorGoesTo DEF EvExited, EvTimedOut, EvRequested, EvUpdate
  <2>3. CASE EvPlan
    <3>1. ev'.pc \in {"top", "pass", "loop"}
      BY <2>3, EvictorGoesTo
    <3>2. QED
      BY <2>3, <3>1 DEF EvPlan
  <2>4. CASE (\E path \in Paths : EvTop(path)) \/ EvShutdown \/ EvIdle
             \/ EvSignal \/ EvRecord \/ EvUndo
    BY <2>4, EvictorGoesTo DEF EvTop, EvShutdown, EvIdle, EvSignal, EvRecord, EvUndo
  <2>5. CASE \E p \in Pids : EvPick(p) \/ EvRelease(p)
    BY <2>5, EvictorGoesTo DEF EvPick, EvRelease
  <2>6. CASE EvFocusCont \/ EvFocusDrop
    BY <2>6 DEF EvFocusCont, EvFocusDrop, At
  <2>7. QED
    BY <1>1, <2>1, <2>2, <2>3, <2>4, <2>5, <2>6 DEF Evictor
<1>2. CASE Recovery
  BY <1>2 DEF Recovery, RecCheck, RecWake, RecSkip, RecRelease
<1>3. CASE Commands
  BY <1>3 DEF Commands, FreezeCheck, UnfreezeRead, RequestRelease, ActiveWindow,
     ThreadTo, ConnStates
<1>4. CASE \E t \in Threads : ThreadStep(t)
  BY <1>4 DEF ThreadStep, FreezeSignal, FreezeAdd, UnfreezeCont, UnfreezeDrop,
     ThreadTo, ThreadDone, ThreadAt, ConnStates
<1>5. CASE Main
  BY <1>5 DEF Main, SweepCollect, Exit, Started, SweepOne, ConnInit
<1>6. CASE Environment
  BY <1>6 DEF Environment, Die, Spawn, Age, SigTerm, Crash, Start, EvInit, ConnInit
<1>7. CASE UNCHANGED vars
  BY <1>7 DEF vars
<1>8. QED
  BY <1>1, <1>2, <1>3, <1>4, <1>5, <1>6, <1>7 DEF Next

\* No step breaks OneLife.
LEMMA OneLifeStep ==
    ASSUME MayCrash = FALSE, OneLife, [Next]_vars
    PROVE  OneLife'
<1> USE DEF OneLife
<1>1. CASE Evictor
  BY <1>1 DEF Evictor, EvTop, EvShutdown, EvFocus, EvFocusCont, EvFocusDrop,
     EvExited, EvTimedOut, EvRequested, EvUpdate, EvIdle, EvPlan, EvPick,
     EvRelease, EvSignal, EvRecord, EvUndo, EvDone
<1>2. CASE Recovery
  BY <1>2 DEF Recovery, RecCheck, RecWake, RecSkip, RecRelease
<1>3. CASE Commands
  BY <1>3 DEF Commands, FreezeCheck, UnfreezeRead, RequestRelease, ActiveWindow
<1>4. CASE \E t \in Threads : ThreadStep(t)
  BY <1>4 DEF ThreadStep, FreezeSignal, FreezeAdd, UnfreezeCont, UnfreezeDrop
<1>5. CASE Main
  BY <1>5 DEF Main, SweepCollect, Exit, Started, SweepOne, None
<1>6. CASE Environment
  BY <1>6 DEF Environment, Die, Spawn, Age, SigTerm, Crash, Start
<1>7. CASE UNCHANGED vars
  BY <1>7 DEF vars
<1>8. QED
  BY <1>1, <1>2, <1>3, <1>4, <1>5, <1>6, <1>7 DEF Next
-----------------------------------------------------------------------------
(***************************************************************************)
(* StoppedIsTracked: the record of a stopped process is handed from one    *)
(* holder to the next (evictor's locals, victims, registry, the sweep) and *)
(* is never dropped on the way.                                            *)
(***************************************************************************)

\* The evictor's steps, one process at a time.
LEMMA EvictorTracks ==
    ASSUME TypeInv, StoppedLives, Picked, NobodyUnfreezes, OneLife, Evictor,
           NEW p \in Pids, stopped[p] => Tracked(p), stopped'[p]
    PROVE  Tracked(p)'
<1> USE DEF TypeInv, TypeOK, Tracked
<1>1. CASE \E path \in Paths : EvTop(path)
  BY <1>1 DEF EvTop, At, EvStates, procs, reg, spikes
<1>2. CASE EvShutdown
  <2>1. stopped[p] /\ victims[p] # born[p]
    BY <1>2 DEF EvShutdown, StoppedLives, StartTime
  <2>2. QED
    BY <1>2, <2>1 DEF EvShutdown, At, reg, spikes
<1>3. CASE EvFocus \/ EvFocusCont \/ EvFocusDrop
  <2>1. EvFocus
    BY <1>3 DEF EvFocusCont, EvFocusDrop, At, NobodyUnfreezes
  <2>2. ev'.pc \in {"top", "pass", "cont"} /\ ev.pc = "pass"
    BY <2>1, PassOverType DEF EvFocus, In, EvStates
  <2>3. QED
    BY <2>1, <2>2 DEF EvFocus, procs, reg, spikes
<1>4. ASSUME NEW S, NEW manual, Drain(S, manual), ev.pc = "pass",
             UNCHANGED <<procs, reg, conn, sweep>>
      PROVE  Tracked(p)'
  <2>1. stopped[p]
    BY <1>4 DEF procs
  <2>2. ev'.pc = "release" /\ ev'.rel = [q \in Pids |-> IF q \in S THEN victims[q] ELSE 0]
    BY <1>4 DEF Drain, EvStates
  <2>3. victims[p] = born[p] => born[p] \in {victims'[p], ev'.rel[p]}
    BY <1>4, <2>2 DEF Drain
  <2>4. QED
    BY <1>4, <2>1, <2>2, <2>3 DEF procs, reg
<1>5. CASE EvExited \/ EvTimedOut \/ EvRequested
  BY <1>4, <1>5 DEF EvExited, EvTimedOut, EvRequested, In
<1>6. CASE EvUpdate
  <2>1. CASE \E S \in SUBSET (Candidates \ {active}) :
               ev' = [ev EXCEPT !.pc = "loop", !.todo = S] /\ UNCHANGED victims
    BY <1>6, <2>1 DEF EvUpdate, In, procs, reg
  <2>2. CASE Drain(IF tracking THEN Victims ELSE {}, {})
    BY <1>4, <1>6, <2>2 DEF EvUpdate, In
  <2>3. QED
    BY <1>6, <2>1, <2>2 DEF EvUpdate
<1>7. CASE EvIdle \/ EvPlan
  BY <1>7 DEF EvIdle, EvPlan, In, procs, reg, spikes
<1>8. CASE \E q \in Pids : EvPick(q)
  BY <1>8 DEF EvPick, At, procs, reg, spikes
<1>9. CASE \E q \in Pids : EvRelease(q)
  <2>1. PICK q \in Pids : EvRelease(q)
    BY <1>9
  <2>2. ev'.pc = ev.pc /\ ev'.rel = [ev.rel EXCEPT ![q] = 0]
    BY <2>1 DEF EvRelease, EvStates
  <2>3. stopped[p] /\ (p = q => ev.rel[p] # born[p])
    BY <2>1 DEF EvRelease, Unfreeze, StoppedLives, StartTime
  <2>4. ev.rel \in [Pids -> Gens] /\ ev.pc = "release"
    BY <2>1 DEF EvRelease, At, EvStates
  <2>5. QED
    BY <2>1, <2>2, <2>3, <2>4 DEF EvRelease, reg, spikes
<1>10. CASE EvSignal
  <2>1. CASE ev.pid = p /\ StartTime(p) = ev.st
    <3>1. ev'.pc = "record" /\ ev'.pid = p /\ ev'.st = ev.st
      BY <1>10, <2>1 DEF EvSignal, EvStates
    <3>2. ev.st = born[p] /\ born' = born
      BY <1>10, <2>1 DEF EvSignal, At, Picked, StartTime
    <3>3. QED
      BY <3>1, <3>2
  <2>2. CASE ~(ev.pid = p /\ StartTime(p) = ev.st)
    BY <1>10, <2>2 DEF EvSignal, At, reg, spikes
  <2>3. QED
    BY <2>1, <2>2
<1>11. CASE EvRecord
  <2>1. stopped[p] /\ alive[p] /\ ev.pc = "record" /\ ev.pid \in Pids
    BY <1>11 DEF EvRecord, At, LocalsOK, StoppedLives, procs
  <2>2. CASE ev.pid = p
    <3>1. CASE ev.pass = "update"
      BY <1>11, <2>1, <2>2, <3>1 DEF EvRecord, Picked, Victims, StoppedLives, procs, reg
    <3>2. CASE ev.pass # "update"
      BY <1>11, <2>1, <2>2, <3>2 DEF EvRecord, RegistryAdd, procs
    <3>3. QED
      BY <3>1, <3>2
  <2>3. CASE ev.pid # p
    BY <1>11, <2>1, <2>3 DEF EvRecord, RegistryAdd, procs, reg
  <2>4. QED
    BY <2>2, <2>3
<1>12. CASE EvDone
  <2>1. stopped[p] /\ ~(ev.pc = "release" /\ ev.rel[p] = born[p]) /\ ev.pc # "record"
    BY <1>12 DEF EvDone, At, None, StoppedLives, procs
  <2>2. QED
    BY <1>12, <2>1 DEF EvDone, procs, reg
<1>13. CASE EvUndo
  <2>1. stopped[p]
    BY <1>13 DEF EvUndo
  <2>2. QED
    BY <1>13, <2>1 DEF EvUndo, At, reg, spikes
<1>14. QED
  BY <1>1, <1>2, <1>3, <1>5, <1>6, <1>7, <1>8, <1>9, <1>10, <1>11, <1>12, <1>13
     DEF Evictor

\* The steps of everybody else, while no command unfreezes and nothing crashes.
LEMMA OthersTrack ==
    ASSUME TypeInv, StoppedLives, NobodyUnfreezes, OneLife, [Next]_vars, ~Evictor,
           MayCrash = FALSE, Focusers = {}, Unfreezers = {}, daemon' # "exited",
           NEW p \in Pids, stopped[p] => Tracked(p), stopped'[p]
    PROVE  Tracked(p)'
<1> USE DEF TypeInv, TypeOK, Tracked
<1>1. CASE Recovery
  <2>1. CASE RecRelease
    <3>1. PICK S \in SUBSET Due :
            /\ stopped' = [q \in Pids |-> stopped[q] /\ (q \in S => StartTime(q) # frozen[q])]
            /\ RegistryRemove(S)
      BY <2>1 DEF RecRelease
    <3>2. stopped[p] /\ (p \in S => frozen[p] # born[p])
      BY <3>1 DEF StoppedLives, StartTime
    <3>3. QED
      BY <2>1, <3>1, <3>2 DEF RecRelease, RegistryRemove, spikes
  <2>2. CASE RecCheck \/ RecWake \/ RecSkip
    BY <2>2 DEF RecCheck, RecWake, RecSkip, procs, reg, spikes
  <2>3. QED
    BY <1>1, <2>1, <2>2 DEF Recovery
<1>2. CASE \E t \in Freezers, q \in Pids : FreezeCheck(t, q)
  BY <1>2 DEF FreezeCheck, ThreadAt, ThreadTo, procs, reg, spikes
<1>3. CASE \E q \in Pids : RequestRelease(q)
  BY <1>3 DEF RequestRelease, procs, reg
<1>4. CASE \E t \in Threads : ThreadStep(t)
  <2>1. PICK t \in Threads : ThreadStep(t)
    BY <1>4
  <2>2. CASE FreezeSignal(t)
    <3>1. CASE conn[t].pid = p /\ alive[p]
      BY <2>2, <3>1 DEF FreezeSignal, ThreadTo
    <3>2. CASE ~(conn[t].pid = p /\ alive[p])
      <4>1. stopped[p]
        BY <2>2, <3>2 DEF FreezeSignal
      <4>2. ASSUME NEW u \in Threads, conn[u].pc = "add" PROVE conn'[u] = conn[u]
        BY <2>2, <4>2 DEF FreezeSignal, ThreadAt, ThreadTo, ThreadDone
      <4>3. QED
        BY <2>2, <4>1, <4>2 DEF FreezeSignal, reg, spikes
    <3>3. QED
      BY <3>1, <3>2
  <2>3. CASE FreezeAdd(t)
    <3>1. stopped[p] /\ alive[p] /\ conn[t].pid \in Pids
      BY <2>3 DEF FreezeAdd, ThreadAt, LocalsOK, StoppedLives, procs
    <3>2. CASE conn[t].pid = p
      BY <2>3, <3>1, <3>2 DEF FreezeAdd, RegistryAdd, procs
    <3>3. CASE conn[t].pid # p
      <4>1. ASSUME NEW u \in Threads, conn[u].pid = p PROVE conn'[u] = conn[u]
        BY <2>3, <3>3, <4>1 DEF FreezeAdd, ThreadTo, ThreadDone
      <4>2. frozen'[p] = frozen[p]
        BY <2>3, <3>1, <3>3 DEF FreezeAdd, RegistryAdd, reg
      <4>3. QED
        BY <2>3, <3>1, <4>1, <4>2 DEF FreezeAdd, procs, spikes
    <3>4. QED
      BY <3>2, <3>3
  <2>4. CASE UnfreezeCont(t) \/ UnfreezeDrop(t)
    BY <2>4 DEF UnfreezeCont, UnfreezeDrop, ThreadAt, NobodyUnfreezes
  <2>5. QED
    BY <2>1, <2>2, <2>3, <2>4 DEF ThreadStep
<1>5. CASE \E q \in Pids : SweepOne(q)
  <2>1. PICK q \in Pids : SweepOne(q)
    BY <1>5
  <2>2. stopped[p] /\ (p = q => sweep[p] # born[p])
    BY <2>1 DEF SweepOne, Unfreeze, StoppedLives, StartTime
  <2>3. QED
    BY <2>1, <2>2 DEF SweepOne, reg, spikes
<1>6. CASE SweepCollect \/ Started
  <2>1. SweepCollect /\ sweep[p] = 0
    BY <1>6 DEF Started, SweepCollect, OneLife, None
  <2>2. QED
    BY <2>1 DEF SweepCollect, StoppedLives, procs, reg, spikes
<1>7. CASE \E q \in Pids : Die(q) \/ Spawn(q) \/ Age(q)
  BY <1>7 DEF Die, Spawn, Age, StoppedLives, procs, reg, spikes
<1>8. CASE SigTerm
  BY <1>8 DEF SigTerm, procs, reg, spikes
<1>9. CASE UNCHANGED vars
  BY <1>9 DEF vars
<1>10. QED
  BY <1>1, <1>2, <1>3, <1>4, <1>5, <1>6, <1>7, <1>8, <1>9
     DEF Next, Commands, Main, Environment, UnfreezeRead, ActiveWindow, Exit, Crash, Start

\* The daemon never starts working again after it has exited.
LEMMA WorkingBefore ==
    ASSUME MayCrash = FALSE, OneLife, [Next]_vars, daemon' # "exited"
    PROVE  daemon # "exited"
<1>1. CASE Evictor
  BY <1>1 DEF Evictor, EvTop, EvShutdown, EvFocus, EvFocusCont, EvFocusDrop,
     EvExited, EvTimedOut, EvRequested, EvUpdate, EvIdle, EvPlan, EvPick,
     EvRelease, EvSignal, EvRecord, EvUndo, EvDone
<1>2. CASE Recovery
  BY <1>2 DEF Recovery, RecCheck, RecWake, RecSkip, RecRelease
<1>3. CASE Commands
  BY <1>3 DEF Commands, FreezeCheck, UnfreezeRead, RequestRelease, ActiveWindow
<1>4. CASE \E t \in Threads : ThreadStep(t)
  BY <1>4 DEF ThreadStep, FreezeSignal, FreezeAdd, UnfreezeCont, UnfreezeDrop
<1>5. CASE Main \/ Environment
  BY <1>5 DEF Main, SweepCollect, Exit, Started, SweepOne, Environment, Die, Spawn,
     Age, SigTerm, Crash, Start
<1>6. CASE UNCHANGED vars
  BY <1>6 DEF vars
<1>7. QED
  BY <1>1, <1>2, <1>3, <1>4, <1>5, <1>6 DEF Next

\* The invariants that hold whatever the constants are.
LEMMA Always == Spec => [](TypeInv /\ StoppedLives /\ Picked)
<1>1. Init => TypeInv /\ StoppedLives /\ Picked
  BY InitType, StoppedLivesInit DEF Init, EvInit, Picked
<1>2. TypeInv /\ StoppedLives /\ Picked /\ [Next]_vars
          => (TypeInv /\ StoppedLives /\ Picked)'
  BY TypeStep, StoppedLivesStep, PickedStep
<1>3. QED
  BY <1>1, <1>2, PTL DEF Spec

\* While nothing unfreezes in two steps and the daemon is not killed, a process
\* that is stopped stays known to a registry, a tracker or a thread, through
\* any number of freezes, exits and reuses of its pid: the freezing paths, the
\* release paths and recovery.rs lose nobody.
THEOREM StoppedStaysTracked ==
    ASSUME Unfreezers = {}, Focusers = {}, MayCrash = FALSE
    PROVE  Spec => []StoppedIsTracked
<1> DEFINE Inv == NobodyUnfreezes /\ OneLife /\ StoppedIsTracked
<1>1. Init => Inv
  BY DEF Init, EvInit, ConnInit, NobodyUnfreezes, OneLife, StoppedIsTracked
<1>2. TypeInv /\ StoppedLives /\ Picked /\ Inv /\ [Next]_vars => Inv'
  <2> SUFFICES ASSUME TypeInv, StoppedLives, Picked, NobodyUnfreezes, OneLife,
                      StoppedIsTracked, [Next]_vars
               PROVE  Inv'
    OBVIOUS
  <2>1. NobodyUnfreezes' /\ OneLife'
    BY NobodyUnfreezesStep, OneLifeStep
  <2>2. ASSUME daemon' \in {"run", "stopping", "sweep"}, NEW p \in Pids, stopped'[p]
        PROVE  Tracked(p)'
    <3>1. stopped[p] => Tracked(p)
      BY <2>2, WorkingBefore DEF OneLife, StoppedIsTracked
    <3>2. QED
      BY <2>2, <3>1, EvictorTracks, OthersTrack
  <2>3. StoppedIsTracked'
    BY <2>2 DEF StoppedIsTracked
  <2>4. QED
    BY <2>1, <2>3
<1>3. QED
  BY <1>1, <1>2, Always, PTL DEF Spec
-----------------------------------------------------------------------------
(***************************************************************************)
(* RegistryEntryOutlivesStop, NoDoubleHold.                                *)
(***************************************************************************)

\* The registry changes for a stopped process only by being written again.
LEMMA EntryStep ==
    ASSUME TypeInv, StoppedLives, NobodyUnfreezes, [Next]_vars,
           NEW p \in Pids, stopped[p], frozen[p] = born[p], frozen'[p] # frozen[p]
    PROVE  ~stopped'[p] \/ TornKill
<1> USE DEF TypeInv, TypeOK
<1>1. CASE Evictor
  <2>1. CASE EvRecord
    BY <2>1 DEF EvRecord, RegistryAdd, reg
  <2>2. CASE ~EvRecord
    BY <1>1, <2>2 DEF Evictor, EvTop, EvShutdown, EvFocus, EvFocusCont, EvFocusDrop,
       EvExited, EvTimedOut, EvRequested, EvUpdate, EvIdle, EvPlan, EvPick,
       EvRelease, EvSignal, EvUndo, EvDone, At, NobodyUnfreezes, reg
  <2>3. QED
    BY <2>1, <2>2
<1>2. CASE Recovery
  <2>1. CASE RecRelease
    BY <2>1 DEF RecRelease, RegistryRemove, StoppedLives, StartTime
  <2>2. CASE ~RecRelease
    BY <1>2, <2>2 DEF Recovery, RecCheck, RecWake, RecSkip, reg
  <2>3. QED
    BY <2>1, <2>2
<1>3. CASE Commands
  BY <1>3 DEF Commands, FreezeCheck, UnfreezeRead, RequestRelease, ActiveWindow, reg
<1>4. CASE \E t \in Threads : ThreadStep(t)
  <2>1. PICK t \in Threads : ThreadStep(t)
    BY <1>4
  <2>2. CASE FreezeAdd(t)
    BY <2>2 DEF FreezeAdd, RegistryAdd, reg
  <2>3. CASE ~FreezeAdd(t)
    BY <2>1, <2>3 DEF ThreadStep, FreezeSignal, UnfreezeCont, UnfreezeDrop,
       ThreadAt, NobodyUnfreezes, reg
  <2>4. QED
    BY <2>2, <2>3
<1>5. CASE Main \/ Environment
  BY <1>5 DEF Main, SweepCollect, Exit, Started, SweepOne, Environment, Die, Spawn,
     Age, SigTerm, Crash, Start, TornKill, reg
<1>6. CASE UNCHANGED vars
  BY <1>6 DEF vars
<1>7. QED
  BY <1>1, <1>2, <1>3, <1>4, <1>5, <1>6 DEF Next

\* Without unfreezing commands, an entry leaves the registry only together with the
\* SIGCONT of its process: recovery.rs removes what it signalled and nothing else,
\* and a daemon killed outside a save finds every entry again at startup.
THEOREM EntryOutlivesStop ==
    ASSUME Unfreezers = {}, Focusers = {}
    PROVE  Spec => RegistryEntryOutlivesStop
<1>1. Init => NobodyUnfreezes
  BY DEF Init, EvInit, ConnInit, NobodyUnfreezes
<1>2. TypeInv /\ NobodyUnfreezes /\ [Next]_vars => NobodyUnfreezes'
  BY NobodyUnfreezesStep
<1> DEFINE Kept == \A p \in Pids :
        stopped[p] /\ frozen[p] = born[p] /\ frozen'[p] # frozen[p]
            => ~stopped'[p] \/ TornKill
<1>3. TypeInv /\ StoppedLives /\ NobodyUnfreezes /\ [Next]_vars => [Kept]_vars
  BY EntryStep
<1>4. QED
  BY <1>1, <1>2, <1>3, Always, PTL DEF Spec, RegistryEntryOutlivesStop

\* A victim record goes to the evictor's list of releases, or to startup's.
LEMMA VictimStep ==
    ASSUME TypeInv, StoppedLives, Picked, [Next]_vars,
           NEW p \in Pids, stopped[p], victims[p] = born[p], victims'[p] = 0
    PROVE  TornKill \/ born[p] \in {ev'.rel[p], sweep'[p]}
<1> USE DEF TypeInv, TypeOK
<1>0. victims[p] # 0
  BY DEF StoppedLives
<1>1. ASSUME NEW S, NEW manual, Drain(S, manual) PROVE ev'.rel[p] = victims[p]
  <2>1. ev'.rel = [q \in Pids |-> IF q \in S THEN victims[q] ELSE 0]
    BY <1>1 DEF Drain, EvStates
  <2>2. p \in S
    BY <1>0, <1>1 DEF Drain
  <2>3. QED
    BY <2>1, <2>2
<1>2. CASE Evictor
  <2>1. CASE EvExited \/ EvTimedOut \/ EvRequested
    BY <1>1, <2>1 DEF EvExited, EvTimedOut, EvRequested
  <2>2. CASE EvUpdate
    BY <1>0, <1>1, <2>2 DEF EvUpdate
  <2>3. CASE EvRecord
    BY <1>0, <2>3 DEF EvRecord, At, Picked
  <2>4. CASE ~EvExited /\ ~EvTimedOut /\ ~EvRequested /\ ~EvUpdate /\ ~EvRecord
    BY <1>0, <1>2, <2>4 DEF Evictor, EvTop, EvShutdown, EvFocus, EvFocusCont,
       EvFocusDrop, EvIdle, EvPlan, EvPick, EvRelease, EvSignal, EvUndo, EvDone, spikes
  <2>5. QED
    BY <2>1, <2>2, <2>3, <2>4
<1>3. CASE Recovery
  BY <1>0, <1>3 DEF Recovery, RecCheck, RecWake, RecSkip, RecRelease, spikes
<1>4. CASE Commands
  BY <1>0, <1>4 DEF Commands, FreezeCheck, UnfreezeRead, RequestRelease, ActiveWindow, spikes
<1>5. CASE \E t \in Threads : ThreadStep(t)
  BY <1>0, <1>5 DEF ThreadStep, FreezeSignal, FreezeAdd, UnfreezeCont, UnfreezeDrop, spikes
<1>6. CASE Main \/ Environment
  <2>1. CASE Start
    BY <2>1 DEF Start
  <2>2. CASE ~Start
    BY <1>0, <1>6, <2>2 DEF Main, SweepCollect, Exit, Started, SweepOne, Environment,
       Die, Spawn, Age, SigTerm, Crash, TornKill, spikes
  <2>3. QED
    BY <2>1, <2>2
<1>7. CASE UNCHANGED vars
  BY <1>0, <1>7 DEF vars
<1>8. QED
  BY <1>2, <1>3, <1>4, <1>5, <1>6, <1>7 DEF Next

\* A victim record is dropped only by the thread that holds a copy of it and will
\* SIGCONT the process: spike_mode.rs returns what it drains, and startup reads the
\* file before it deletes it.
THEOREM VictimsHandedOver == Spec => VictimHandedOver
<1> DEFINE Handed == \A p \in Pids :
        stopped[p] /\ victims[p] = born[p] /\ victims'[p] = 0
            => \/ ~stopped'[p] \/ TornKill
               \/ born[p] \in {ev'.rel[p], sweep'[p]}
<1>1. TypeInv /\ StoppedLives /\ Picked /\ [Next]_vars => [Handed]_vars
  BY VictimStep
<1>2. QED
  BY <1>1, Always, PTL DEF Spec, VictimHandedOver

\* What a freezing loop still has to do is in neither registry nor tracker.
PickedFree ==
    /\ NoDoubleHold
    /\ ev.pc \in {"loop", "signal", "record", "undo"} =>
           ev.todo \cap (Victims \cup Registered) = {}
    /\ ev.pc \in {"signal", "record"} => ev.pid \notin Victims \cup Registered \cup ev.todo

\* No `mgctl freeze` is under way.
NobodyFreezes == \A t \in Threads : conn[t].pc \notin {"signal", "add"}

\* No step breaks NobodyFreezes.
LEMMA NobodyFreezesStep ==
    ASSUME Freezers = {}, TypeInv, NobodyFreezes, [Next]_vars
    PROVE  NobodyFreezes'
<1> USE DEF TypeInv, TypeOK, NobodyFreezes
<1>1. CASE Evictor
  BY <1>1 DEF Evictor, EvTop, EvShutdown, EvFocus, EvFocusCont, EvFocusDrop,
     EvExited, EvTimedOut, EvRequested, EvUpdate, EvIdle, EvPlan, EvPick,
     EvRelease, EvSignal, EvRecord, EvUndo, EvDone
<1>2. CASE Recovery
  BY <1>2 DEF Recovery, RecCheck, RecWake, RecSkip, RecRelease
<1>3. CASE Commands
  <2>1. CASE \E p \in Pids \cup {NoPid} : ActiveWindow(p)
    BY <2>1 DEF ActiveWindow, ThreadTo
  <2>2. CASE ~\E p \in Pids \cup {NoPid} : ActiveWindow(p)
    BY <1>3, <2>2 DEF Commands, FreezeCheck, UnfreezeRead, RequestRelease, ThreadTo
  <2>3. QED
    BY <2>1, <2>2
<1>4. CASE \E t \in Threads : ThreadStep(t)
  BY <1>4 DEF ThreadStep, FreezeSignal, FreezeAdd, UnfreezeCont, UnfreezeDrop,
     ThreadTo, ThreadDone, ThreadAt
<1>5. CASE Main
  BY <1>5 DEF Main, SweepCollect, Exit, Started, SweepOne, ConnInit
<1>6. CASE Environment
  BY <1>6 DEF Environment, Die, Spawn, Age, SigTerm, Crash, Start, ConnInit
<1>7. CASE UNCHANGED vars
  BY <1>7 DEF vars
<1>8. QED
  BY <1>1, <1>2, <1>3, <1>4, <1>5, <1>6, <1>7 DEF Next

\* A loop starts over candidates that nobody holds.
LEMMA FreeLoop ==
    ASSUME TypeInv, NoDoubleHold, NEW S \in SUBSET Candidates,
           ev' = [ev EXCEPT !.pc = "loop", !.todo = S], UNCHANGED <<victims, frozen>>
    PROVE  PickedFree'
<1>1. Victims' = Victims /\ Registered' = Registered /\ S \cap (Victims \cup Registered) = {}
  BY DEF Candidates, Victims, Registered
<1>2. ev'.pc = "loop" /\ ev'.todo = S
  BY DEF TypeInv, TypeOK, EvStates
<1>3. QED
  BY <1>1, <1>2 DEF PickedFree, NoDoubleHold

\* Steps that only shrink both sets, and steps outside the freezing loops.
LEMMA FreeShrinks ==
    ASSUME PickedFree, Victims' \subseteq Victims, Registered' \subseteq Registered,
           \/ ev'.pc \notin {"loop", "signal", "record", "undo"}
           \/ UNCHANGED <<ev>>
    PROVE  PickedFree'
BY DEF PickedFree, NoDoubleHold

\* No step breaks PickedFree.
LEMMA PickedFreeStep ==
    ASSUME TypeInv, NobodyFreezes, PickedFree, [Next]_vars
    PROVE  PickedFree'
<1> USE DEF TypeInv, TypeOK
<1>1. CASE Evictor
  <2>1. CASE (\E path \in Paths : EvTop(path)) \/ EvShutdown \/ EvFocus \/ EvFocusCont
    <3>1. ev'.pc \notin {"loop", "signal", "record", "undo"}
      BY <2>1, EvictorGoesTo
    <3>2. Victims' = Victims /\ Registered' = Registered
      BY <2>1 DEF EvTop, EvShutdown, EvFocus, EvFocusCont, Victims, Registered, reg, spikes
    <3>3. QED
      BY <3>1, <3>2, FreeShrinks
  <2>2. CASE EvFocusDrop
    <3>1. ev'.pc \notin {"loop", "signal", "record", "undo"}
      BY <2>2, EvictorGoesTo
    <3>2. Victims' = Victims /\ Registered' \subseteq Registered
      BY <2>2 DEF EvFocusDrop, RegistryRemove, Victims, Registered, spikes
    <3>3. QED
      BY <3>1, <3>2, FreeShrinks
  <2>3. ASSUME NEW S, NEW manual, Drain(S, manual), UNCHANGED reg
        PROVE  PickedFree'
    <3>1. ev'.pc = "release" /\ Victims' \subseteq Victims /\ Registered' = Registered
      BY <2>3 DEF Drain, EvStates, Victims, Registered, reg
    <3>2. QED
      BY <3>1, FreeShrinks
  <2>4. CASE EvExited \/ EvTimedOut \/ EvRequested
    BY <2>3, <2>4 DEF EvExited, EvTimedOut, EvRequested
  <2>5. CASE EvUpdate
    <3>1. CASE \E S \in SUBSET (Candidates \ {active}) :
                 ev' = [ev EXCEPT !.pc = "loop", !.todo = S] /\ UNCHANGED victims
      BY <2>5, <3>1, FreeLoop DEF EvUpdate, PickedFree, reg
    <3>2. CASE Drain(IF tracking THEN Victims ELSE {}, {})
      BY <2>3, <2>5, <3>2 DEF EvUpdate
    <3>3. QED
      BY <2>5, <3>1, <3>2 DEF EvUpdate
  <2>6. CASE EvIdle \/ EvPlan
    <3>1. CASE \E S \in SUBSET Candidates : ev' = [ev EXCEPT !.pc = "loop", !.todo = S]
      BY <2>6, <3>1, FreeLoop DEF EvIdle, EvPlan, PickedFree, reg, spikes
    <3>2. CASE ev' = PassOver
      BY <2>6, <3>2, PassOverType, FreeShrinks
         DEF EvIdle, EvPlan, Victims, Registered, reg, spikes
    <3>3. QED
      BY <2>6, <3>1, <3>2 DEF EvIdle, EvPlan
  <2>7. CASE \E p \in Pids : EvPick(p)
    <3>1. Victims' = Victims /\ Registered' = Registered
      BY <2>7 DEF EvPick, Victims, Registered, reg, spikes
    <3>2. QED
      BY <2>7, <3>1 DEF EvPick, At, EvStates, PickedFree, NoDoubleHold
  <2>8. CASE \E p \in Pids : EvRelease(p)
    <3>1. ev'.pc = "release"
      BY <2>8 DEF EvRelease, At, EvStates
    <3>2. QED
      BY <2>8, <3>1, FreeShrinks DEF EvRelease, Victims, Registered, reg, spikes
  <2>9. CASE EvSignal
    <3>1. Victims' = Victims /\ Registered' = Registered
      BY <2>9 DEF EvSignal, Victims, Registered, reg, spikes
    <3>2. CASE ev' = [ev EXCEPT !.pc = "record"]
      BY <2>9, <3>1, <3>2 DEF EvSignal, At, EvStates, PickedFree, NoDoubleHold
    <3>3. CASE ev' = [ev EXCEPT !.pc = "loop", !.pid = NoPid, !.st = 0]
      BY <2>9, <3>1, <3>3 DEF EvSignal, At, EvStates, PickedFree, NoDoubleHold
    <3>4. QED
      BY <2>9, <3>2, <3>3 DEF EvSignal
  <2>10. CASE EvRecord
    <3>1. ev.pid \in Pids /\ ev.pc = "record"
      BY <2>10 DEF EvRecord, At, LocalsOK
    <3>2. CASE ev.pass = "update"
      <4>1. Victims' \subseteq Victims \cup {ev.pid} /\ Registered' = Registered
        BY <2>10, <3>1, <3>2 DEF EvRecord, Victims, Registered, reg
      <4>2. QED
        BY <2>10, <3>1, <4>1 DEF EvRecord, EvStates, PickedFree, NoDoubleHold
    <3>3. CASE ev.pass # "update"
      <4>1. Registered' \subseteq Registered \cup {ev.pid} /\ Victims' = Victims
        BY <2>10, <3>1, <3>3 DEF EvRecord, RegistryAdd, Victims, Registered, reg
      <4>2. QED
        BY <2>10, <3>1, <4>1 DEF EvRecord, EvStates, PickedFree, NoDoubleHold
    <3>4. QED
      BY <3>2, <3>3
  <2>11. CASE EvDone
    <3>1. ev'.pc \notin {"loop", "signal", "record", "undo"}
      BY <2>11, EvictorGoesTo
    <3>2. QED
      BY <2>11, <3>1, FreeShrinks DEF EvDone, Victims, Registered, reg
  <2>12. CASE EvUndo
    <3>1. Victims' = Victims /\ Registered' = Registered
      BY <2>12 DEF EvUndo, Victims, Registered, reg, spikes
    <3>2. QED
      BY <2>12, <3>1 DEF EvUndo, At, EvStates, PickedFree, NoDoubleHold
  <2>13. QED
    BY <1>1, <2>1, <2>2, <2>4, <2>5, <2>6, <2>7, <2>8, <2>9, <2>10, <2>11, <2>12
       DEF Evictor
<1>2. CASE Recovery
  <2>1. UNCHANGED <<ev, victims>> /\ Registered' \subseteq Registered
    BY <1>2 DEF Recovery, RecCheck, RecWake, RecSkip, RecRelease, RegistryRemove,
       Registered, reg, spikes
  <2>2. QED
    BY <2>1, FreeShrinks DEF Victims
<1>3. CASE Commands
  <2>1. UNCHANGED <<ev, victims, frozen>>
    BY <1>3 DEF Commands, FreezeCheck, UnfreezeRead, RequestRelease, ActiveWindow,
       reg, spikes
  <2>2. QED
    BY <2>1, FreeShrinks DEF Victims, Registered
<1>4. CASE \E t \in Threads : ThreadStep(t)
  <2>1. PICK t \in Threads : ThreadStep(t)
    BY <1>4
  <2>2. ~FreezeAdd(t)
    BY DEF FreezeAdd, ThreadAt, NobodyFreezes
  <2>3. UNCHANGED <<ev, victims>> /\ Registered' \subseteq Registered
    BY <2>1, <2>2 DEF ThreadStep, FreezeSignal, UnfreezeCont, UnfreezeDrop,
       RegistryRemove, Registered, reg, spikes
  <2>4. QED
    BY <2>3, FreeShrinks DEF Victims
<1>5. CASE Main \/ Environment
  <2>1. UNCHANGED ev \/ ev' = EvInit
    BY <1>5 DEF Main, SweepCollect, Exit, Started, SweepOne, Environment, Die, Spawn,
       Age, SigTerm, Crash, Start
  <2>2. Victims' \subseteq Victims /\ Registered' \subseteq Registered
    BY <1>5 DEF Main, SweepCollect, Exit, Started, SweepOne, Environment, Die, Spawn,
       Age, SigTerm, Crash, Start, RegistryRemove, Victims, Registered, None, reg, spikes
  <2>3. QED
    BY <2>1, <2>2, FreeShrinks DEF EvInit
<1>6. CASE UNCHANGED vars
  BY <1>6, FreeShrinks DEF vars, Victims, Registered
<1>7. QED
  BY <1>1, <1>2, <1>3, <1>4, <1>5, <1>6 DEF Next

\* Without `mgctl freeze`, no process is ever both a registered one and a spike
\* victim, whatever unfreezes, crashes or restarts meanwhile: excluded_pids is
\* read once per pass and what it left out stays out until the pass has recorded.
THEOREM NeverDoubleHeld ==
    ASSUME Freezers = {}
    PROVE  Spec => []NoDoubleHold
<1>1. Init => NobodyFreezes /\ PickedFree
  BY DEF Init, EvInit, ConnInit, None, NobodyFreezes, PickedFree, NoDoubleHold,
     Registered, Victims
<1>2. TypeInv /\ NobodyFreezes /\ PickedFree /\ [Next]_vars
          => NobodyFreezes' /\ PickedFree'
  BY NobodyFreezesStep, PickedFreeStep
<1>3. PickedFree => NoDoubleHold
  BY DEF PickedFree
<1>4. QED
  BY <1>1, <1>2, <1>3, Always, PTL DEF Spec
-----------------------------------------------------------------------------
(***************************************************************************)
(* Shutdown, and the refinement of ProcessHold.                            *)
(***************************************************************************)

\* No detached thread ever runs, and the daemon is not killed.
QuietCommands ==
    Freezers = {} /\ Unfreezers = {} /\ Focusers = {} /\ MayCrash = FALSE

\* Once the evictor has left its loop, what is still stopped is in the registry,
\* and once main has copied the registry, in the copy it works through.
Closing ==
    /\ daemon \in {"run", "stopping"} /\ ev.pc = "exit"
           => \A p \in Pids : stopped[p] => frozen[p] = born[p]
    /\ daemon \in {"sweep", "exited"} => ev.pc = "exit"
    /\ daemon = "sweep" => \A p \in Pids : stopped[p] => sweep[p] = born[p]
    /\ daemon = "exited" => \A p \in Pids : ~stopped[p]

\* No step breaks Closing.
LEMMA ClosingStep ==
    ASSUME QuietCommands, TypeInv, StoppedLives, NobodyUnfreezes, OneLife,
           StoppedIsTracked, Closing, [Next]_vars
    PROVE  Closing'
<1> USE DEF TypeInv, TypeOK, QuietCommands
<1>1. CASE Evictor
  <2>1. ev.pc # "exit" /\ daemon' = daemon /\ daemon \in {"run", "stopping"}
    BY <1>1 DEF Evictor, EvTop, EvShutdown, EvFocus, EvFocusCont, EvFocusDrop,
       EvExited, EvTimedOut, EvRequested, EvUpdate, EvIdle, EvPlan, EvPick,
       EvRelease, EvSignal, EvRecord, EvUndo, EvDone, In, At
  <2>2. CASE EvShutdown
    <3>1. ASSUME NEW p \in Pids, stopped'[p] PROVE frozen'[p] = born'[p]
      <4>1. stopped[p] /\ alive[p] /\ victims[p] # born[p] /\ born[p] # 0
        BY <2>2, <3>1 DEF EvShutdown, StoppedLives, StartTime
      <4>2. sweep[p] = 0 /\ ev.pc = "top" /\ Threads = {}
        BY <2>1, <2>2 DEF EvShutdown, At, OneLife, None, Threads
      <4>3. frozen[p] = born[p]
        BY <2>1, <4>1, <4>2 DEF StoppedIsTracked, Tracked
      <4>4. QED
        BY <2>2, <4>3 DEF EvShutdown, reg
    <3>2. QED
      BY <2>1, <3>1 DEF Closing
  <2>3. CASE ~EvShutdown
    <3>1. ev'.pc # "exit"
      <4>1. CASE EvFocus \/ EvFocusDrop \/ EvPlan \/ EvDone
        BY <4>1, EvictorGoesTo
      <4>2. CASE EvExited \/ EvTimedOut \/ EvRequested \/ EvUpdate
        BY <4>2, EvictorGoesTo
      <4>3. CASE \E p \in Pids : EvPick(p) \/ EvRelease(p)
        BY <4>3, EvictorGoesTo
      <4>4. CASE (\E path \in Paths : EvTop(path)) \/ EvFocusCont \/ EvIdle
                 \/ EvSignal \/ EvRecord \/ EvUndo
        BY <4>4, EvictorGoesTo
      <4>5. QED
        BY <1>1, <2>3, <4>1, <4>2, <4>3, <4>4 DEF Evictor
    <3>2. QED
      BY <2>1, <3>1 DEF Closing
  <2>4. QED
    BY <2>2, <2>3
<1>2. CASE Recovery
  <2>1. UNCHANGED <<ev, daemon, sweep, born>> /\ daemon \in {"run", "stopping"}
    BY <1>2 DEF Recovery, RecCheck, RecWake, RecSkip, RecRelease, RecoveryAt, procs
  <2>2. ASSUME NEW p \in Pids, stopped'[p], stopped[p] => frozen[p] = born[p]
        PROVE  frozen'[p] = born[p]
    <3>1. CASE RecRelease
      BY <2>2, <3>1 DEF RecRelease, RegistryRemove, StoppedLives, StartTime
    <3>2. CASE ~RecRelease
      BY <1>2, <2>2, <3>2 DEF Recovery, RecCheck, RecWake, RecSkip, procs, reg
    <3>3. QED
      BY <3>1, <3>2
  <2>3. QED
    BY <2>1, <2>2 DEF Closing
<1>3. CASE Commands
  <2>1. UNCHANGED <<procs, frozen, ev, daemon, sweep>>
    BY <1>3 DEF Commands, FreezeCheck, UnfreezeRead, RequestRelease, ActiveWindow, reg
  <2>2. QED
    BY <2>1 DEF Closing, procs
<1>4. CASE \E t \in Threads : ThreadStep(t)
  BY <1>4 DEF Threads
<1>5. CASE Main
  <2>1. CASE SweepCollect
    BY <2>1 DEF SweepCollect, Closing, procs
  <2>2. CASE Exit
    BY <2>2 DEF Exit, Closing, None, StoppedLives, procs
  <2>3. CASE Started
    BY <2>3 DEF Started, OneLife
  <2>4. CASE \E p \in Pids : SweepOne(p)
    <3>1. PICK p \in Pids : SweepOne(p)
      BY <2>4
    <3>2. daemon = "sweep" /\ UNCHANGED <<ev, daemon, born>>
      BY <3>1 DEF SweepOne, OneLife
    <3>3. ASSUME NEW q \in Pids, stopped'[q] PROVE sweep'[q] = born[q]
      BY <3>1, <3>2, <3>3 DEF SweepOne, Unfreeze, StoppedLives, StartTime, Closing
    <3>4. QED
      BY <3>2, <3>3 DEF Closing
  <2>5. QED
    BY <1>5, <2>1, <2>2, <2>3, <2>4 DEF Main
<1>6. CASE Environment
  <2>1. CASE \E p \in Pids : Die(p) \/ Spawn(p) \/ Age(p)
    BY <2>1 DEF Die, Spawn, Age, Closing, StoppedLives, procs, reg
  <2>2. CASE SigTerm
    BY <2>2 DEF SigTerm, Closing, procs, reg
  <2>3. QED
    BY <1>6, <2>1, <2>2 DEF Environment, Crash, Start
<1>7. CASE UNCHANGED vars
  BY <1>7 DEF vars, Closing
<1>8. QED
  BY <1>1, <1>2, <1>3, <1>4, <1>5, <1>6, <1>7 DEF Next

\* The strengthening that the quiet daemon keeps.
LEMMA ClosingAlways ==
    ASSUME QuietCommands
    PROVE  Spec => [](NobodyUnfreezes /\ OneLife /\ Closing)
<1>1. Init => NobodyUnfreezes /\ OneLife /\ Closing
  BY DEF Init, EvInit, ConnInit, NobodyUnfreezes, OneLife, Closing
<1>2. TypeInv /\ StoppedLives /\ StoppedIsTracked /\ NobodyUnfreezes /\ OneLife
          /\ Closing /\ [Next]_vars
          => (NobodyUnfreezes /\ OneLife /\ Closing)'
  BY NobodyUnfreezesStep, OneLifeStep, ClosingStep DEF QuietCommands
<1>3. Spec => []StoppedIsTracked
  BY StoppedStaysTracked DEF QuietCommands
<1>4. QED
  BY <1>1, <1>2, <1>3, Always, PTL DEF Spec

\* When no command or focus thread interferes, a clean shutdown leaves nothing
\* stopped: the evictor lets its victims go (evictor/mod.rs), then main the
\* registry (lifecycle.rs), and neither forgets a process the other relies on.
THEOREM ShutdownReleasesAll ==
    ASSUME QuietCommands
    PROVE  Spec => []ShutdownLeavesNoneStopped
<1>1. Closing => ShutdownLeavesNoneStopped
  BY DEF Closing, ShutdownLeavesNoneStopped
<1>2. QED
  BY <1>1, ClosingAlways, PTL

-----------------------------------------------------------------------------
HoldHeld == {p \in Pids : stopped[p]}
HoldPhase == CASE daemon \in {"run", "stopping"} -> "up"
               [] daemon = "sweep" -> "closing"
               [] OTHER -> "down"

\* A step that stops nobody and keeps the phase is a release or a stutter.
LEMMA Releases ==
    ASSUME HoldHeld' \subseteq HoldHeld, HoldPhase' = HoldPhase
    PROVE  [Hold!Next]_(Hold!vars)
<1>1. CASE HoldHeld' = HoldHeld
  BY <1>1 DEF Hold!vars, HoldHeld, HoldPhase
<1>2. CASE HoldHeld' # HoldHeld
  <2> DEFINE S == HoldHeld \ HoldHeld'
  <2>1. S \in SUBSET HoldHeld /\ S # {} /\ HoldHeld' = HoldHeld \ S
    BY <1>2
  <2>2. Hold!Release
    BY <2>1 DEF Hold!Release, HoldHeld, HoldPhase
  <2>3. QED
    BY <2>2 DEF Hold!Next
<1>3. QED
  BY <1>1, <1>2

\* Every step is one of ProcessHold, or none for it.
LEMMA HoldStep ==
    ASSUME QuietCommands, TypeInv, StoppedLives, OneLife, Closing, [Next]_vars
    PROVE  [Hold!Next]_(Hold!vars)
<1> USE DEF TypeInv, TypeOK, QuietCommands
<1>1. CASE Evictor
  <2>1. daemon' = daemon /\ daemon \in {"run", "stopping"}
    BY <1>1 DEF Evictor, EvTop, EvShutdown, EvFocus, EvFocusCont, EvFocusDrop,
       EvExited, EvTimedOut, EvRequested, EvUpdate, EvIdle, EvPlan, EvPick,
       EvRelease, EvSignal, EvRecord, EvUndo, EvDone, In, At
  <2>2. CASE EvSignal
    <3>1. ev.pid \in Pids
      BY <2>2 DEF EvSignal, At, LocalsOK
    <3>2. CASE HoldHeld' \subseteq HoldHeld
      BY <2>1, <3>2, Releases DEF HoldPhase
    <3>3. CASE ~(HoldHeld' \subseteq HoldHeld)
      <4>1. HoldHeld' = HoldHeld \cup {ev.pid} /\ ev.pid \notin HoldHeld
        BY <2>2, <3>1, <3>3 DEF EvSignal, HoldHeld
      <4>2. \E p \in Pids : Hold!Hold(p)
        BY <2>1, <3>1, <4>1 DEF Hold!Hold, HoldHeld
      <4>3. QED
        BY <4>2 DEF Hold!Next
    <3>4. QED
      BY <3>2, <3>3
  <2>3. CASE ~EvSignal
    <3>1. HoldHeld' \subseteq HoldHeld
      BY <1>1, <2>3 DEF Evictor, EvTop, EvShutdown, EvFocus, EvFocusCont, EvFocusDrop,
         EvExited, EvTimedOut, EvRequested, EvUpdate, EvIdle, EvPlan, EvPick,
         EvRelease, EvRecord, EvUndo, EvDone, Unfreeze, HoldHeld, procs
    <3>2. QED
      BY <2>1, <3>1, Releases DEF HoldPhase
  <2>4. QED
    BY <2>2, <2>3
<1>2. CASE Recovery
  <2>1. daemon' = daemon /\ HoldHeld' \subseteq HoldHeld
    BY <1>2 DEF Recovery, RecCheck, RecWake, RecSkip, RecRelease, HoldHeld, procs
  <2>2. QED
    BY <2>1, Releases DEF HoldPhase
<1>3. CASE Commands
  <2>1. daemon' = daemon /\ HoldHeld' \subseteq HoldHeld
    BY <1>3 DEF Commands, FreezeCheck, UnfreezeRead, RequestRelease, ActiveWindow,
       HoldHeld, procs
  <2>2. QED
    BY <2>1, Releases DEF HoldPhase
<1>4. CASE \E t \in Threads : ThreadStep(t)
  BY <1>4 DEF Threads
<1>5. CASE SweepCollect
  <2>1. Hold!Close
    BY <1>5 DEF SweepCollect, Hold!Close, procs
  <2>2. QED
    BY <2>1 DEF Hold!Next
<1>6. CASE Exit
  <2>1. \A p \in Pids : ~stopped[p]
    BY <1>6 DEF Exit, Closing, None, StoppedLives
  <2>2. Hold!Down
    BY <1>6, <2>1 DEF Exit, Hold!Down, procs
  <2>3. QED
    BY <2>2 DEF Hold!Next
<1>7. CASE Started \/ \E p \in Pids : SweepOne(p)
  <2>1. daemon' = daemon /\ HoldHeld' \subseteq HoldHeld
    BY <1>7 DEF Started, SweepOne, Unfreeze, OneLife, HoldHeld
  <2>2. QED
    BY <2>1, Releases DEF HoldPhase
<1>8. CASE Environment
  <2>1. HoldPhase' = HoldPhase /\ HoldHeld' \subseteq HoldHeld
    BY <1>8 DEF Environment, Die, Spawn, Age, SigTerm, Crash, Start, HoldHeld,
       HoldPhase, procs
  <2>2. QED
    BY <2>1, Releases
<1>9. CASE UNCHANGED vars
  BY <1>9, Releases DEF vars, HoldHeld, HoldPhase
<1>10. QED
  BY <1>1, <1>2, <1>3, <1>4, <1>5, <1>6, <1>7, <1>8, <1>9 DEF Next, Main

\* Undisturbed, the whole daemon implements ProcessHold: nothing is put on hold
\* after main has collected the registry, and the daemon is down only when every
\* process runs.
THEOREM RefinesProcessHold ==
    ASSUME QuietCommands
    PROVE  Spec => ImplementsProcessHold
<1>1. Init => Hold!Init
  BY DEF Init, Hold!Init
<1>2. TypeInv /\ StoppedLives /\ OneLife /\ Closing /\ [Next]_vars
          => [Hold!Next]_(Hold!vars)
  BY HoldStep
<1>3. QED
  BY <1>1, <1>2, Always, ClosingAlways, PTL DEF Spec, ImplementsProcessHold, Hold!Spec
=============================================================================
