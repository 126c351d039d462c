---------------------------- MODULE Files_proofs ----------------------------
(* Safety of CheckpointLifecycle for any number of pids and commands, the  *)
(* reversible eviction that it implements, and what reloads of the         *)
(* configuration come to, for any texts.                                   *)
EXTENDS Files, TLAPS

USE NamesAssumption, BoundsAssumption, SwitchesAssumption

\* What the program counters say about the locals; the lock keeps the entry
\* the recovery manager works on.
LocalsOK ==
    /\ IF ev.pc = "idle" THEN ev.pid = NoPid ELSE ev.pid \in Pids /\ ev.name \in Names
    /\ IF rec.pc = "idle" THEN rec.pid = NoPid ELSE rec.pid \in Pids /\ Recorded(rec.pid)
    /\ rec.pc = "restore" => entry[rec.pid].attempts < MaxTries
    /\ \A t \in Restorers :
         IF conn[t].pc = "idle" THEN conn[t].pid = NoPid
         ELSE conn[t].pid \in Pids /\ conn[t].name \in Names
    /\ ~up => ev = EvIdle /\ rec = RecIdle /\ \A t \in Restorers : conn[t] = ConnIdle

TypeInv == TypeOK /\ LocalsOK

\* The evictor has a decision on p, not yet carried out or half-way through.
InHand(p) == Busy(p) \/ \E n \in Names : <<p, n>> \in ev.todo

\* The evictor works on processes nobody restores, and has one decision each.
Apart ==
    /\ \A p \in Pids : InHand(p) =>
          ~Recorded(p) /\ rec.pid # p /\ \A t \in Restorers : conn[t].pid # p
    /\ \A p \in Pids, n, m \in Names : <<p, n>> \in ev.todo /\ <<p, m>> \in ev.todo => n = m
    /\ \A p \in Pids, n \in Names : Busy(p) => <<p, n>> \notin ev.todo

\* Whoever is about to remove something has used it up before.
Settled ==
    /\ rec.pc = "clean" => dir[rec.pid][entry[rec.pid].name].spent
    /\ rec.pc = "drop" => dir[rec.pid][entry[rec.pid].name].gen = 0
    /\ \A t \in Restorers :
         /\ conn[t].pc = "drop" =>
               dir[conn[t].pid][conn[t].name].spent \/ dir[conn[t].pid][conn[t].name].gen = 0
         /\ conn[t].pc # "idle" /\ Recorded(conn[t].pid) =>
               entry[conn[t].pid].name = conn[t].name

\* What is put away does not run, but for the one between dump and SIGKILL.
OwedStopped ==
    /\ \A i \in owed : live[i[1]] # 0 =>
          ev.pc = "kill" /\ ev.pid = i[1] /\ live[i[1]] = i[2]
    /\ ev.pc = "kill" /\ live[ev.pid] # 0 => <<ev.pid, live[ev.pid]>> \in owed

-----------------------------------------------------------------------------
\* The empty values are values.
LEMMA Values ==
    /\ 0 \in Lives /\ Gens \subseteq Lives /\ Lives \ {0} \subseteq Gens
    /\ NoDir \in Snapshots
    /\ NoEntry \in Entries /\ \A n \in Names : [name |-> n, attempts |-> 0] \in Entries
    /\ EvIdle \in EvStates /\ RecIdle \in RecStates /\ ConnIdle \in ConnStates
BY DEF Lives, Gens, Snapshots, Entries, EvStates, RecStates, ConnStates, NoDir,
   NoEntry, EvIdle, RecIdle, ConnIdle

\* The types hold at the start.
LEMMA TypeInit == Init => TypeInv
BY Values DEF Init, TypeInv, TypeOK, LocalsOK, Gens, EvIdle, RecIdle, ConnIdle

\* One snapshot directory changes.
LEMMA DirType ==
    ASSUME NEW f \in [Pids -> [Names -> Snapshots]], NEW p \in Pids, NEW n \in Names,
           NEW d \in Snapshots
    PROVE  [f EXCEPT ![p][n] = d] \in [Pids -> [Names -> Snapshots]]
OBVIOUS

\* Removing a directory keeps the type of the snapshots.
LEMMA RemoveDirType ==
    ASSUME TypeOK, NEW p \in Pids, NEW n \in Names, RemoveDir(p, n)
    PROVE  dir' \in [Pids -> [Names -> Snapshots]]
BY DirType, Values DEF TypeOK, RemoveDir

\* A restore keeps the types of what it changes.
LEMMA RestoredType ==
    ASSUME TypeOK, NEW p \in Pids, NEW n \in Names, Restored(p, n)
    PROVE  /\ dir' \in [Pids -> [Names -> Snapshots]]
           /\ live' \in [Pids -> Lives]
           /\ owed' \subseteq Pids \X Gens
<1>1. dir[p][n] \in Snapshots
  BY DEF TypeOK
<1>2. [dir[p][n] EXCEPT !.spent = TRUE] \in Snapshots /\ dir[p][n].gen \in Lives
  BY <1>1 DEF Snapshots
<1>3. dir' = [dir EXCEPT ![p][n] = [dir[p][n] EXCEPT !.spent = TRUE]]
  BY DEF Restored, TypeOK
<1>4. dir' \in [Pids -> [Names -> Snapshots]]
  BY <1>2, <1>3, DirType DEF TypeOK
<1>5. QED
  BY <1>2, <1>4 DEF Restored, TypeOK

\* The steps of the evictor keep the types,
LEMMA EvictorType == ASSUME TypeInv, Evictor PROVE TypeInv'
<1> USE DEF TypeInv, TypeOK, LocalsOK, Recorded, procs
<1>1. CASE EvPlan
  <2>1. PICK S \in SUBSET {p \in Pids : live[p] # 0} :
           ev' = [ev EXCEPT !.todo = {<<p, NameOf[live[p]]>> : p \in S}]
    BY <1>1 DEF EvPlan
  <2>2. \A p \in S : NameOf[live[p]] \in Names
    BY Values
  <2>3. {<<p, NameOf[live[p]]>> : p \in S} \subseteq Pids \X Names
    BY <2>2
  <2>4. ev' \in EvStates /\ ev'.pc = "idle" /\ ev'.pid = NoPid
    BY <1>1, <2>1, <2>3 DEF EvPlan, EvStates
  <2>5. QED
    BY <1>1, <2>4 DEF EvPlan
<1>2. CASE EvKill
  <2>1. live' \in [Pids -> Lives] /\ owed' \subseteq Pids \X Gens
    BY <1>2, Values DEF EvKill
  <2>2. ev' \in EvStates /\ ev'.pc = "add" /\ ev'.pid = ev.pid /\ ev'.name = ev.name
    BY <1>2 DEF EvKill, EvStates
  <2>3. QED
    BY <1>2, <2>1, <2>2 DEF EvKill
<1>3. CASE EvAdd
  <2>1. entry' \in [Pids -> Entries]
    BY <1>3, Values DEF EvAdd
  <2>2. ev' \in EvStates /\ ev'.pc = "idle" /\ ev'.pid = NoPid
    BY <1>3, Values DEF EvAdd, EvStates, EvIdle
  <2>3. QED
    BY <1>3, <2>1, <2>2 DEF EvAdd, Unlocked
<1>4. CASE EvFallback
  <2>1. live' \in [Pids -> Lives]
    BY <1>4, Values DEF EvFallback
  <2>2. ev' \in EvStates /\ ev'.pc = "idle" /\ ev'.pid = NoPid
    BY <1>4, Values DEF EvFallback, EvStates, EvIdle
  <2>3. QED
    BY <1>4, <2>1, <2>2 DEF EvFallback
<1>5. ASSUME NEW p \in Pids, NEW n \in Names, EvSkip(p, n) PROVE TypeInv'
  <2>1. ev' \in EvStates /\ ev'.pc = ev.pc /\ ev'.pid = ev.pid /\ ev'.name = ev.name
    BY <1>5 DEF EvSkip, EvStates
  <2>2. QED
    BY <1>5, <2>1 DEF EvSkip, Decided
<1>6. ASSUME NEW p \in Pids, NEW n \in Names, NEW pc \in {"kill", "fallback"}, Take(p, n, pc)
      PROVE  ev' \in EvStates /\ ev'.pc # "idle" /\ ev'.pid = p /\ ev'.name = n
  BY <1>6 DEF Take, EvStates
<1>7. ASSUME NEW p \in Pids, NEW n \in Names, EvDump(p, n) PROVE TypeInv'
  <2>1. [gen |-> live[p], spent |-> FALSE] \in Snapshots
    BY DEF Snapshots
  <2>2. dir' \in [Pids -> [Names -> Snapshots]] /\ owed' \subseteq Pids \X Gens
    BY <1>7, <2>1, DirType, Values DEF EvDump
  <2>3. QED
    BY <1>6, <1>7, <2>2 DEF EvDump, Decided
<1>8. ASSUME NEW p \in Pids, NEW n \in Names, EvDumpFails(p, n) PROVE TypeInv'
  <2>1. dir' \in [Pids -> [Names -> Snapshots]]
    BY <1>8, RemoveDirType DEF EvDumpFails
  <2>2. unfit' \subseteq Names
    BY <1>8 DEF EvDumpFails
  <2>3. QED
    BY <1>6, <1>8, <2>1, <2>2 DEF EvDumpFails, Decided
<1>9. QED
  BY <1>1, <1>2, <1>3, <1>4, <1>5, <1>7, <1>8 DEF Evictor

\* those of the recovery manager,
LEMMA RestorePassType == ASSUME TypeInv, RestorePass PROVE TypeInv'
<1> USE DEF TypeInv, TypeOK, LocalsOK, Recorded, procs
<1>1. ASSUME rec.pc # "idle" PROVE rec.pid \in Pids /\ entry[rec.pid].name \in Names
  BY <1>1 DEF Entries
<1>2. CASE RecRestore
  <2>1. rec.pid \in Pids /\ entry[rec.pid].name \in Names
    BY <1>1, <1>2 DEF RecRestore
  <2>2. /\ dir' \in [Pids -> [Names -> Snapshots]]
        /\ live' \in [Pids -> Lives]
        /\ owed' \subseteq Pids \X Gens
    BY <1>2, <2>1, RestoredType DEF RecRestore
  <2>3. rec' \in RecStates /\ rec'.pc = "clean" /\ rec'.pid = rec.pid
    BY <1>2 DEF RecRestore, RecStates
  <2>4. QED
    BY <1>2, <2>1, <2>2, <2>3 DEF RecRestore
<1>3. CASE RecFails
  <2>1. entry' \in [Pids -> Entries]
    <3>1. [entry[rec.pid] EXCEPT !.attempts = @ + 1] \in Entries
      BY <1>1, <1>3 DEF RecFails, Entries
    <3>2. QED
      BY <1>3, <3>1 DEF RecFails
  <2>2. rec' \in RecStates /\ rec'.pc = "idle" /\ rec'.pid = NoPid
    BY <1>3, Values DEF RecFails, RecIdle
  <2>3. QED
    BY <1>3, <2>1, <2>2 DEF RecFails
<1>4. CASE RecClean
  <2>1. dir' \in [Pids -> [Names -> Snapshots]]
    BY <1>1, <1>4, RemoveDirType DEF RecClean
  <2>2. rec' \in RecStates /\ rec'.pc = "drop" /\ rec'.pid = rec.pid
    BY <1>4 DEF RecClean, RecStates
  <2>3. QED
    BY <1>4, <2>1, <2>2 DEF RecClean
<1>5. CASE RecDrop
  <2>1. entry' \in [Pids -> Entries]
    BY <1>5, Values DEF RecDrop, RemoveEntry
  <2>2. rec' \in RecStates /\ rec'.pc = "idle" /\ rec'.pid = NoPid
    BY <1>5, Values DEF RecDrop, RecIdle
  <2>3. QED
    BY <1>5, <2>1, <2>2 DEF RecDrop
<1>6. ASSUME NEW p \in Pids, RecGiveUp(p) PROVE TypeInv'
  <2>1. entry[p].name \in Names
    BY <1>6 DEF RecGiveUp, Entries
  <2>2. dir' \in [Pids -> [Names -> Snapshots]] /\ entry' \in [Pids -> Entries]
    BY <1>6, <2>1, RemoveDirType, Values DEF RecGiveUp, RemoveEntry
  <2>3. QED
    BY <1>6, <2>2 DEF RecGiveUp, Unlocked
<1>7. ASSUME NEW p \in Pids, RecTake(p) PROVE TypeInv'
  <2>1. rec' \in RecStates
    BY <1>7 DEF RecTake, RecStates
  <2>2. QED
    BY <1>7, <2>1 DEF RecTake, Unlocked
<1>8. QED
  BY <1>2, <1>3, <1>4, <1>5, <1>6, <1>7 DEF RestorePass

\* those of a restore command,
LEMMA CommandType == ASSUME TypeInv, NEW t \in Restorers, Command(t) PROVE TypeInv'
<1> USE DEF TypeInv, TypeOK, LocalsOK, Recorded, procs
<1>1. CASE CmdRestore(t)
  <2>1. conn[t].pid \in Pids /\ conn[t].name \in Names
    BY <1>1 DEF CmdRestore
  <2>2. /\ dir' \in [Pids -> [Names -> Snapshots]]
        /\ live' \in [Pids -> Lives]
        /\ owed' \subseteq Pids \X Gens
    BY <1>1, <2>1, RestoredType DEF CmdRestore
  <2>3. /\ conn' \in [Restorers -> ConnStates]
        /\ conn'[t].pc = "drop" /\ conn'[t].pid = conn[t].pid /\ conn'[t].name = conn[t].name
        /\ \A u \in Restorers \ {t} : conn'[u] = conn[u]
    BY <1>1 DEF CmdRestore, ConnStates
  <2>4. QED
    BY <1>1, <2>1, <2>2, <2>3 DEF CmdRestore
<1>2. CASE CmdFails(t) \/ CmdDrop(t)
  <2>1. entry' \in [Pids -> Entries]
    BY <1>2, Values DEF CmdFails, CmdDrop, RemoveEntry
  <2>2. /\ conn' \in [Restorers -> ConnStates]
        /\ conn'[t].pc = "idle" /\ conn'[t].pid = NoPid
        /\ \A u \in Restorers \ {t} : conn'[u] = conn[u]
    BY <1>2, Values DEF CmdFails, CmdDrop, ConnIdle
  <2>3. QED
    BY <1>2, <2>1, <2>2 DEF CmdFails, CmdDrop, Unlocked
<1>3. ASSUME NEW p \in Pids, CmdCopy(t, p) PROVE TypeInv'
  <2>1. entry[p].name \in Names
    BY <1>3 DEF CmdCopy, Entries
  <2>2. /\ conn' \in [Restorers -> ConnStates]
        /\ conn'[t] = [pc |-> "restore", pid |-> p, name |-> entry[p].name]
        /\ \A u \in Restorers \ {t} : conn'[u] = conn[u]
    BY <1>3, <2>1 DEF CmdCopy, ConnStates
  <2>3. QED
    BY <1>3, <2>1, <2>2 DEF CmdCopy
<1>4. QED
  BY <1>1, <1>2, <1>3 DEF Command

\* and those of kernel, shutdown and startup.
LEMMA EnvironmentType ==
    ASSUME TypeInv, Halt \/ Start \/ \E p \in Pids : Exit(p) \/ Birth(p)
    PROVE  TypeInv'
<1> USE DEF TypeInv, TypeOK, LocalsOK, Recorded, procs
<1>1. CASE Halt
  <2>1. entry' \in [Pids -> Entries]
    BY <1>1, Values DEF Halt
  <2>2. ev' \in EvStates /\ rec' \in RecStates /\ conn' \in [Restorers -> ConnStates]
    BY <1>1, Values DEF Halt
  <2>3. QED
    BY <1>1, <2>1, <2>2 DEF Halt, EvIdle, RecIdle, ConnIdle
<1>2. CASE Start
  <2>1. dir' \in [Pids -> [Names -> Snapshots]]
    BY <1>2, Values DEF Start
  <2>2. QED
    BY <1>2, <2>1 DEF Start
<1>3. ASSUME NEW p \in Pids, Exit(p) PROVE TypeInv'
  BY <1>3, Values DEF Exit
<1>4. ASSUME NEW p \in Pids, Birth(p) PROVE TypeInv'
  <2>1. born[p] + 1 \in Lives
    BY <1>4 DEF Birth, Lives
  <2>2. QED
    BY <1>4, <2>1 DEF Birth
<1>5. QED
  BY <1>1, <1>2, <1>3, <1>4

\* No step breaks the types.
LEMMA TypeStep == TypeInv /\ [Next]_vars => TypeInv'
<1> SUFFICES ASSUME TypeInv, [Next]_vars PROVE TypeInv'
  OBVIOUS
<1>1. CASE UNCHANGED vars
  BY <1>1 DEF TypeInv, TypeOK, LocalsOK, Recorded, vars
<1>2. QED
  BY <1>1, EvictorType, RestorePassType, CommandType, EnvironmentType DEF Next

\* The registry counts no more than MaxTries attempts, and the other variables
\* keep their types, for any pids, commands, stops and kills.
THEOREM TypeCorrect == Spec => []TypeOK
<1>1. Spec => []TypeInv
  BY TypeInit, TypeStep, PTL DEF Spec
<1>2. TypeInv => TypeOK
  BY DEF TypeInv
<1>3. QED
  BY <1>1, <1>2, PTL

-----------------------------------------------------------------------------
\* What a step of the evictor does to the decisions in hand.
LEMMA HandStep ==
    ASSUME TypeInv, Apart, Evictor, ~EvPlan, NEW p \in Pids, InHand(p)'
    PROVE  /\ InHand(p)
           /\ EvAdd => p # ev.pid
<1> USE DEF TypeInv, TypeOK, EvStates, InHand, Busy
<1>1. CASE EvKill
  BY <1>1 DEF EvKill, EvAdd
<1>2. CASE EvAdd \/ EvFallback
  BY <1>2 DEF EvAdd, EvFallback, EvIdle, Apart
<1>3. ASSUME NEW q \in Pids, NEW n \in Names, EvSkip(q, n) \/ EvDump(q, n) \/ EvDumpFails(q, n)
      PROVE  InHand(p) /\ ~EvAdd
  <2>1. ev.pc = "idle" /\ <<q, n>> \in ev.todo
    BY <1>3 DEF EvSkip, EvDump, EvDumpFails, Decided
  <2>2. CASE EvSkip(q, n)
    <3>1. ev'.pc = "idle" /\ ev'.todo = ev.todo \ {<<q, n>>}
      BY <2>1, <2>2 DEF EvSkip
    <3>2. QED
      BY <2>1, <3>1 DEF EvAdd
  <2>3. CASE EvDump(q, n) \/ EvDumpFails(q, n)
    <3>1. ev'.pid = q /\ ev'.todo = ev.todo \ {<<q, n>>}
      BY <2>3 DEF EvDump, EvDumpFails, Take
    <3>2. QED
      BY <2>1, <3>1 DEF EvAdd
  <2>4. QED
    BY <1>3, <2>2, <2>3
<1>4. QED
  BY <1>1, <1>2, <1>3 DEF Evictor

\* A step of the evictor leaves its other decisions as they are.
LEMMA OneDecision ==
    ASSUME TypeInv, Apart, Evictor, ~EvPlan, NEW p \in Pids, NEW n \in Names,
           <<p, n>> \in ev'.todo
    PROVE  <<p, n>> \in ev.todo /\ ~Busy(p)'
<1> USE DEF TypeInv, TypeOK, EvStates, Busy, Apart
<1>1. CASE EvKill \/ EvAdd \/ EvFallback
  BY <1>1 DEF EvKill, EvAdd, EvFallback, EvIdle
<1>2. ASSUME NEW q \in Pids, NEW m \in Names, EvSkip(q, m)
      PROVE  <<p, n>> \in ev.todo /\ ~Busy(p)'
  BY <1>2 DEF EvSkip, Decided
<1>3. ASSUME NEW q \in Pids, NEW m \in Names, EvDump(q, m) \/ EvDumpFails(q, m)
      PROVE  <<p, n>> \in ev.todo /\ ~Busy(p)'
  <2>1. <<q, m>> \in ev.todo /\ ev'.pid = q /\ ev'.todo = ev.todo \ {<<q, m>>}
    BY <1>3 DEF EvDump, EvDumpFails, Decided, Take
  <2>2. <<p, n>> \in ev.todo /\ <<p, n>> # <<q, m>>
    BY <2>1
  <2>3. p = q => n = m
    BY <2>1, <2>2
  <2>4. QED
    BY <2>1, <2>2, <2>3
<1>4. QED
  BY <1>1, <1>2, <1>3 DEF Evictor

\* Recording, removing and counting: what happens to the entries.
LEMMA RecordedStep ==
    ASSUME TypeInv, [Next]_vars, NEW p \in Pids, Recorded(p)'
    PROVE  \/ Recorded(p)
           \/ EvAdd /\ p = ev.pid
<1> USE DEF TypeInv, TypeOK, LocalsOK, Recorded, Entries
<1>1. CASE Evictor
  BY <1>1 DEF Evictor, EvPlan, EvKill, EvAdd, EvFallback, EvSkip, EvDump, EvDumpFails
<1>2. CASE RestorePass
  BY <1>2 DEF RestorePass, RecRestore, RecFails, RecClean, RecDrop, RecGiveUp, RecTake,
     RemoveEntry, NoEntry
<1>3. CASE Halt
  BY <1>3 DEF Halt, NoEntry
<1>4. CASE Start \/ (\E t \in Restorers : Command(t)) \/ \E q \in Pids : Exit(q) \/ Birth(q)
  BY <1>4 DEF Start, Command, CmdCopy, CmdRestore, CmdFails, CmdDrop, RemoveEntry, NoEntry,
     Exit, Birth
<1>5. CASE UNCHANGED vars
  BY <1>5 DEF vars
<1>6. QED
  BY <1>1, <1>2, <1>3, <1>4, <1>5 DEF Next

\* Only a recorded process is taken up for a restore.
LEMMA TakenUp ==
    ASSUME TypeInv, [Next]_vars, NEW p \in Pids
    PROVE  /\ rec'.pid = p => rec.pid = p \/ Recorded(p)
           /\ \A t \in Restorers : conn'[t].pid = p => conn[t].pid = p \/ Recorded(p)
<1> USE DEF TypeInv, TypeOK, RecStates, ConnStates, RecIdle, ConnIdle
<1>1. CASE Evictor
  BY <1>1 DEF Evictor, EvPlan, EvKill, EvAdd, EvFallback, EvSkip, EvDump, EvDumpFails
<1>2. CASE RestorePass
  BY <1>2, NamesAssumption DEF RestorePass, RecRestore, RecFails, RecClean, RecDrop,
     RecGiveUp, RecTake
<1>3. ASSUME NEW t \in Restorers, Command(t)
      PROVE  /\ rec'.pid = p => rec.pid = p
             /\ \A u \in Restorers : conn'[u].pid = p => conn[u].pid = p \/ Recorded(p)
  <2>1. rec' = rec
    BY <1>3 DEF Command, CmdCopy, CmdRestore, CmdFails, CmdDrop
  <2>2. ASSUME NEW u \in Restorers, conn'[u].pid = p
        PROVE  conn[u].pid = p \/ Recorded(p)
    <3>1. CASE \E q \in Pids : CmdCopy(t, q)
      BY <2>2, <3>1 DEF CmdCopy
    <3>2. CASE CmdRestore(t)
      BY <2>2, <3>2 DEF CmdRestore
    <3>3. CASE CmdFails(t) \/ CmdDrop(t)
      BY <2>2, <3>3, NamesAssumption DEF CmdFails, CmdDrop
    <3>4. QED
      BY <1>3, <3>1, <3>2, <3>3 DEF Command
  <2>3. QED
    BY <2>1, <2>2
<1>4. CASE Halt
  BY <1>4 DEF Halt
<1>5. CASE Start \/ (\E q \in Pids : Exit(q) \/ Birth(q)) \/ UNCHANGED vars
  BY <1>5 DEF Start, Exit, Birth, vars
<1>6. QED
  BY <1>1, <1>2, <1>3, <1>4, <1>5 DEF Next

\* Without overlapping dumps no step breaks Apart.
LEMMA ApartStep ==
    ASSUME TypeInv, Apart, Overlap = {}, [Next]_vars
    PROVE  Apart'
<1>1. CASE EvPlan
  <2>1. PICK S \in SUBSET {p \in Pids : live[p] # 0} :
           /\ \A p \in S : Free(p)
           /\ ev' = [ev EXCEPT !.todo = {<<p, NameOf[live[p]]>> : p \in S}]
    BY <1>1 DEF EvPlan
  <2>2. ev'.pc = "idle" /\ ev'.todo = {<<p, NameOf[live[p]]>> : p \in S}
    BY <1>1, <2>1 DEF EvPlan, TypeInv, TypeOK, EvStates
  <2>3. \A p \in S : ~Recorded(p) /\ rec.pid # p /\ \A t \in Restorers : conn[t].pid # p
    BY <2>1 DEF Free
  <2>4. UNCHANGED <<entry, rec, conn>>
    BY <1>1 DEF EvPlan
  <2>5. \A p \in Pids : InHand(p)' => p \in S
    BY <2>2 DEF InHand, Busy
  <2>6. \A p \in Pids, n \in Names : <<p, n>> \in ev'.todo => n = NameOf[live[p]]
    BY <2>2
  <2>7. \A p \in Pids : ~Busy(p)'
    BY <2>2 DEF Busy
  <2>8. QED
    BY <2>3, <2>4, <2>5, <2>6, <2>7 DEF Apart, Recorded
<1>2. CASE Evictor /\ ~EvPlan
  <2>1. \A p \in Pids : InHand(p)' =>
          ~Recorded(p)' /\ rec'.pid # p /\ \A t \in Restorers : conn'[t].pid # p
    <3>1. UNCHANGED <<rec, conn>>
      BY <1>2 DEF Evictor, EvKill, EvAdd, EvFallback, EvSkip, EvDump, EvDumpFails
    <3>2. QED
      BY <1>2, <3>1, HandStep, RecordedStep DEF Apart, Next
  <2>2. QED
    BY <1>2, <2>1, OneDecision DEF Apart
<1>3. CASE Halt
  BY <1>3 DEF Halt, EvIdle, Apart, InHand, Busy
<1>4. CASE ~Evictor /\ ~Halt
  <2>1. ev' = ev
    BY <1>4 DEF Next, RestorePass, RecRestore, RecFails, RecClean, RecDrop, RecGiveUp,
       RecTake, Command, CmdCopy, CmdRestore, CmdFails, CmdDrop, Start, Exit, Birth, vars
  <2>2. \A p \in Pids : InHand(p)' =>
          ~Recorded(p)' /\ rec'.pid # p /\ \A t \in Restorers : conn'[t].pid # p
    BY <1>4, <2>1, RecordedStep, TakenUp DEF Apart, InHand, Busy, Evictor
  <2>3. QED
    BY <2>1, <2>2 DEF Apart, Busy
<1>5. QED
  BY <1>1, <1>2, <1>3, <1>4

-----------------------------------------------------------------------------
\* A restore marks one image as spent; a removal empties one directory.
LEMMA RestoredDirs ==
    ASSUME TypeOK, NEW p \in Pids, NEW n \in Names, Restored(p, n)
    PROVE  /\ \A q \in Pids, m \in Names :
                 /\ dir'[q][m].gen = dir[q][m].gen
                 /\ dir[q][m].spent => dir'[q][m].spent
                 /\ <<q, m>> # <<p, n>> => dir'[q][m] = dir[q][m]
           /\ dir'[p][n].spent
BY DEF TypeOK, Snapshots, Restored

\* RemoveDir removes one directory.
LEMMA RemovedDirs ==
    ASSUME TypeOK, NEW p \in Pids, NEW n \in Names, RemoveDir(p, n)
    PROVE  /\ \A q \in Pids, m \in Names : <<q, m>> # <<p, n>> => dir'[q][m] = dir[q][m]
           /\ dir'[p][n] = NoDir
BY DEF TypeOK, RemoveDir

\* The evictor writes only to directories and entries of processes in hand.
LEMMA EvictorWrites ==
    ASSUME TypeInv, Evictor, NEW p \in Pids, ~InHand(p)
    PROVE  dir'[p] = dir[p] /\ entry'[p] = entry[p]
<1> USE DEF TypeInv, TypeOK, InHand, Busy
<1>1. CASE EvPlan \/ EvKill \/ EvAdd \/ EvFallback
  BY <1>1 DEF EvPlan, EvKill, EvAdd, EvFallback
<1>2. ASSUME NEW q \in Pids, NEW n \in Names, EvSkip(q, n) \/ EvDump(q, n) \/ EvDumpFails(q, n)
      PROVE  dir'[p] = dir[p] /\ entry'[p] = entry[p]
  BY <1>2 DEF EvSkip, EvDump, EvDumpFails, Decided, RemoveDir
<1>3. QED
  BY <1>1, <1>2 DEF Evictor

\* No step breaks Settled.
LEMMA SettledStep ==
    ASSUME TypeInv, Apart, Settled, [Next]_vars
    PROVE  Settled'
<1>0. /\ TypeOK /\ LocalsOK
      /\ rec.pc # "idle" => rec.pid \in Pids /\ entry[rec.pid].name \in Names
      /\ \A t \in Restorers : conn[t].pc # "idle" => conn[t].pid \in Pids /\ conn[t].name \in Names
  BY DEF TypeInv, TypeOK, LocalsOK, Recorded, Entries
<1>1. CASE Evictor
  <2>1. UNCHANGED <<rec, conn>>
    BY <1>1 DEF Evictor, EvPlan, EvKill, EvAdd, EvFallback, EvSkip, EvDump, EvDumpFails
  <2>2. rec.pc # "idle" => ~InHand(rec.pid)
    BY <1>0 DEF Apart
  <2>3. \A t \in Restorers : conn[t].pc # "idle" => ~InHand(conn[t].pid)
    BY <1>0 DEF Apart
  <2>4. QED
    BY <1>0, <1>1, <2>1, <2>2, <2>3, EvictorWrites DEF Settled, Recorded
<1>2. CASE RecRestore
  <2>1. Restored(rec.pid, entry[rec.pid].name) /\ rec.pc = "restore"
    BY <1>2 DEF RecRestore
  <2>2. rec'.pc = "clean" /\ rec'.pid = rec.pid /\ UNCHANGED <<entry, conn>>
    BY <1>0, <1>2 DEF RecRestore, TypeOK, RecStates
  <2>3. QED
    BY <1>0, <2>1, <2>2, RestoredDirs DEF Settled, Recorded
<1>3. CASE RecFails
  <2>1. \A p \in Pids : entry'[p].name = entry[p].name
    BY <1>0, <1>3 DEF RecFails, TypeOK, Entries
  <2>2. QED
    BY <1>0, <1>3, <2>1 DEF RecFails, RecIdle, Settled, Recorded
<1>4. CASE RecClean
  <2>1. RemoveDir(rec.pid, entry[rec.pid].name) /\ rec.pc = "clean"
    BY <1>4 DEF RecClean
  <2>2. rec'.pc = "drop" /\ rec'.pid = rec.pid /\ UNCHANGED <<entry, conn>>
    BY <1>0, <1>4 DEF RecClean, TypeOK, RecStates
  <2>3. QED
    BY <1>0, <2>1, <2>2, RemovedDirs DEF Settled, Recorded, NoDir
<1>5. CASE RecDrop
  <2>1. \A p \in Pids : Recorded(p)' => entry'[p] = entry[p]
    BY <1>0, <1>5 DEF RecDrop, RemoveEntry, Recorded, NoEntry, TypeOK
  <2>2. QED
    BY <1>0, <1>5, <2>1 DEF RecDrop, RecIdle, Settled, Recorded
<1>6. ASSUME NEW p \in Pids, RecGiveUp(p) PROVE Settled'
  <2>1. entry[p].name \in Names
    BY <1>0, <1>6 DEF RecGiveUp, Recorded, TypeOK, Entries
  <2>2. \A q \in Pids : Recorded(q)' => entry'[q] = entry[q]
    BY <1>0, <1>6 DEF RecGiveUp, RemoveEntry, Recorded, NoEntry, TypeOK
  <2>3. QED
    BY <1>0, <1>6, <2>1, <2>2, RemovedDirs DEF RecGiveUp, Unlocked, Settled, Recorded, NoDir
<1>7. ASSUME NEW p \in Pids, RecTake(p) PROVE Settled'
  BY <1>7 DEF RecTake, Settled, Recorded
<1>8. ASSUME NEW t \in Restorers, CmdRestore(t) PROVE Settled'
  <2>1. Restored(conn[t].pid, conn[t].name) /\ conn[t].pc = "restore"
    BY <1>8 DEF CmdRestore
  <2>2. /\ conn'[t].pc = "drop" /\ conn'[t].pid = conn[t].pid /\ conn'[t].name = conn[t].name
        /\ \A u \in Restorers \ {t} : conn'[u] = conn[u]
        /\ UNCHANGED <<entry, rec>>
    BY <1>0, <1>8 DEF CmdRestore, TypeOK, ConnStates
  <2>3. QED
    BY <1>0, <2>1, <2>2, RestoredDirs DEF Settled, Recorded
<1>9. ASSUME NEW t \in Restorers, CmdFails(t) \/ CmdDrop(t) PROVE Settled'
  <2>1. \A p \in Pids : Recorded(p)' => entry'[p] = entry[p]
    BY <1>0, <1>9 DEF CmdFails, CmdDrop, RemoveEntry, Recorded, NoEntry, TypeOK
  <2>2. conn'[t].pc = "idle" /\ \A u \in Restorers \ {t} : conn'[u] = conn[u]
    BY <1>0, <1>9 DEF CmdFails, CmdDrop, ConnIdle, TypeOK
  <2>3. UNCHANGED <<dir, rec>> /\ (entry' # entry => rec.pc = "idle")
    BY <1>9 DEF CmdFails, CmdDrop, Unlocked
  <2>4. QED
    BY <1>0, <2>1, <2>2, <2>3 DEF Settled, Recorded
<1>10. ASSUME NEW t \in Restorers, NEW p \in Pids, CmdCopy(t, p) PROVE Settled'
  <2>1. /\ conn'[t] = [pc |-> "restore", pid |-> p, name |-> entry[p].name]
        /\ \A u \in Restorers \ {t} : conn'[u] = conn[u]
        /\ UNCHANGED <<dir, entry, rec>>
    BY <1>0, <1>10 DEF CmdCopy, TypeOK
  <2>2. QED
    BY <1>0, <2>1 DEF Settled, Recorded
<1>11. CASE Halt
  BY <1>11 DEF Halt, RecIdle, ConnIdle, Settled
<1>12. CASE Start
  <2>1. rec.pc = "idle" /\ \A t \in Restorers : conn[t].pc = "idle"
    BY <1>0, <1>12 DEF Start, LocalsOK, RecIdle, ConnIdle
  <2>2. UNCHANGED <<rec, conn>>
    BY <1>12 DEF Start
  <2>3. QED
    BY <2>1, <2>2 DEF Settled
<1>13. CASE (\E p \in Pids : Exit(p) \/ Birth(p)) \/ UNCHANGED vars
  BY <1>13 DEF Exit, Birth, vars, Settled, Recorded
<1>14. QED
  BY <1>1, <1>2, <1>3, <1>4, <1>5, <1>6, <1>7, <1>8, <1>9, <1>10, <1>11, <1>12, <1>13
     DEF Next, RestorePass, Command

\* The safety invariants hold at the start.
LEMMA SafeInit == Init => Apart /\ Settled /\ OwedStopped /\ NothingLost
BY DEF Init, Apart, InHand, Busy, Settled, OwedStopped, NothingLost, EvIdle, RecIdle, ConnIdle

-----------------------------------------------------------------------------
\* What RecordedIsSafe says of one snapshot in one step.
Kept(p, n) ==
    (entry[p].name = n /\ live[p] = 0 /\ dir[p][n].gen # 0 /\ ~dir[p][n].spent) =>
       \/ entry'[p].name = n /\ dir'[p][n] = dir[p][n]
       \/ live'[p] = dir[p][n].gen
       \/ entry[p].attempts = MaxTries
       \/ TornSaves /\ ~up'

\* Every step keeps every snapshot so.
LEMMA KeptStep ==
    ASSUME TypeInv, Apart, Settled, [Next]_vars, NEW p \in Pids, NEW n \in Names
    PROVE  Kept(p, n)
<1> SUFFICES ASSUME entry[p].name = n, live[p] = 0, dir[p][n].gen # 0, ~dir[p][n].spent
             PROVE  \/ entry'[p].name = n /\ dir'[p][n] = dir[p][n]
                    \/ live'[p] = dir[p][n].gen
                    \/ entry[p].attempts = MaxTries
                    \/ TornSaves /\ ~up'
  BY DEF Kept
<1>0. /\ Recorded(p) /\ ~InHand(p)
      /\ TypeOK /\ LocalsOK
      /\ rec.pc # "idle" => rec.pid \in Pids /\ entry[rec.pid].name \in Names
      /\ \A t \in Restorers : conn[t].pc # "idle" => conn[t].pid \in Pids /\ conn[t].name \in Names
  BY DEF Apart, Recorded, TypeInv, TypeOK, LocalsOK, Entries
<1>1. CASE Evictor
  BY <1>0, <1>1, EvictorWrites
<1>2. CASE RecRestore
  <2>1. Restored(rec.pid, entry[rec.pid].name) /\ UNCHANGED entry
    BY <1>2 DEF RecRestore
  <2>2. CASE rec.pid = p
    BY <1>0, <2>1, <2>2 DEF Restored, TypeOK
  <2>3. CASE rec.pid # p
    BY <1>0, <1>2, <2>1, <2>3, RestoredDirs DEF RecRestore
  <2>4. QED
    BY <2>2, <2>3
<1>3. CASE RecFails
  BY <1>0, <1>3 DEF RecFails, TypeOK, Entries
<1>4. CASE RecClean
  <2>1. rec.pid # p
    BY <1>4 DEF RecClean, Settled
  <2>2. QED
    BY <1>0, <1>4, <2>1, RemovedDirs DEF RecClean
<1>5. CASE RecDrop
  <2>1. rec.pid # p
    BY <1>5 DEF RecDrop, Settled
  <2>2. QED
    BY <1>0, <1>5, <2>1 DEF RecDrop, RemoveEntry, TypeOK
<1>6. ASSUME NEW q \in Pids, RecGiveUp(q)
      PROVE  \/ entry'[p].name = n /\ dir'[p][n] = dir[p][n]
             \/ entry[p].attempts = MaxTries
  <2>1. CASE q = p
    <3>1. entry[p].attempts \in 0..MaxTries
      BY <1>0 DEF TypeOK, Entries
    <3>2. entry[p].attempts >= MaxTries
      BY <1>6, <2>1 DEF RecGiveUp
    <3>3. QED
      BY <3>1, <3>2
  <2>2. CASE q # p
    BY <1>0, <1>6, <2>2 DEF RecGiveUp, RemoveDir, RemoveEntry, TypeOK
  <2>3. QED
    BY <2>1, <2>2
<1>7. ASSUME NEW q \in Pids, RecTake(q) PROVE entry'[p].name = n /\ dir'[p][n] = dir[p][n]
  BY <1>7 DEF RecTake
<1>8. ASSUME NEW t \in Restorers, CmdRestore(t)
      PROVE  \/ entry'[p].name = n /\ dir'[p][n] = dir[p][n]
             \/ live'[p] = dir[p][n].gen
  <2>1. Restored(conn[t].pid, conn[t].name) /\ UNCHANGED entry /\ conn[t].pc = "restore"
    BY <1>8 DEF CmdRestore
  <2>2. CASE conn[t].pid = p
    <3>1. conn[t].name = n
      BY <1>0, <2>1, <2>2 DEF Settled
    <3>2. QED
      BY <1>0, <2>1, <2>2, <3>1 DEF Restored, TypeOK
  <2>3. CASE conn[t].pid # p
    BY <1>0, <2>1, <2>3, RestoredDirs
  <2>4. QED
    BY <2>2, <2>3
<1>9. ASSUME NEW t \in Restorers, CmdFails(t) \/ CmdDrop(t)
      PROVE  entry'[p].name = n /\ dir'[p][n] = dir[p][n]
  <2>1. CASE CmdFails(t)
    BY <2>1 DEF CmdFails
  <2>2. CASE CmdDrop(t)
    <3>1. conn[t].pid # p
      BY <1>0, <2>2 DEF CmdDrop, Settled
    <3>2. QED
      BY <1>0, <2>2, <3>1 DEF CmdDrop, RemoveEntry, TypeOK
  <2>3. QED
    BY <1>9, <2>1, <2>2
<1>10. ASSUME NEW t \in Restorers, NEW q \in Pids, CmdCopy(t, q)
       PROVE  entry'[p].name = n /\ dir'[p][n] = dir[p][n]
  BY <1>10 DEF CmdCopy
<1>11. CASE Halt
  BY <1>11 DEF Halt
<1>12. CASE Start
  BY <1>12 DEF Start
<1>13. CASE (\E q \in Pids : Exit(q) \/ Birth(q)) \/ UNCHANGED vars
  BY <1>13 DEF Exit, Birth, vars
<1>14. QED
  BY <1>1, <1>2, <1>3, <1>4, <1>5, <1>6, <1>7, <1>8, <1>9, <1>10, <1>11, <1>12, <1>13
     DEF Next, RestorePass, Command

\* Where no new dump overlaps the end of an earlier restore, a recorded snapshot
\* is removed only by a restore or after MAX_RESTORE_ATTEMPTS, wherever the
\* daemon is killed, unless the kill tears the registry file.
THEOREM RecordedSafe ==
    ASSUME Overlap = {}
    PROVE  Spec => RecordedIsSafe
<1>1. Init => TypeInv /\ Apart /\ Settled
  BY TypeInit, SafeInit
<1>2. TypeInv /\ Apart /\ Settled /\ [Next]_vars => (TypeInv /\ Apart /\ Settled)'
  BY TypeStep, ApartStep, SettledStep
<1> DEFINE Safe == \A p \in Pids, n \in Names :
        (entry[p].name = n /\ live[p] = 0 /\ dir[p][n].gen # 0 /\ ~dir[p][n].spent) =>
           \/ entry'[p].name = n /\ dir'[p][n] = dir[p][n]
           \/ live'[p] = dir[p][n].gen
           \/ entry[p].attempts = MaxTries
           \/ TornSaves /\ ~up'
<1>3. TypeInv /\ Apart /\ Settled /\ [Next]_vars => [Safe]_vars
  BY KeptStep DEF Kept
<1>4. QED
  BY <1>1, <1>2, <1>3, PTL DEF Spec, RecordedIsSafe

-----------------------------------------------------------------------------
\* Where the evictor has no decision on a process that is owed, its entry
\* names its image.
LEMMA OwedRecorded ==
    ASSUME TypeInv, NothingLost, NEW p \in Pids, NEW g \in Gens, <<p, g>> \in owed,
           ev.pc \notin {"kill", "add"} \/ ev.pid # p
    PROVE  /\ Recorded(p) /\ entry[p].name \in Names
           /\ dir[p][entry[p].name] = [gen |-> g, spent |-> FALSE]
<1>1. Recoverable(p, g)
  BY DEF NothingLost
<1>2. QED
  BY <1>1 DEF Recoverable, Recorded

\* A process comes back only when nothing else of its pid is owed.
LEMMA RestoredOwed ==
    ASSUME TypeInv, Apart, OwedStopped, NothingLost, NEW p \in Pids, NEW n \in Names,
           ~InHand(p), Recorded(p) => entry[p].name = n,
           Restored(p, n), UNCHANGED <<entry, ev>>
    PROVE  OwedStopped' /\ NothingLost'
<1>1. ASSUME NEW i \in owed' PROVE i \in owed /\ i[1] # p
  <2>1. i \in owed /\ i # <<p, dir[p][n].gen>>
    BY <1>1 DEF Restored
  <2>2. i \in Pids \X Gens
    BY <2>1 DEF TypeInv, TypeOK
  <2>3. ASSUME i[1] = p PROVE FALSE
    <3>1. PICK g \in Gens : i = <<p, g>>
      BY <2>2, <2>3
    <3>2. dir[p][entry[p].name].gen = g /\ Recorded(p)
      <4>1. <<p, g>> \in owed /\ (ev.pc \notin {"kill", "add"} \/ ev.pid # p)
        BY <2>1, <3>1 DEF InHand, Busy
      <4>2. dir[p][entry[p].name] = [gen |-> g, spent |-> FALSE] /\ Recorded(p)
        BY <4>1, OwedRecorded
      <4>3. QED
        BY <4>2
    <3>3. QED
      BY <2>1, <3>1, <3>2
  <2>4. QED
    BY <2>1, <2>3
<1>2. \A q \in Pids \ {p} : live'[q] = live[q] /\ dir'[q] = dir[q]
  BY DEF Restored, TypeInv, TypeOK
<1>3. owed' \subseteq Pids \X Gens
  BY RestoredType DEF TypeInv
<1>4. OwedStopped'
  <2>1. ASSUME NEW i \in owed', live'[i[1]] # 0
        PROVE  ev.pc = "kill" /\ ev.pid = i[1] /\ live'[i[1]] = i[2]
    BY <1>1, <1>2, <1>3, <2>1 DEF OwedStopped
  <2>2. ASSUME ev.pc = "kill", live'[ev.pid] # 0 PROVE <<ev.pid, live'[ev.pid]>> \in owed'
    <3>1. ev.pid \in Pids \ {p}
      BY <2>2 DEF TypeInv, LocalsOK, InHand, Busy
    <3>2. <<ev.pid, live[ev.pid]>> \in owed
      BY <1>2, <2>2, <3>1 DEF OwedStopped
    <3>3. QED
      BY <1>2, <3>1, <3>2 DEF Restored
  <2>3. QED
    BY <2>1, <2>2 DEF OwedStopped
<1>5. ASSUME NEW i \in owed' PROVE Recoverable(i[1], i[2])'
  <2>1. Recoverable(i[1], i[2]) /\ i[1] \in Pids \ {p}
    BY <1>1, <1>3, <1>5 DEF NothingLost
  <2>2. QED
    BY <1>2, <2>1 DEF Recoverable
<1>6. QED
  BY <1>4, <1>5 DEF NothingLost

\* The evictor dumps running processes only, of which none is owed.
LEMMA EvictorOwed ==
    ASSUME TypeInv, Apart, OwedStopped, NothingLost, Evictor
    PROVE  OwedStopped' /\ NothingLost'
<1>0. /\ owed \subseteq Pids \X Gens /\ live \in [Pids -> Lives]
      /\ ev.pc # "idle" => ev.pid \in Pids /\ ev.name \in Names
      /\ ev \in EvStates
  BY DEF TypeInv, TypeOK, LocalsOK
<1>1. CASE EvPlan
  BY <1>0, <1>1 DEF EvPlan, EvStates, procs, OwedStopped, NothingLost, Recoverable
<1>2. ASSUME NEW q \in Pids, NEW n \in Names, EvSkip(q, n) PROVE OwedStopped' /\ NothingLost'
  BY <1>0, <1>2 DEF EvSkip, Decided, EvStates, procs, OwedStopped, NothingLost, Recoverable
<1>3. ASSUME NEW q \in Pids, NEW n \in Names, EvDump(q, n) PROVE OwedStopped' /\ NothingLost'
  <2>1. /\ ev.pc = "idle" /\ ev'.pc = "kill" /\ ev'.pid = q /\ ev'.name = n
        /\ live[q] # 0 /\ UNCHANGED <<live, entry>>
        /\ owed' = owed \cup {<<q, live[q]>>}
    BY <1>3 DEF EvDump, Decided, Take, procs
  <2>2. \A i \in owed : live[i[1]] = 0 /\ i[1] \in Pids \ {q}
    BY <1>0, <2>1 DEF OwedStopped
  <2>3. OwedStopped'
    BY <2>1, <2>2 DEF OwedStopped
  <2>4. /\ dir'[q][n] = [gen |-> live[q], spent |-> FALSE]
        /\ \A p \in Pids \ {q} : dir'[p] = dir[p]
    BY <1>3 DEF EvDump, TypeInv, TypeOK
  <2>5. Recoverable(q, live[q])'
    BY <2>1, <2>4 DEF Recoverable
  <2>6. ASSUME NEW i \in owed PROVE Recoverable(i[1], i[2])'
    BY <2>1, <2>2, <2>4 DEF NothingLost, Recoverable
  <2>7. QED
    BY <2>1, <2>3, <2>5, <2>6 DEF NothingLost
<1>4. ASSUME NEW q \in Pids, NEW n \in Names, EvDumpFails(q, n)
      PROVE OwedStopped' /\ NothingLost'
  <2>1. /\ ev.pc = "idle" /\ ev'.pc = "fallback" /\ <<q, n>> \in ev.todo
        /\ UNCHANGED <<live, entry, owed>>
    BY <1>4 DEF EvDumpFails, Decided, Take, procs
  <2>2. \A p \in Pids \ {q} : dir'[p] = dir[p]
    BY <1>4 DEF EvDumpFails, RemoveDir, TypeInv, TypeOK
  <2>3. ASSUME NEW i \in owed PROVE Recoverable(i[1], i[2])'
    <3>1. PICK m \in Names : dir[i[1]][m] = [gen |-> i[2], spent |-> FALSE] /\ entry[i[1]].name = m
      BY <2>1 DEF NothingLost, Recoverable
    <3>2. i[1] \in Pids \ {q}
      BY <1>0, <2>1, <3>1 DEF Apart, InHand, Recorded
    <3>3. QED
      BY <2>1, <2>2, <3>1, <3>2 DEF Recoverable
  <2>4. QED
    BY <2>1, <2>3 DEF OwedStopped, NothingLost
<1>5. CASE EvKill
  <2>1. /\ ev.pc = "kill" /\ ev.pid \in Pids
        /\ ev'.pc = "add" /\ ev'.pid = ev.pid /\ ev'.name = ev.name
        /\ live' = [live EXCEPT ![ev.pid] = 0] /\ UNCHANGED <<dir, entry>>
    BY <1>0, <1>5 DEF EvKill, EvStates
  <2>2. owed' = owed
    BY <1>5, <2>1 DEF EvKill, OwedStopped
  <2>3. OwedStopped'
    BY <1>0, <2>1, <2>2 DEF OwedStopped
  <2>4. NothingLost'
    BY <2>1, <2>2 DEF NothingLost, Recoverable
  <2>5. QED
    BY <2>3, <2>4
<1>6. CASE EvAdd
  <2>1. /\ ev.pc = "add" /\ ev'.pc = "idle" /\ ev.pid \in Pids /\ ev.name \in Names
        /\ entry' = [entry EXCEPT ![ev.pid] = [name |-> ev.name, attempts |-> 0]]
        /\ UNCHANGED <<live, dir, owed>>
    BY <1>0, <1>6 DEF EvAdd, EvIdle, procs
  <2>2. ~Recorded(ev.pid)
    BY <2>1 DEF Apart, InHand, Busy
  <2>3. ASSUME NEW i \in owed PROVE Recoverable(i[1], i[2])'
    <3>1. PICK m \in Names : /\ dir[i[1]][m] = [gen |-> i[2], spent |-> FALSE]
                             /\ entry[i[1]].name = m \/ (ev.pid = i[1] /\ ev.name = m)
      <4>1. Recoverable(i[1], i[2])
        BY DEF NothingLost
      <4>2. QED
        BY <4>1 DEF Recoverable
    <3>2. entry'[i[1]].name = m
      <4>1. CASE i[1] = ev.pid
        BY <2>1, <2>2, <3>1, <4>1 DEF Recorded, TypeInv, TypeOK
      <4>2. CASE i[1] # ev.pid
        BY <1>0, <2>1, <3>1, <4>2 DEF TypeInv, TypeOK
      <4>3. QED
        BY <4>1, <4>2
    <3>3. QED
      BY <2>1, <3>1, <3>2 DEF Recoverable
  <2>4. QED
    BY <2>1, <2>3 DEF OwedStopped, NothingLost
<1>7. CASE EvFallback
  <2>1. /\ ev.pc = "fallback" /\ ev'.pc = "idle" /\ UNCHANGED <<dir, entry, owed>>
        /\ \A p \in Pids : live'[p] # 0 => live'[p] = live[p]
    BY <1>0, <1>7 DEF EvFallback, EvIdle
  <2>2. OwedStopped'
    BY <1>0, <2>1 DEF OwedStopped
  <2>3. NothingLost'
    BY <2>1 DEF NothingLost, Recoverable
  <2>4. QED
    BY <2>2, <2>3
<1>8. QED
  BY <1>1, <1>2, <1>3, <1>4, <1>5, <1>6, <1>7 DEF Evictor

\* An entry or a directory that is removed is not that of an owed process.
LEMMA RemovedOwed ==
    ASSUME TypeInv, Apart, OwedStopped, NothingLost, NEW p \in Pids, ~InHand(p),
           \A g \in Gens : <<p, g>> \notin owed',
           \A q \in Pids \ {p} : dir'[q] = dir[q] /\ entry'[q] = entry[q],
           owed' \subseteq owed, \A q \in Pids \ {p}, g \in Gens : <<q, g>> \in owed => <<q, g>> \in owed',
           UNCHANGED <<live, ev>>
    PROVE  OwedStopped' /\ NothingLost'
<1>1. owed' \subseteq Pids \X Gens /\ \A i \in owed' : i[1] \in Pids \ {p}
  BY DEF TypeInv, TypeOK
<1>2. ASSUME NEW i \in owed', live[i[1]] # 0
      PROVE  ev.pc = "kill" /\ ev.pid = i[1] /\ live[i[1]] = i[2]
  BY <1>2 DEF OwedStopped
<1>3. ASSUME ev.pc = "kill", live[ev.pid] # 0 PROVE <<ev.pid, live[ev.pid]>> \in owed'
  <2>1. ev.pid \in Pids \ {p} /\ live[ev.pid] \in Gens
    BY <1>3, Values DEF TypeInv, TypeOK, LocalsOK, InHand, Busy
  <2>2. QED
    BY <1>3, <2>1 DEF OwedStopped
<1>4. ASSUME NEW i \in owed' PROVE Recoverable(i[1], i[2])'
  <2>1. Recoverable(i[1], i[2]) /\ i[1] \in Pids \ {p}
    BY <1>1, <1>4 DEF NothingLost
  <2>2. QED
    BY <2>1 DEF Recoverable
<1>5. QED
  BY <1>2, <1>3, <1>4 DEF OwedStopped, NothingLost

\* The steps of the recovery manager lose nobody,
LEMMA RestorePassOwed ==
    ASSUME TypeInv, Apart, Settled, OwedStopped, NothingLost, RestorePass
    PROVE  OwedStopped' /\ NothingLost'
<1>0. /\ TypeOK /\ owed \subseteq Pids \X Gens
      /\ rec.pc # "idle" => /\ rec.pid \in Pids /\ Recorded(rec.pid) /\ ~InHand(rec.pid)
                            /\ entry[rec.pid].name \in Names
  BY DEF Apart, TypeInv, TypeOK, LocalsOK, Recorded, Entries
<1>1. ASSUME NEW p \in Pids, NEW g \in Gens, ~InHand(p), <<p, g>> \in owed
      PROVE  dir[p][entry[p].name].gen = g /\ ~dir[p][entry[p].name].spent
  <2>1. dir[p][entry[p].name] = [gen |-> g, spent |-> FALSE]
    BY <1>1, OwedRecorded DEF InHand, Busy
  <2>2. QED
    BY <2>1
<1>2. CASE RecRestore
  BY <1>0, <1>2, RestoredOwed DEF RecRestore
<1>3. CASE RecFails
  <2>1. \A p \in Pids : entry'[p].name = entry[p].name
    BY <1>0, <1>3 DEF RecFails, TypeOK, Entries
  <2>2. QED
    BY <1>0, <1>3, <2>1 DEF RecFails, procs, OwedStopped, NothingLost, Recoverable
<1>4. CASE RecClean \/ RecDrop
  <2>1. rec.pid \in Pids /\ ~InHand(rec.pid) /\ UNCHANGED <<live, ev, owed>>
    BY <1>0, <1>4 DEF RecClean, RecDrop, procs
  <2>2. \A g \in Gens : <<rec.pid, g>> \notin owed
    <3>1. dir[rec.pid][entry[rec.pid].name].spent \/ dir[rec.pid][entry[rec.pid].name].gen = 0
      BY <1>4 DEF RecClean, RecDrop, Settled
    <3>2. 0 \notin Gens
      BY DEF Gens
    <3>3. QED
      BY <1>1, <2>1, <3>1, <3>2
  <2>3. \A q \in Pids \ {rec.pid} : dir'[q] = dir[q] /\ entry'[q] = entry[q]
    BY <1>0, <1>4 DEF RecClean, RecDrop, RemoveDir, RemoveEntry, TypeOK
  <2>4. QED
    BY <2>1, <2>2, <2>3, RemovedOwed
<1>5. ASSUME NEW p \in Pids, RecGiveUp(p) PROVE OwedStopped' /\ NothingLost'
  <2>1. ~InHand(p) /\ UNCHANGED <<live, ev>> /\ owed' = owed \ {<<p, dir[p][entry[p].name].gen>>}
    BY <1>5 DEF RecGiveUp, procs, Apart
  <2>2. \A g \in Gens : <<p, g>> \notin owed'
    <3>1. \A g \in Gens : <<p, g>> \in owed => dir[p][entry[p].name].gen = g
      BY <1>1, <2>1
    <3>2. QED
      BY <2>1, <3>1
  <2>3. \A q \in Pids \ {p} : dir'[q] = dir[q] /\ entry'[q] = entry[q]
    BY <1>0, <1>5 DEF RecGiveUp, RemoveDir, RemoveEntry, TypeOK
  <2>4. QED
    BY <2>1, <2>2, <2>3, RemovedOwed
<1>6. ASSUME NEW p \in Pids, RecTake(p) PROVE OwedStopped' /\ NothingLost'
  BY <1>6 DEF RecTake, procs, OwedStopped, NothingLost, Recoverable
<1>7. QED
  BY <1>2, <1>3, <1>4, <1>5, <1>6 DEF RestorePass

\* and those of a restore command neither.
LEMMA CommandOwed ==
    ASSUME TypeInv, Apart, Settled, OwedStopped, NothingLost, NEW t \in Restorers, Command(t)
    PROVE  OwedStopped' /\ NothingLost'
<1>0. /\ TypeOK
      /\ conn[t].pc # "idle" => /\ conn[t].pid \in Pids /\ conn[t].name \in Names
                                /\ ~InHand(conn[t].pid)
                                /\ Recorded(conn[t].pid) => entry[conn[t].pid].name = conn[t].name
  BY DEF Apart, Settled, TypeInv, LocalsOK
<1>1. CASE CmdRestore(t)
  BY <1>0, <1>1, RestoredOwed DEF CmdRestore
<1>2. CASE CmdDrop(t)
  <2>1. /\ conn[t].pc = "drop" /\ conn[t].pid \in Pids /\ ~InHand(conn[t].pid)
        /\ UNCHANGED <<live, dir, ev, owed>>
    BY <1>0, <1>2 DEF CmdDrop, procs
  <2>2. \A g \in Gens : <<conn[t].pid, g>> \notin owed
    <3>1. ASSUME NEW g \in Gens, <<conn[t].pid, g>> \in owed PROVE FALSE
      <4>1. /\ Recorded(conn[t].pid)
            /\ dir[conn[t].pid][entry[conn[t].pid].name] = [gen |-> g, spent |-> FALSE]
        BY <2>1, <3>1, OwedRecorded DEF InHand, Busy
      <4>2. QED
        BY <1>0, <2>1, <4>1 DEF Settled, Gens
    <3>2. QED
      BY <3>1
  <2>3. \A q \in Pids \ {conn[t].pid} : dir'[q] = dir[q] /\ entry'[q] = entry[q]
    BY <1>0, <1>2, <2>1 DEF CmdDrop, RemoveEntry, TypeOK
  <2>4. QED
    BY <2>1, <2>2, <2>3, RemovedOwed
<1>3. CASE CmdFails(t) \/ \E p \in Pids : CmdCopy(t, p)
  BY <1>3 DEF CmdFails, CmdCopy, procs, OwedStopped, NothingLost, Recoverable
<1>4. QED
  BY <1>1, <1>2, <1>3 DEF Command

\* The kernel leaves the pid of an owed process alone, and startup its image.
LEMMA EnvironmentOwed ==
    ASSUME TypeInv, OwedStopped, NothingLost,
           Reuse = FALSE, MayCrash = FALSE, TornSaves = FALSE,
           Halt \/ Start \/ (\E p \in Pids : Exit(p) \/ Birth(p)) \/ UNCHANGED vars
    PROVE  OwedStopped' /\ NothingLost'
<1>0. TypeOK /\ LocalsOK /\ owed \subseteq Pids \X Gens /\ live \in [Pids -> Lives]
  BY DEF TypeInv, TypeOK
<1>1. CASE Halt
  <2>1. /\ ev.pc = "idle" /\ ev'.pc = "idle" /\ UNCHANGED <<live, entry, dir, owed>>
    BY <1>1 DEF Halt, EvIdle, procs
  <2>2. QED
    BY <2>1 DEF OwedStopped, NothingLost, Recoverable
<1>2. CASE Start
  <2>1. ev.pc = "idle" /\ UNCHANGED <<live, entry, ev, owed>>
    BY <1>0, <1>2 DEF Start, LocalsOK, EvIdle, procs
  <2>2. ASSUME NEW i \in owed PROVE Recoverable(i[1], i[2])'
    <3>1. PICK m \in Names : dir[i[1]][m] = [gen |-> i[2], spent |-> FALSE] /\ entry[i[1]].name = m
      BY <2>1 DEF NothingLost, Recoverable
    <3>2. dir'[i[1]][m] = dir[i[1]][m]
      BY <1>0, <1>2, <3>1 DEF Start
    <3>3. QED
      BY <2>1, <3>1, <3>2 DEF Recoverable
  <2>3. QED
    BY <2>1, <2>2 DEF OwedStopped, NothingLost
<1>3. ASSUME NEW p \in Pids, Exit(p) PROVE OwedStopped' /\ NothingLost'
  <2>1. /\ live' = [live EXCEPT ![p] = 0] /\ UNCHANGED <<dir, entry, ev, owed>>
    BY <1>3 DEF Exit
  <2>2. OwedStopped'
    BY <1>0, <2>1 DEF OwedStopped, LocalsOK
  <2>3. NothingLost'
    BY <2>1 DEF NothingLost, Recoverable
  <2>4. QED
    BY <2>2, <2>3
<1>4. ASSUME NEW p \in Pids, Birth(p) PROVE OwedStopped' /\ NothingLost'
  <2>1. /\ ~Recorded(p) /\ ~Busy(p) /\ UNCHANGED <<dir, entry, ev, owed>>
        /\ \A q \in Pids \ {p} : live'[q] = live[q]
    BY <1>0, <1>4 DEF Birth
  <2>2. \A i \in owed : i[1] \in Pids \ {p}
    <3>1. ASSUME NEW g \in Gens, <<p, g>> \in owed PROVE FALSE
      BY <2>1, <3>1, OwedRecorded DEF Busy
    <3>2. QED
      BY <1>0, <3>1
  <2>3. ev.pc = "kill" => ev.pid \in Pids \ {p}
    BY <1>0, <2>1 DEF Busy, LocalsOK
  <2>4. OwedStopped'
    BY <2>1, <2>2, <2>3 DEF OwedStopped
  <2>5. NothingLost'
    BY <2>1 DEF NothingLost, Recoverable
  <2>6. QED
    BY <2>4, <2>5
<1>5. CASE UNCHANGED vars
  BY <1>5 DEF vars, procs, OwedStopped, NothingLost, Recoverable
<1>6. QED
  BY <1>1, <1>2, <1>3, <1>4, <1>5

\* Where no new dump overlaps the end of an earlier restore, the kernel does not
\* hand out a checkpointed pid, and the daemon is only ever stopped by SIGTERM,
\* no checkpointed process is lost: whatever commands and the recovery manager
\* do at the same time, its image is there and recorded until it is back.
THEOREM NothingIsLost ==
    ASSUME Overlap = {}, Reuse = FALSE, MayCrash = FALSE, TornSaves = FALSE
    PROVE  Spec => []NothingLost
<1> DEFINE Inv == TypeInv /\ Apart /\ Settled /\ OwedStopped /\ NothingLost
<1>1. Init => Inv
  BY TypeInit, SafeInit
<1>2. Inv /\ [Next]_vars => Inv'
  <2> SUFFICES ASSUME Inv, [Next]_vars PROVE Inv'
    OBVIOUS
  <2>1. TypeInv' /\ Apart' /\ Settled'
    BY TypeStep, ApartStep, SettledStep
  <2>2. OwedStopped' /\ NothingLost'
    BY EvictorOwed, RestorePassOwed, CommandOwed, EnvironmentOwed DEF Next
  <2>3. QED
    BY <2>1, <2>2
<1>3. QED
  BY <1>1, <1>2, PTL DEF Spec

-----------------------------------------------------------------------------
(* The refinement.  Without commands, a snapshot that was not used yet is  *)
(* on record or about to be, and whoever is on record has one, unless he   *)
(* is being brought back.                                                  *)

Unused(p, n) == dir[p][n].gen # 0 /\ ~dir[p][n].spent

Active(p, n) ==
    \/ entry[p].name = n
    \/ ev.pc \in {"kill", "add"} /\ ev.pid = p /\ ev.name = n

ImageOK(p, n) ==
    /\ Unused(p, n) =>
          /\ Active(p, n) /\ dir[p][n].gen <= born[p]
          /\ live[p] = 0 \/ (ev.pc = "kill" /\ ev.pid = p /\ live[p] = dir[p][n].gen)
    /\ Active(p, n) => Unused(p, n) \/ (rec.pc \in {"clean", "drop"} /\ rec.pid = p)

Images ==
    /\ \A p \in Pids, n \in Names : ImageOK(p, n)
    /\ \A p \in Pids : live[p] <= born[p]

\* At the start there is no image.
LEMMA ImagesInit == Init => Images
  BY DEF Init, Images, ImageOK, Unused, Active, NoDir, NoEntry, EvIdle

\* Where nothing about p has changed its images are as they were.
LEMMA ImagesFrame ==
    ASSUME TypeInv, Images, NEW p \in Pids, NEW n \in Names,
           dir'[p] = dir[p], entry'[p] = entry[p], live'[p] = live[p], born'[p] = born[p],
           (ev.pc = "kill" /\ ev.pid = p) => (ev'.pc = "kill" /\ ev'.pid = p),
           Active(p, n)' <=> Active(p, n),
           (rec.pc \in {"clean", "drop"} /\ rec.pid = p) =>
               (rec'.pc \in {"clean", "drop"} /\ rec'.pid = p)
    PROVE  ImageOK(p, n)'
  BY DEF Images, ImageOK, Unused

\* The evictor,
LEMMA EvictorImages ==
    ASSUME TypeInv, Apart, Images, Evictor
    PROVE  Images'
<1>0. /\ TypeOK
      /\ ev.pc # "idle" => ev.pid \in Pids /\ ev.name \in Names
      /\ ev \in EvStates /\ dir \in [Pids -> [Names -> Snapshots]]
      /\ live \in [Pids -> Lives] /\ born \in [Pids -> Lives]
  BY DEF TypeInv, TypeOK, LocalsOK
<1>1. ASSUME UNCHANGED <<live, born, dir, entry, rec>>,
             \A p \in Pids, n \in Names : Active(p, n)' <=> Active(p, n),
             ev.pc # "kill"
      PROVE  Images'
  BY <1>1, ImagesFrame DEF Images
<1>2. CASE EvPlan
  BY <1>0, <1>1, <1>2 DEF EvPlan, procs, Active, EvStates
<1>3. ASSUME NEW q \in Pids, NEW m \in Names, EvSkip(q, m)
      PROVE  Images'
  BY <1>0, <1>1, <1>3 DEF EvSkip, Decided, procs, Active, EvStates
<1>4. ASSUME NEW q \in Pids, NEW m \in Names, Decided(q, m)
      PROVE  /\ \A n \in Names : ~Active(q, n) /\ ~Unused(q, n)
             /\ \A p \in Pids, n \in Names : Active(p, n) => p # q
  <2>1. InHand(q) /\ entry[q].name = NoName /\ rec.pid # q /\ ev.pc = "idle"
    BY <1>4 DEF Apart, InHand, Decided, Recorded
  <2>2. QED
    BY <2>1 DEF Active, Images, ImageOK
<1>5. ASSUME NEW q \in Pids, NEW m \in Names, EvDump(q, m)
      PROVE  Images'
  <2>1. /\ ev'.pc = "kill" /\ ev'.pid = q /\ ev'.name = m /\ ev.pc = "idle"
        /\ UNCHANGED <<live, born, entry, rec>>
    BY <1>0, <1>5 DEF EvDump, Take, Decided, procs
  <2>2. /\ dir'[q][m] = [gen |-> live[q], spent |-> FALSE] /\ live[q] # 0
        /\ \A n \in Names \ {m} : dir'[q][n] = dir[q][n]
        /\ \A p \in Pids \ {q} : dir'[p] = dir[p]
    BY <1>0, <1>5 DEF EvDump
  <2>3. \A n \in Names : ~Active(q, n) /\ ~Unused(q, n)
    BY <1>4, <1>5 DEF EvDump
  <2>4. ASSUME NEW n \in Names PROVE ImageOK(q, n)'
    BY <2>1, <2>2, <2>3 DEF ImageOK, Unused, Active, Images
  <2>5. ASSUME NEW p \in Pids \ {q}, NEW n \in Names PROVE ImageOK(p, n)'
    BY <2>1, <2>2 DEF ImageOK, Unused, Active, Images
  <2>6. QED
    BY <2>1, <2>4, <2>5 DEF Images
<1>6. ASSUME NEW q \in Pids, NEW m \in Names, EvDumpFails(q, m)
      PROVE  Images'
  <2>1. /\ ev'.pc = "fallback" /\ ev'.pid = q /\ ev.pc = "idle"
        /\ UNCHANGED <<live, born, entry, rec>>
    BY <1>0, <1>6 DEF EvDumpFails, Take, Decided, procs
  <2>2. /\ \A n \in Names : dir'[q][n] \in {dir[q][n], NoDir}
        /\ \A p \in Pids \ {q} : dir'[p] = dir[p]
    BY <1>0, <1>6 DEF EvDumpFails, RemoveDir
  <2>3. \A n \in Names : ~Active(q, n) /\ ~Unused(q, n)
    BY <1>4, <1>6 DEF EvDumpFails
  <2>4. ASSUME NEW n \in Names PROVE ImageOK(q, n)'
    BY <2>1, <2>2, <2>3 DEF ImageOK, Unused, Active, NoDir
  <2>5. ASSUME NEW p \in Pids \ {q}, NEW n \in Names PROVE ImageOK(p, n)'
    BY <2>1, <2>2 DEF ImageOK, Unused, Active, Images
  <2>6. QED
    BY <2>1, <2>4, <2>5 DEF Images
<1>7. CASE EvKill
  <2>1. /\ ev.pc = "kill" /\ ev'.pc = "add" /\ ev'.pid = ev.pid /\ ev'.name = ev.name
        /\ UNCHANGED <<born, dir, entry, rec>>
    BY <1>0, <1>7 DEF EvKill, EvStates
  <2>2. live'[ev.pid] = 0 /\ \A p \in Pids \ {ev.pid} : live'[p] = live[p]
    BY <1>0, <1>7 DEF EvKill
  <2>3. ASSUME NEW p \in Pids, NEW n \in Names PROVE ImageOK(p, n)'
    BY <2>1, <2>2 DEF ImageOK, Unused, Active, Images
  <2>4. \A p \in Pids : live'[p] <= born'[p]
    BY <1>0, <2>1, <2>2 DEF Images, Lives
  <2>5. QED
    BY <2>3, <2>4 DEF Images
<1>8. CASE EvAdd
  <2>1. /\ ev.pc = "add" /\ ev'.pc = "idle" /\ UNCHANGED <<live, born, dir, rec>>
        /\ entry'[ev.pid].name = ev.name
        /\ \A p \in Pids \ {ev.pid} : entry'[p] = entry[p]
    BY <1>0, <1>8 DEF EvAdd, procs, EvIdle, TypeOK
  <2>2. entry[ev.pid].name = NoName
    BY <1>0, <2>1 DEF Apart, InHand, Busy, Recorded
  <2>3. ASSUME NEW p \in Pids, NEW n \in Names PROVE ImageOK(p, n)'
    BY <1>0, <2>1, <2>2 DEF ImageOK, Unused, Active, Images
  <2>4. QED
    BY <2>1, <2>3 DEF Images
<1>9. CASE EvFallback
  <2>1. /\ ev.pc = "fallback" /\ ev'.pc = "idle" /\ UNCHANGED <<born, dir, entry, rec>>
    BY <1>0, <1>9 DEF EvFallback, EvIdle
  <2>2. \A p \in Pids : live'[p] \in {live[p], 0}
    BY <1>0, <1>9 DEF EvFallback
  <2>3. ASSUME NEW p \in Pids, NEW n \in Names PROVE ImageOK(p, n)'
    BY <2>1, <2>2 DEF ImageOK, Unused, Active, Images
  <2>4. \A p \in Pids : live'[p] <= born'[p]
    BY <1>0, <2>1, <2>2 DEF Images, Lives
  <2>5. QED
    BY <2>3, <2>4 DEF Images
<1>10. QED
  BY <1>2, <1>3, <1>5, <1>6, <1>7, <1>8, <1>9 DEF Evictor

\* the recovery manager,
LEMMA RestorePassImages ==
    ASSUME TypeInv, Apart, Settled, Images, RestorePass
    PROVE  Images'
<1>0. /\ TypeOK
      /\ rec.pc # "idle" => rec.pid \in Pids /\ entry[rec.pid].name \in Names
      /\ rec \in RecStates /\ dir \in [Pids -> [Names -> Snapshots]]
      /\ live \in [Pids -> Lives] /\ born \in [Pids -> Lives] /\ entry \in [Pids -> Entries]
      /\ ev' = ev
  BY DEF TypeInv, TypeOK, LocalsOK, Recorded, Entries, RestorePass, RecRestore, RecFails,
     RecClean, RecDrop, RecGiveUp, RecTake
<1>1. ASSUME NEW p \in Pids, NEW n \in Names, Recorded(p), Active(p, n)
      PROVE  entry[p].name = n /\ ~Busy(p)
  <2>1. ~Busy(p)
    BY <1>1 DEF Apart, InHand
  <2>2. QED
    BY <1>1, <2>1 DEF Busy, Active
<1>2. CASE RecRestore
  <2> PICK q \in Pids, m \in Names : q = rec.pid /\ m = entry[q].name
    BY <1>0, <1>2 DEF RecRestore
  <2>1. /\ rec.pc = "restore" /\ rec'.pc = "clean" /\ rec'.pid = q /\ m = entry[q].name
        /\ dir[q][m].gen # 0 /\ live[q] = 0 /\ UNCHANGED <<born, entry>>
        /\ Restored(q, m) /\ Recorded(q)
    BY <1>0, <1>2, NamesAssumption DEF RecRestore, CanRestore, RecStates, Recorded
  <2>2. Unused(q, m) /\ \A n \in Names \ {m} : ~Unused(q, n) /\ ~Active(q, n)
    BY <1>1, <2>1 DEF Images, ImageOK, Active
  <2>3. live'[q] = dir[q][m].gen /\ \A p \in Pids \ {q} : live'[p] = live[p]
    BY <1>0, <2>1 DEF Restored
  <2>4. ~Unused(q, m)' /\ \A n \in Names \ {m} : dir'[q][n] = dir[q][n]
    BY <1>0, <2>1, RestoredDirs DEF Unused
  <2>5. \A p \in Pids \ {q} : dir'[p] = dir[p]
    BY <1>0, <2>1 DEF Restored
  <2>6. ASSUME NEW n \in Names PROVE ImageOK(q, n)'
    <3>1. CASE n = m
      BY <2>1, <2>4, <3>1 DEF ImageOK
    <3>2. CASE n # m
      BY <1>0, <2>1, <2>2, <2>4, <3>2 DEF ImageOK, Unused, Active
    <3>3. QED
      BY <3>1, <3>2
  <2>7. ASSUME NEW p \in Pids \ {q}, NEW n \in Names PROVE ImageOK(p, n)'
    BY <1>0, <2>1, <2>3, <2>5 DEF ImageOK, Unused, Active, Images
  <2>8. \A p \in Pids : live'[p] <= born'[p]
    BY <2>1, <2>2, <2>3 DEF Images, ImageOK
  <2>9. QED
    BY <2>6, <2>7, <2>8 DEF Images
<1>3. CASE RecFails \/ \E p \in Pids : RecTake(p)
  <2>1. /\ UNCHANGED <<live, born, dir>> /\ rec.pc \notin {"clean", "drop"}
        /\ \A p \in Pids : entry'[p].name = entry[p].name
    <3>1. CASE RecFails
      BY <1>0, <3>1 DEF RecFails, procs, Entries
    <3>2. CASE \E p \in Pids : RecTake(p)
      BY <3>2 DEF RecTake, Unlocked, procs
    <3>3. QED
      BY <1>3, <3>1, <3>2
  <2>2. QED
    BY <1>0, <2>1 DEF Images, ImageOK, Unused, Active
<1>4. CASE RecClean
  <2>1. /\ rec.pc = "clean" /\ rec'.pc = "drop" /\ rec'.pid = rec.pid
        /\ UNCHANGED <<live, born, entry>> /\ RemoveDir(rec.pid, entry[rec.pid].name)
    BY <1>0, <1>4 DEF RecClean, procs, RecStates
  <2>2. \A p \in Pids, n \in Names : Unused(p, n)' => Unused(p, n) /\ dir'[p][n] = dir[p][n]
    BY <1>0, <2>1, RemovedDirs DEF Unused, NoDir
  <2>3. ~Unused(rec.pid, entry[rec.pid].name)
    BY <2>1 DEF Settled, Unused
  <2>4. \A p \in Pids, n \in Names :
            Unused(p, n) /\ (p # rec.pid \/ n # entry[rec.pid].name) => Unused(p, n)'
    BY <1>0, <2>1, RemovedDirs DEF Unused
  <2>5. QED
    BY <1>0, <2>1, <2>2, <2>3, <2>4 DEF Images, ImageOK, Active
<1>5. CASE RecDrop
  <2> PICK q \in Pids : q = rec.pid
    BY <1>0, <1>5 DEF RecDrop
  <2>1. /\ rec.pc = "drop" /\ rec'.pc = "idle" /\ UNCHANGED <<live, born, dir>>
        /\ entry'[q].name = NoName /\ \A p \in Pids \ {q} : entry'[p] = entry[p]
        /\ Recorded(q)
    BY <1>0, <1>5 DEF RecDrop, RecIdle, procs, RemoveEntry, NoEntry, Recorded
  <2>2. \A n \in Names : ~Unused(q, n)
    BY <1>0, <1>1, <2>1 DEF Settled, Images, ImageOK, Unused
  <2>3. \A n \in Names : ~Active(q, n)'
    BY <1>0, <1>1, <2>1 DEF Active, Apart, InHand, Busy
  <2>4. QED
    BY <1>0, <2>1, <2>2, <2>3 DEF Images, ImageOK, Unused, Active
<1>6. ASSUME NEW q \in Pids, RecGiveUp(q)
      PROVE  Images'
  <2>1. /\ Recorded(q) /\ UNCHANGED <<live, born, rec>> /\ RemoveDir(q, entry[q].name)
        /\ entry'[q].name = NoName /\ \A p \in Pids \ {q} : entry'[p] = entry[p]
        /\ entry[q].name \in Names
    BY <1>0, <1>6 DEF RecGiveUp, RemoveEntry, NoEntry, procs, Recorded, Entries
  <2>2. \A n \in Names : ~Active(q, n)'
    BY <1>0, <2>1 DEF Active, Apart, InHand, Busy
  <2>3. \A n \in Names : ~Unused(q, n)'
    BY <1>0, <1>1, <2>1, RemovedDirs DEF Images, ImageOK, Unused, NoDir
  <2>4. \A p \in Pids \ {q} : dir'[p] = dir[p]
    BY <1>0, <2>1 DEF RemoveDir
  <2>5. QED
    BY <1>0, <2>1, <2>2, <2>3, <2>4 DEF Images, ImageOK, Unused, Active
<1>7. QED
  BY <1>2, <1>3, <1>4, <1>5, <1>6 DEF RestorePass

\* and the rest of the world keep the images so, as long as no pid of a snapshot is reused.
LEMMA EnvironmentImages ==
    ASSUME TypeInv, Images, Reuse = FALSE, MayCrash = FALSE, TornSaves = FALSE,
           Halt \/ Start \/ \E p \in Pids : Exit(p) \/ Birth(p)
    PROVE  Images'
<1>0. /\ dir \in [Pids -> [Names -> Snapshots]]
      /\ live \in [Pids -> Lives] /\ born \in [Pids -> Lives] /\ entry \in [Pids -> Entries]
  BY DEF TypeInv, TypeOK
<1>1. CASE Halt
  <2>1. ev.pc = "idle" /\ rec.pc = "idle" /\ ev'.pc = "idle" /\ UNCHANGED <<live, born, dir, entry>>
    BY <1>1 DEF Halt, EvIdle, procs
  <2>2. QED
    BY <2>1 DEF Images, ImageOK, Unused, Active
<1>2. CASE Start
  <2>1. /\ ev.pc = "idle" /\ rec.pc = "idle" /\ UNCHANGED <<live, born, entry, ev, rec>>
        /\ \A p \in Pids, n \in Names :
              dir'[p][n] = IF entry[p].name = n THEN dir[p][n] ELSE NoDir
    BY <1>2 DEF Start, TypeInv, LocalsOK, EvIdle, RecIdle, procs
  <2>2. QED
    BY <2>1 DEF Images, ImageOK, Unused, Active, NoDir
<1>3. ASSUME NEW q \in Pids, Exit(q)
      PROVE  Images'
  <2>1. /\ \A p \in Pids : live'[p] \in {0, live[p]}
        /\ UNCHANGED <<born, dir, entry, ev, rec>>
    BY <1>0, <1>3 DEF Exit
  <2>2. QED
    BY <1>0, <2>1 DEF Images, ImageOK, Unused, Active, Lives
<1>4. ASSUME NEW q \in Pids, Birth(q)
      PROVE  Images'
  <2>1. /\ ~Recorded(q) /\ ~Busy(q) /\ UNCHANGED <<dir, entry, ev, rec>>
        /\ live'[q] = born[q] + 1 /\ born'[q] = born[q] + 1
        /\ \A p \in Pids \ {q} : live'[p] = live[p] /\ born'[p] = born[p]
    BY <1>0, <1>4 DEF Birth
  <2>2. \A n \in Names : ~Active(q, n) /\ ~Unused(q, n)
    BY <2>1 DEF Images, ImageOK, Active, Recorded, Busy
  <2>3. QED
    BY <1>0, <2>1, <2>2 DEF Images, ImageOK, Unused, Active, Lives
<1>5. QED
  BY <1>1, <1>2, <1>3, <1>4

\* So does every step, while there are no commands.
LEMMA ImagesStep ==
    ASSUME TypeInv, Apart, Settled, Images, [Next]_vars,
           Restorers = {}, Reuse = FALSE, MayCrash = FALSE, TornSaves = FALSE
    PROVE  Images'
<1>1. CASE UNCHANGED vars
  BY <1>1 DEF vars, Images, ImageOK, Unused, Active
<1>2. QED
  BY <1>1, EvictorImages, RestorePassImages, EnvironmentImages DEF Next

-----------------------------------------------------------------------------
\* Under Images the states of ReversibleEviction are read off the snapshots alone.
Saved(p, g) == \E n \in Names : Unused(p, n) /\ dir[p][n].gen = g

\* Being an unused image of g, by fields.
LEMMA UnusedImage ==
    ASSUME NEW r \in Snapshots, NEW g \in Gens
    PROVE  r = [gen |-> g, spent |-> FALSE] <=> r.gen # 0 /\ ~r.spent /\ r.gen = g
<1>1. r = [gen |-> r.gen, spent |-> r.spent] /\ r.spent \in BOOLEAN
  BY DEF Snapshots
<1>2. g # 0
  BY DEF Gens
<1>3. QED
  BY <1>1, <1>2

\* A process is recoverable just when an unused image of it lies in some directory.
LEMMA SavedIsRecoverable ==
    ASSUME TypeInv, TypeInv', Images, Images', NEW p \in Pids, NEW g \in Gens
    PROVE  /\ Recoverable(p, g) <=> Saved(p, g)
           /\ Recoverable(p, g)' <=> Saved(p, g)'
<1>1. \A n \in Names : dir[p][n] \in Snapshots /\ dir'[p][n] \in Snapshots
  BY DEF TypeInv, TypeOK
<1>2. /\ \A n \in Names : Unused(p, n) => Active(p, n)
      /\ \A n \in Names : Unused(p, n)' => Active(p, n)'
  BY DEF Images, ImageOK
<1>3. Recoverable(p, g) <=> Saved(p, g)
  BY <1>1, <1>2, UnusedImage DEF Recoverable, Saved, Active, Unused
<1>4. Recoverable(p, g)' <=> Saved(p, g)'
  BY <1>1, <1>2, UnusedImage DEF Recoverable, Saved, Active, Unused
<1>5. QED
  BY <1>3, <1>4

\* No process has two snapshots.
LEMMA OneSnapshot ==
    ASSUME TypeInv, Apart, Images, NEW p \in Pids, NEW n \in Names, NEW m \in Names,
           Unused(p, n), Unused(p, m)
    PROVE  n = m
<1>1. Active(p, n) /\ Active(p, m)
  BY DEF Images, ImageOK
<1>2. Busy(p) => entry[p].name = NoName
  BY DEF Apart, InHand, Recorded
<1>3. QED
  BY <1>1, <1>2 DEF Active, Busy

\* The abstract state, as two functions.
AbsState == [i \in Pids \X Gens |-> State(i[1], i[2])]
AbsTries == [i \in Pids \X Gens |-> Tries(i[1], i[2])]

\* p looks the same to ReversibleEviction: same snapshots, same lives, and the same attempts
\* if it has a snapshot.
Same(p) ==
    /\ \A n \in Names : Unused(p, n)' <=> Unused(p, n)
    /\ \A n \in Names : Unused(p, n) => dir'[p][n].gen = dir[p][n].gen
    /\ live'[p] = live[p] /\ born'[p] = born[p]
    /\ (\E n \in Names : Unused(p, n)) =>
          \/ entry'[p] = entry[p]
          \/ ~Recorded(p) /\ (Recorded(p)' => entry'[p].attempts = 0)

\* A pid that looks the same has processes in the same abstract states.
LEMMA SameMeans ==
    ASSUME TypeInv, TypeInv', Images, Images', NEW p \in Pids, Same(p), NEW g \in Gens
    PROVE  State(p, g)' = State(p, g) /\ Tries(p, g)' = Tries(p, g)
<1>1. (Recoverable(p, g) <=> Saved(p, g)) /\ (Recoverable(p, g)' <=> Saved(p, g)')
  BY SavedIsRecoverable
<1>2. Saved(p, g)' <=> Saved(p, g)
  BY DEF Saved, Same
<1>3. State(p, g)' = State(p, g)
  BY <1>1, <1>2 DEF State, Same
<1>4. Tries(p, g)' = Tries(p, g)
  BY <1>1, <1>2 DEF Tries, Same, Saved, Recorded
<1>5. QED
  BY <1>3, <1>4

\* If all pids look the same the step is a stutter of ReversibleEviction.
LEMMA AllSame ==
    ASSUME TypeInv, TypeInv', Images, Images', \A p \in Pids : Same(p)
    PROVE  UNCHANGED <<AbsState, AbsTries>>
BY SameMeans DEF AbsState, AbsTries

\* When one process alone changes its state, so do the functions at one place.
LEMMA OneMoves ==
    ASSUME TypeInv, TypeInv', Images, Images', NEW p \in Pids, NEW g \in Gens,
           \A q \in Pids \ {p} : Same(q),
           \A h \in Gens \ {g} : State(p, h)' = State(p, h) /\ Tries(p, h)' = Tries(p, h)
    PROVE  /\ AbsState' = [AbsState EXCEPT ![<<p, g>>] = State(p, g)']
           /\ AbsTries' = [AbsTries EXCEPT ![<<p, g>>] = Tries(p, g)']
           /\ Tries(p, g)' = Tries(p, g) => UNCHANGED AbsTries
           /\ State(p, g)' = State(p, g) => UNCHANGED AbsState
<1>1. \A q \in Pids, h \in Gens : <<q, h>> # <<p, g>> =>
         State(q, h)' = State(q, h) /\ Tries(q, h)' = Tries(q, h)
  BY SameMeans
<1>2. \A i \in (Pids \X Gens) \ {<<p, g>>} :
         State(i[1], i[2])' = State(i[1], i[2]) /\ Tries(i[1], i[2])' = Tries(i[1], i[2])
  BY <1>1
<1>3. AbsState' = [AbsState EXCEPT ![<<p, g>>] = State(p, g)']
  <2>1. \A i \in Pids \X Gens : i = <<p, g>> => State(i[1], i[2])' = State(p, g)'
    OBVIOUS
  <2>2. AbsState' = [i \in Pids \X Gens |-> IF i = <<p, g>> THEN State(p, g)' ELSE AbsState[i]]
    BY <1>2, <2>1 DEF AbsState
  <2>3. DOMAIN AbsState = Pids \X Gens /\ AbsState = [i \in Pids \X Gens |-> AbsState[i]]
    BY DEF AbsState
  <2>4. QED
    BY <2>2, <2>3
<1>4. AbsTries' = [AbsTries EXCEPT ![<<p, g>>] = Tries(p, g)']
  <2>1. \A i \in Pids \X Gens : i = <<p, g>> => Tries(i[1], i[2])' = Tries(p, g)'
    OBVIOUS
  <2>2. AbsTries' = [i \in Pids \X Gens |-> IF i = <<p, g>> THEN Tries(p, g)' ELSE AbsTries[i]]
    BY <1>2, <2>1 DEF AbsTries
  <2>3. DOMAIN AbsTries = Pids \X Gens /\ AbsTries = [i \in Pids \X Gens |-> AbsTries[i]]
    BY DEF AbsTries
  <2>4. QED
    BY <2>2, <2>3
<1>5. State(p, g)' = State(p, g) => UNCHANGED AbsState
  BY <1>2 DEF AbsState
<1>6. Tries(p, g)' = Tries(p, g) => UNCHANGED AbsTries
  BY <1>2 DEF AbsTries
<1>7. QED
  BY <1>3, <1>4, <1>5, <1>6

\* The state of a process that has or has not a snapshot.
LEMMA StateIs ==
    ASSUME TypeInv, TypeInv', Images, Images', NEW p \in Pids, NEW g \in Gens
    PROVE  /\ Saved(p, g) => State(p, g) = "saved"
           /\ Saved(p, g)' => State(p, g)' = "saved"
           /\ ~Saved(p, g) => /\ live[p] = g => State(p, g) = "live"
                              /\ live[p] # g /\ g <= born[p] => State(p, g) = "gone"
                              /\ live[p] # g /\ ~(g <= born[p]) => State(p, g) = "unborn"
                              /\ Tries(p, g) = 0
           /\ ~Saved(p, g)' => /\ live'[p] = g => State(p, g)' = "live"
                               /\ live'[p] # g /\ g <= born'[p] => State(p, g)' = "gone"
                               /\ live'[p] # g /\ ~(g <= born'[p]) => State(p, g)' = "unborn"
                               /\ Tries(p, g)' = 0
BY SavedIsRecoverable DEF State, Tries

\* A process has at most one snapshot, so one of its instances is saved.
LEMMA SavedOnce ==
    ASSUME TypeInv, Apart, Images, NEW p \in Pids, NEW n \in Names, Unused(p, n), NEW g \in Gens
    PROVE  Saved(p, g) <=> dir[p][n].gen = g
BY OneSnapshot DEF Saved

\* One change of state, as the actions of ReversibleEviction have it.
LEMMA Moves ==
    ASSUME TypeInv, TypeInv', Images, Images', NEW p \in Pids, NEW g \in Gens,
           \A q \in Pids \ {p} : Same(q),
           \A h \in Gens \ {g} : State(p, h)' = State(p, h) /\ Tries(p, h)' = Tries(p, h),
           \/ <<State(p, g), State(p, g)'>> \in
                 {<<"unborn", "live">>, <<"live", "gone">>, <<"live", "saved">>}
              /\ Tries(p, g)' = Tries(p, g)
           \/ State(p, g) = "saved" /\ State(p, g)' = "live" /\ Tries(p, g)' = 0
           \/ State(p, g) = "saved" /\ State(p, g)' = "gone" /\ Tries(p, g)' = 0
              /\ Tries(p, g) = MaxTries
           \/ State(p, g) = "saved" /\ State(p, g)' = "saved" /\ Tries(p, g) < MaxTries
              /\ Tries(p, g)' = Tries(p, g) + 1
    PROVE  Reversible!Next
<1> DEFINE i == <<p, g>>
<1>1. /\ AbsState' = [AbsState EXCEPT ![i] = State(p, g)']
      /\ AbsTries' = [AbsTries EXCEPT ![i] = Tries(p, g)']
      /\ Tries(p, g)' = Tries(p, g) => UNCHANGED AbsTries
      /\ State(p, g)' = State(p, g) => UNCHANGED AbsState
  BY OneMoves
<1>2. i \in Pids \X Gens /\ AbsState[i] = State(p, g) /\ AbsTries[i] = Tries(p, g)
  BY DEF AbsState, AbsTries
<1>3. /\ State(p, g) = "unborn" /\ State(p, g)' = "live" /\ UNCHANGED AbsTries => Reversible!Begin(i)
      /\ State(p, g) = "live" /\ State(p, g)' = "gone" /\ UNCHANGED AbsTries => Reversible!Finish(i)
      /\ State(p, g) = "live" /\ State(p, g)' = "saved" /\ UNCHANGED AbsTries => Reversible!Save(i)
  BY <1>1, <1>2 DEF Reversible!Begin, Reversible!Finish, Reversible!Save, Reversible!Become,
     AbsState, AbsTries
<1>4. State(p, g) = "saved" /\ State(p, g)' = "live" /\ Tries(p, g)' = 0 => Reversible!Restore(i)
  BY <1>1, <1>2 DEF Reversible!Restore, Reversible!Become, AbsState, AbsTries
<1>5. State(p, g) = "saved" /\ State(p, g)' = "gone" /\ Tries(p, g)' = 0 /\ Tries(p, g) = MaxTries
         => Reversible!GiveUp(i)
  BY <1>1, <1>2 DEF Reversible!GiveUp, Reversible!Become, AbsState, AbsTries
<1>6. ASSUME State(p, g) = "saved", State(p, g)' = State(p, g), Tries(p, g) < MaxTries,
             Tries(p, g)' = Tries(p, g) + 1
      PROVE  Reversible!Fail(i)
  <2>1. AbsTries' = [AbsTries EXCEPT ![i] = AbsTries[i] + 1] /\ UNCHANGED AbsState
    BY <1>1, <1>2, <1>6
  <2>2. QED
    BY <1>2, <1>6, <2>1 DEF Reversible!Fail, AbsState, AbsTries
<1>7. QED
  BY <1>1, <1>2, <1>3, <1>4, <1>5, <1>6 DEF Reversible!Next

\* A pid none of whose variables change looks the same.
LEMMA Untouched ==
    ASSUME NEW p \in Pids, dir'[p] = dir[p], entry'[p] = entry[p], live'[p] = live[p],
           born'[p] = born[p]
    PROVE  Same(p)
BY DEF Same, Unused

\* An instance that is not saved, and lives or has lived as before.
LEMMA NotMoved ==
    ASSUME TypeInv, TypeInv', Images, Images', NEW p \in Pids, NEW h \in Gens,
           ~Saved(p, h), ~Saved(p, h)', live[p] = h <=> live'[p] = h,
           h <= born[p] <=> h <= born'[p]
    PROVE  State(p, h)' = State(p, h) /\ Tries(p, h)' = Tries(p, h)
<1>1. State(p, h)' = State(p, h)
  <2>1. CASE live[p] = h
    BY <2>1, StateIs
  <2>2. CASE live[p] # h /\ h <= born[p]
    BY <2>2, StateIs
  <2>3. CASE live[p] # h /\ ~(h <= born[p])
    BY <2>3, StateIs
  <2>4. QED
    BY <2>1, <2>2, <2>3
<1>2. Tries(p, h)' = Tries(p, h)
  BY StateIs
<1>3. QED
  BY <1>1, <1>2

\* A dump saves, a SIGKILL ends, and the other steps of the evictor change nothing.
LEMMA EvictorMoves ==
    ASSUME TypeInv, TypeInv', Apart, Images, Images', Evictor
    PROVE  Reversible!Next \/ UNCHANGED <<AbsState, AbsTries>>
<1>0. /\ TypeOK
      /\ ev.pc # "idle" => ev.pid \in Pids /\ ev.name \in Names
      /\ ev \in EvStates /\ dir \in [Pids -> [Names -> Snapshots]]
      /\ live \in [Pids -> Lives] /\ born \in [Pids -> Lives] /\ entry \in [Pids -> Entries]
      /\ \A p \in Pids : live[p] # 0 => live[p] \in Gens /\ live[p] <= born[p]
  BY DEF TypeInv, TypeOK, LocalsOK, Images, Lives, Gens
<1>1. CASE EvPlan \/ \E p \in Pids, n \in Names : EvSkip(p, n)
  <2>1. UNCHANGED <<dir, entry, live, born>>
    BY <1>1 DEF EvPlan, EvSkip, procs
  <2>2. QED
    BY <2>1, Untouched, AllSame
<1>2. ASSUME NEW q \in Pids, NEW m \in Names, Decided(q, m)
      PROVE  \A n \in Names : ~Unused(q, n)
  <2>1. InHand(q) /\ entry[q].name = NoName /\ rec.pid # q /\ ev.pc = "idle"
    BY <1>2 DEF Apart, InHand, Decided, Recorded
  <2>2. QED
    BY <2>1 DEF Active, Images, ImageOK
<1>3. ASSUME NEW q \in Pids, NEW m \in Names, EvDump(q, m)
      PROVE  Reversible!Next
  <2> PICK g \in Gens : g = live[q]
    BY <1>0, <1>3 DEF EvDump
  <2>1. /\ UNCHANGED <<live, born, entry>> /\ \A p \in Pids \ {q} : dir'[p] = dir[p]
        /\ dir'[q][m] = [gen |-> g, spent |-> FALSE]
        /\ \A n \in Names \ {m} : dir'[q][n] = dir[q][n]
        /\ ~Recorded(q)
    BY <1>0, <1>3 DEF EvDump, procs, Apart, InHand, Decided
  <2>2. \A h \in Gens : ~Saved(q, h) /\ (Saved(q, h)' <=> h = g)
    BY <1>2, <1>3, <2>1 DEF EvDump, Saved, Unused, Gens
  <2>3. \A p \in Pids \ {q} : Same(p)
    BY <2>1, Untouched
  <2>4. \A h \in Gens \ {g} : State(q, h)' = State(q, h) /\ Tries(q, h)' = Tries(q, h)
    BY <2>1, <2>2, NotMoved
  <2>5. State(q, g) = "live" /\ State(q, g)' = "saved" /\ Tries(q, g) = 0
    BY <2>2, StateIs
  <2>6. Tries(q, g)' = 0
    BY <2>1 DEF Tries, Recorded
  <2>7. QED
    BY <2>3, <2>4, <2>5, <2>6, Moves
<1>4. ASSUME NEW q \in Pids, NEW m \in Names, EvDumpFails(q, m)
      PROVE  UNCHANGED <<AbsState, AbsTries>>
  <2>1. /\ UNCHANGED <<live, born, entry>> /\ \A p \in Pids \ {q} : dir'[p] = dir[p]
        /\ \A n \in Names : dir'[q][n] \in {dir[q][n], NoDir}
    BY <1>0, <1>4 DEF EvDumpFails, RemoveDir, procs
  <2>2. \A n \in Names : ~Unused(q, n) /\ ~Unused(q, n)'
    BY <1>2, <1>4, <2>1 DEF EvDumpFails, Unused, NoDir
  <2>3. Same(q)
    BY <2>1, <2>2 DEF Same
  <2>4. QED
    BY <2>1, <2>3, Untouched, AllSame
<1>5. CASE EvKill
  <2> PICK q \in Pids, m \in Names : q = ev.pid /\ m = ev.name
    BY <1>0, <1>5 DEF EvKill
  <2>1. /\ UNCHANGED <<born, dir, entry>> /\ ev.pc = "kill"
        /\ live'[q] = 0 /\ \A p \in Pids \ {q} : live'[p] = live[p]
    BY <1>0, <1>5 DEF EvKill
  <2>2. Unused(q, m) /\ (live[q] = 0 \/ live[q] = dir[q][m].gen)
    <3>1. Active(q, m) /\ rec.pid # q
      BY <2>1 DEF Active, Apart, InHand, Busy
    <3>2. Unused(q, m)
      BY <3>1 DEF Images, ImageOK
    <3>3. QED
      BY <3>2 DEF Images, ImageOK
  <2>3. \A h \in Gens : Saved(q, h)' <=> Saved(q, h)
    BY <2>1 DEF Saved, Unused
  <2>4. \A h \in Gens : Saved(q, h) <=> dir[q][m].gen = h
    BY <2>2, SavedOnce
  <2>5. ASSUME NEW h \in Gens
        PROVE  State(q, h)' = State(q, h) /\ Tries(q, h)' = Tries(q, h)
    <3>1. CASE Saved(q, h)
      BY <2>1, <2>3, <3>1, StateIs, SavedIsRecoverable DEF Tries, Recorded
    <3>2. CASE ~Saved(q, h)
      <4>1. live[q] # h /\ live'[q] # h
        BY <2>1, <2>2, <2>4, <3>2 DEF Gens
      <4>2. QED
        BY <2>1, <2>3, <3>2, <4>1, NotMoved
    <3>3. QED
      BY <3>1, <3>2
  <2>6. \A p \in Pids \ {q} : Same(p)
    BY <2>1, Untouched
  <2>7. 1 \in Gens
    BY DEF Gens
  <2>8. QED
    BY <2>5, <2>6, <2>7, OneMoves
<1>6. CASE EvAdd
  <2> PICK q \in Pids : q = ev.pid
    BY <1>0, <1>6 DEF EvAdd
  <2>1. /\ UNCHANGED <<born, dir, live>> /\ ev.pc = "add"
        /\ entry'[q].attempts = 0 /\ \A p \in Pids \ {q} : entry'[p] = entry[p]
    BY <1>0, <1>6 DEF EvAdd, procs
  <2>2. ~Recorded(q)
    BY <2>1 DEF Apart, InHand, Busy
  <2>3. Same(q)
    BY <2>1, <2>2 DEF Same, Unused
  <2>4. QED
    BY <2>1, <2>3, Untouched, AllSame
<1>7. CASE EvFallback
  <2> PICK q \in Pids : q = ev.pid
    BY <1>0, <1>7 DEF EvFallback
  <2>1. /\ UNCHANGED <<born, dir, entry>> /\ ev.pc = "fallback" /\ live'[q] \in {0, live[q]}
        /\ \A p \in Pids \ {q} : live'[p] = live[p]
    BY <1>0, <1>7 DEF EvFallback
  <2>2. \A p \in Pids \ {q} : Same(p)
    BY <2>1, Untouched
  <2>3. CASE live'[q] = live[q]
    BY <2>1, <2>2, <2>3, Untouched, AllSame
  <2>4. CASE live'[q] = 0 /\ live[q] # 0
    <3> PICK g \in Gens : g = live[q] /\ g <= born[q]
      BY <1>0, <2>4
    <3>1. \A h \in Gens : ~Saved(q, h) /\ ~Saved(q, h)'
      BY <2>1, <2>4 DEF Images, ImageOK, Saved, Unused
    <3>2. \A h \in Gens \ {g} : State(q, h)' = State(q, h) /\ Tries(q, h)' = Tries(q, h)
      BY <2>1, <2>4, <3>1, NotMoved DEF Gens
    <3>3. State(q, g) = "live" /\ State(q, g)' = "gone" /\ Tries(q, g)' = Tries(q, g)
      BY <2>1, <2>4, <3>1, StateIs DEF Gens
    <3>4. QED
      BY <2>2, <3>2, <3>3, Moves
  <2>5. QED
    BY <2>1, <2>3, <2>4
<1>8. QED
  BY <1>1, <1>3, <1>4, <1>5, <1>6, <1>7 DEF Evictor

\* A restore brings back what was saved; an entry is given up only after MaxTries failures.
LEMMA RestorePassMoves ==
    ASSUME TypeInv, TypeInv', Apart, Settled, Images, Images', RestorePass
    PROVE  Reversible!Next \/ UNCHANGED <<AbsState, AbsTries>>
<1>0. /\ TypeOK
      /\ rec.pc # "idle" => rec.pid \in Pids /\ entry[rec.pid].name \in Names
      /\ rec.pc = "restore" => entry[rec.pid].attempts < MaxTries
      /\ rec \in RecStates /\ dir \in [Pids -> [Names -> Snapshots]]
      /\ live \in [Pids -> Lives] /\ born \in [Pids -> Lives] /\ entry \in [Pids -> Entries]
      /\ ev' = ev
  BY DEF TypeInv, TypeOK, LocalsOK, Recorded, Entries, RestorePass, RecRestore, RecFails,
     RecClean, RecDrop, RecGiveUp, RecTake
<1>1. ASSUME NEW p \in Pids, Recorded(p), rec.pc \notin {"clean", "drop"} \/ rec.pid # p
      PROVE  entry[p].name \in Names /\ Unused(p, entry[p].name) /\ live[p] = 0
  <2>1. entry[p].name \in Names /\ ~Busy(p)
    BY <1>0, <1>1 DEF Apart, InHand, Recorded, Entries
  <2>2. Unused(p, entry[p].name)
    BY <1>1, <2>1 DEF Images, ImageOK, Active
  <2>3. QED
    BY <2>1, <2>2 DEF Images, ImageOK, Busy
<1>2. ASSUME NEW q \in Pids, NEW m \in Names, Unused(q, m)
      PROVE  \E g \in Gens : g = dir[q][m].gen /\ g <= born[q] /\ Saved(q, g)
                             /\ \A h \in Gens \ {g} : ~Saved(q, h)
  <2>1. dir[q][m].gen \in Gens
    BY <1>0, <1>2 DEF Unused, Snapshots, Lives, Gens
  <2>2. dir[q][m].gen <= born[q]
    BY <1>2 DEF Images, ImageOK
  <2>3. QED
    BY <1>2, <2>1, <2>2, SavedOnce
<1>3. CASE RecRestore
  <2> PICK q \in Pids, m \in Names : q = rec.pid /\ m = entry[q].name
    BY <1>0, <1>3 DEF RecRestore
  <2>1. /\ UNCHANGED <<born, entry>> /\ live[q] = 0 /\ Restored(q, m) /\ Recorded(q)
        /\ rec.pc = "restore"
    BY <1>0, <1>3, NamesAssumption DEF RecRestore, CanRestore, Recorded
  <2>2. PICK g \in Gens : g = dir[q][m].gen /\ g <= born[q] /\ Saved(q, g)
                          /\ \A h \in Gens \ {g} : ~Saved(q, h)
    BY <1>1, <1>2, <2>1
  <2>3. live'[q] = g /\ \A p \in Pids \ {q} : live'[p] = live[p] /\ dir'[p] = dir[p]
    BY <1>0, <2>1, <2>2 DEF Restored
  <2>4. \A h \in Gens : ~Saved(q, h)'
    <3>1. live'[q] # 0 /\ ~Busy(q)'
      BY <1>0, <2>1, <2>2, <2>3 DEF Apart, InHand, Busy, Gens
    <3>2. \A n \in Names : ~Unused(q, n)'
      BY <3>1 DEF Images, ImageOK, Busy
    <3>3. QED
      BY <3>2 DEF Saved
  <2>5. \A h \in Gens \ {g} : State(q, h)' = State(q, h) /\ Tries(q, h)' = Tries(q, h)
    BY <2>1, <2>2, <2>3, <2>4, NotMoved DEF Gens
  <2>6. State(q, g) = "saved" /\ State(q, g)' = "live" /\ Tries(q, g)' = 0
    BY <2>2, <2>3, <2>4, StateIs
  <2>7. \A p \in Pids \ {q} : Same(p)
    BY <2>1, <2>3, Untouched
  <2>8. QED
    BY <2>5, <2>6, <2>7, Moves
<1>4. CASE RecFails
  <2> PICK q \in Pids : q = rec.pid
    BY <1>0, <1>4 DEF RecFails
  <2>1. /\ UNCHANGED <<born, live, dir>> /\ Recorded(q) /\ rec.pc = "restore"
        /\ entry[q].attempts < MaxTries /\ entry'[q].attempts = entry[q].attempts + 1
        /\ entry'[q].name = entry[q].name /\ entry[q].attempts \in Nat
        /\ \A p \in Pids \ {q} : entry'[p] = entry[p]
    BY <1>0, <1>4 DEF RecFails, Recorded, Entries, procs
  <2>2. PICK g \in Gens : Saved(q, g) /\ \A h \in Gens \ {g} : ~Saved(q, h)
    BY <1>1, <1>2, <2>1
  <2>3. \A h \in Gens : Saved(q, h)' <=> Saved(q, h)
    BY <2>1 DEF Saved, Unused
  <2>4. \A h \in Gens \ {g} : State(q, h)' = State(q, h) /\ Tries(q, h)' = Tries(q, h)
    BY <2>1, <2>2, <2>3, NotMoved
  <2>5. State(q, g) = "saved" /\ State(q, g)' = "saved"
    BY <2>2, <2>3, StateIs
  <2>6. Tries(q, g) = entry[q].attempts /\ Tries(q, g)' = entry'[q].attempts
    BY <2>1, <2>2, <2>3, SavedIsRecoverable DEF Tries, Recorded
  <2>7. \A p \in Pids \ {q} : Same(p)
    BY <2>1, Untouched
  <2>8. QED
    BY <2>1, <2>4, <2>5, <2>6, <2>7, Moves
<1>5. CASE RecClean
  <2> PICK q \in Pids, m \in Names : q = rec.pid /\ m = entry[q].name
    BY <1>0, <1>5 DEF RecClean
  <2>1. UNCHANGED <<born, live, entry>> /\ RemoveDir(q, m) /\ ~Unused(q, m)
    BY <1>5 DEF RecClean, procs, Settled, Unused
  <2>2. \A p \in Pids, n \in Names : <<p, n>> # <<q, m>> => dir'[p][n] = dir[p][n]
    BY <1>0, <2>1, RemovedDirs
  <2>3. ~Unused(q, m)'
    BY <1>0, <2>1, RemovedDirs DEF Unused, NoDir
  <2>4. \A p \in Pids : Same(p)
    BY <2>1, <2>2, <2>3 DEF Same, Unused
  <2>5. QED
    BY <2>4, AllSame
<1>6. CASE RecDrop
  <2> PICK q \in Pids : q = rec.pid
    BY <1>0, <1>6 DEF RecDrop
  <2>1. /\ UNCHANGED <<born, live, dir>> /\ rec.pc = "drop" /\ Recorded(q)
        /\ \A p \in Pids \ {q} : entry'[p] = entry[p]
    BY <1>0, <1>6 DEF RecDrop, RemoveEntry, procs, Recorded
  <2>2. \A n \in Names : ~Unused(q, n)
    <3>1. ~Busy(q) /\ dir[q][entry[q].name].gen = 0
      BY <2>1 DEF Apart, InHand, Settled
    <3>2. QED
      BY <3>1 DEF Images, ImageOK, Active, Unused, Busy
  <2>3. Same(q)
    BY <2>1, <2>2 DEF Same, Unused
  <2>4. QED
    BY <2>1, <2>3, Untouched, AllSame
<1>7. ASSUME NEW q \in Pids, RecGiveUp(q)
      PROVE  Reversible!Next
  <2> PICK m \in Names : m = entry[q].name
    BY <1>0, <1>7, <1>1 DEF RecGiveUp, Unlocked
  <2>1. /\ UNCHANGED <<born, live>> /\ RemoveDir(q, m) /\ Recorded(q) /\ rec.pc = "idle"
        /\ entry[q].attempts = MaxTries /\ \A p \in Pids \ {q} : entry'[p] = entry[p]
    <3>1. entry[q].attempts \in 0..MaxTries /\ MaxTries \in Nat
      BY <1>0, BoundsAssumption DEF Entries
    <3>2. /\ UNCHANGED <<live, born>> /\ RemoveDir(q, m) /\ Recorded(q) /\ rec.pc = "idle"
          /\ entry[q].attempts >= MaxTries
      BY <1>7 DEF RecGiveUp, Unlocked, procs
    <3>3. \A p \in Pids \ {q} : entry'[p] = entry[p]
      BY <1>0, <1>7 DEF RecGiveUp, RemoveEntry
    <3>4. QED
      BY <3>1, <3>2, <3>3
  <2>2. PICK g \in Gens : g <= born[q] /\ Saved(q, g) /\ \A h \in Gens \ {g} : ~Saved(q, h)
    BY <1>1, <1>2, <2>1
  <2>3. live[q] = 0 /\ Unused(q, m)
    BY <1>1, <2>1
  <2>4. \A p \in Pids \ {q} : dir'[p] = dir[p]
    BY <1>0, <2>1 DEF RemoveDir
  <2>5. \A h \in Gens : ~Saved(q, h)'
    <3>1. \A n \in Names \ {m} : ~Unused(q, n)
      BY <2>3, OneSnapshot
    <3>2. \A n \in Names : ~Unused(q, n)'
      BY <1>0, <2>1, <3>1, RemovedDirs DEF Unused, NoDir
    <3>3. QED
      BY <3>2 DEF Saved
  <2>6. \A h \in Gens \ {g} : State(q, h)' = State(q, h) /\ Tries(q, h)' = Tries(q, h)
    BY <2>1, <2>2, <2>5, NotMoved
  <2>7. State(q, g) = "saved" /\ State(q, g)' = "gone" /\ Tries(q, g)' = 0
    BY <2>1, <2>2, <2>3, <2>5, StateIs DEF Gens
  <2>8. Tries(q, g) = MaxTries
    BY <2>1, <2>2, SavedIsRecoverable DEF Tries
  <2>9. \A p \in Pids \ {q} : Same(p)
    BY <2>1, <2>4, Untouched
  <2>10. QED
    BY <2>6, <2>7, <2>8, <2>9, Moves
<1>8. CASE \E p \in Pids : RecTake(p)
  <2>1. UNCHANGED <<dir, entry, live, born>>
    BY <1>8 DEF RecTake, procs
  <2>2. QED
    BY <2>1, Untouched, AllSame
<1>9. QED
  BY <1>3, <1>4, <1>5, <1>6, <1>7, <1>8 DEF RestorePass

\* Processes begin and finish; a stop and a start of the daemon change nothing.
LEMMA EnvironmentMoves ==
    ASSUME TypeInv, TypeInv', Images, Images', Reuse = FALSE, TornSaves = FALSE,
           MayCrash = FALSE, Halt \/ Start \/ \E p \in Pids : Exit(p) \/ Birth(p)
    PROVE  Reversible!Next \/ UNCHANGED <<AbsState, AbsTries>>
<1>0. /\ dir \in [Pids -> [Names -> Snapshots]]
      /\ live \in [Pids -> Lives] /\ born \in [Pids -> Lives] /\ entry \in [Pids -> Entries]
      /\ \A p \in Pids : live[p] # 0 => live[p] \in Gens /\ live[p] <= born[p]
  BY DEF TypeInv, TypeOK, Images, Lives, Gens
<1>1. CASE Halt
  <2>1. UNCHANGED <<dir, entry, live, born>>
    BY <1>1 DEF Halt, procs
  <2>2. QED
    BY <2>1, Untouched, AllSame
<1>2. CASE Start
  <2>1. /\ ev.pc = "idle" /\ UNCHANGED <<live, born, entry>>
        /\ \A p \in Pids, n \in Names :
              dir'[p][n] = IF entry[p].name = n THEN dir[p][n] ELSE NoDir
    BY <1>2 DEF Start, TypeInv, LocalsOK, EvIdle, procs
  <2>2. \A p \in Pids : Same(p)
    BY <2>1 DEF Images, ImageOK, Active, Same, Unused, NoDir
  <2>3. QED
    BY <2>2, AllSame
<1>3. ASSUME NEW q \in Pids, Exit(q)
      PROVE  Reversible!Next \/ UNCHANGED <<AbsState, AbsTries>>
  <2>1. /\ live'[q] = 0 /\ \A p \in Pids \ {q} : live'[p] = live[p]
        /\ UNCHANGED <<born, dir, entry>>
    BY <1>0, <1>3 DEF Exit
  <2> PICK g \in Gens : g = live[q] /\ g <= born[q]
    BY <1>0, <1>3 DEF Exit
  <2>2. \A p \in Pids \ {q} : Same(p)
    BY <2>1, Untouched
  <2>3. \A h \in Gens : Saved(q, h)' <=> Saved(q, h)
    BY <2>1 DEF Saved, Unused
  <2>4. ASSUME NEW h \in Gens, Saved(q, h) \/ h # g
        PROVE  State(q, h)' = State(q, h) /\ Tries(q, h)' = Tries(q, h)
    <3>1. CASE Saved(q, h)
      BY <2>1, <2>3, <3>1, StateIs, SavedIsRecoverable DEF Tries, Recorded
    <3>2. CASE ~Saved(q, h)
      BY <2>1, <2>3, <2>4, <3>2, NotMoved DEF Gens
    <3>3. QED
      BY <3>1, <3>2
  <2>5. CASE Saved(q, g)
    BY <2>2, <2>4, <2>5, OneMoves
  <2>6. CASE ~Saved(q, g)
    <3>1. State(q, g) = "live" /\ State(q, g)' = "gone" /\ Tries(q, g)' = Tries(q, g)
      BY <2>1, <2>3, <2>6, StateIs DEF Gens
    <3>2. QED
      BY <2>2, <2>4, <3>1, Moves
  <2>7. QED
    BY <2>5, <2>6
<1>4. ASSUME NEW q \in Pids, Birth(q)
      PROVE  Reversible!Next
  <2>1. /\ ~Recorded(q) /\ ~Busy(q) /\ UNCHANGED <<dir, entry>> /\ live[q] = 0
        /\ live'[q] = born[q] + 1 /\ born'[q] = born[q] + 1
        /\ \A p \in Pids \ {q} : live'[p] = live[p] /\ born'[p] = born[p]
    BY <1>0, <1>4 DEF Birth
  <2> PICK g \in Gens : g = born[q] + 1
    BY <1>0, <1>4, BoundsAssumption DEF Birth, Lives, Gens
  <2>2. \A h \in Gens : ~Saved(q, h) /\ ~Saved(q, h)'
    BY <2>1 DEF Images, ImageOK, Active, Recorded, Busy, Saved, Unused
  <2>3. \A h \in Gens \ {g} : State(q, h)' = State(q, h) /\ Tries(q, h)' = Tries(q, h)
    BY <1>0, <2>1, <2>2, NotMoved DEF Gens, Lives
  <2>4. State(q, g) = "unborn" /\ State(q, g)' = "live" /\ Tries(q, g)' = Tries(q, g)
    <3>1. live[q] # g /\ ~(g <= born[q]) /\ live'[q] = g
      BY <1>0, <2>1 DEF Gens, Lives
    <3>2. QED
      BY <2>2, <3>1, StateIs
  <2>5. \A p \in Pids \ {q} : Same(p)
    BY <2>1, Untouched
  <2>6. QED
    BY <2>3, <2>4, <2>5, Moves
<1>5. QED
  BY <1>1, <1>2, <1>3, <1>4

\* Before anything happens the first process of every pid lives.
LEMMA AbsInit == Init => Reversible!Init
<1> SUFFICES ASSUME Init PROVE Reversible!Init
  OBVIOUS
<1>1. \A p \in Pids, g \in Gens : ~Recoverable(p, g) /\ Tries(p, g) = 0
  BY DEF Init, Recoverable, Tries, NoDir, EvIdle, NoEntry
<1>2. \A p \in Pids, g \in Gens : State(p, g) \in {"unborn", "live"}
  BY <1>1 DEF Init, State, Gens
<1>3. QED
  BY <1>1, <1>2 DEF Reversible!Init

\* Checkpointing is reversible, for any number of processes: without `mgctl restore`, while
\* the pid of a snapshot is not taken again, no dump overlaps the end of an earlier restore
\* and the daemon is stopped by SIGTERM only, a process is saved, tried and restored or given
\* up after MaxTries failures, and none that has ended comes back (evictor/execute.rs:127-150,
\* executor/checkpoint.rs:196-242, recovery.rs:114-154). The first hypothesis is needed: a
\* command that has copied an entry before recovery takes it may restore the snapshot again
\* after the process has come back and ended.
THEOREM EvictionIsReversible ==
    ASSUME Restorers = {}, Overlap = {}, Reuse = FALSE, MayCrash = FALSE, TornSaves = FALSE
    PROVE  Spec => ImplementsReversibleEviction
<1> DEFINE Inv == TypeInv /\ Apart /\ Settled /\ Images
<1>1. Init => Inv /\ Reversible!Init
  BY TypeInit, SafeInit, ImagesInit, AbsInit
<1>2. Inv /\ [Next]_vars => Inv'
  BY TypeStep, ApartStep, SettledStep, ImagesStep
<1>3. Inv /\ Inv' /\ [Next]_vars => [Reversible!Next]_(Reversible!vars)
  <2> SUFFICES ASSUME Inv, Inv', [Next]_vars PROVE Reversible!Next \/ UNCHANGED Reversible!vars
    OBVIOUS
  <2>1. UNCHANGED <<AbsState, AbsTries>> => UNCHANGED Reversible!vars
    BY DEF Reversible!vars, AbsState, AbsTries
  <2>2. UNCHANGED vars => UNCHANGED <<AbsState, AbsTries>>
    BY Untouched, AllSame DEF vars
  <2>3. QED
    BY <2>1, <2>2, EvictorMoves, RestorePassMoves, EnvironmentMoves DEF Next
<1>4. QED
  BY <1>1, <1>2, <1>3, PTL DEF Spec, ImplementsReversibleEviction, Reversible!Spec

-----------------------------------------------------------------------------
(* ConfigReload: no request for a reload is lost.                          *)

Reloaders == {"evictor", "connection"}
OnDisk    == Config!Load(Config!Source(user), sug)

ReloadTypes ==
    /\ reload \in [Reloaders -> {"idle", "read", "overlay", "store", "tell"}]
    /\ got = [r \in Reloaders |-> got[r]]
    /\ flag \in BOOLEAN /\ edited \in BOOLEAN /\ beside \in BOOLEAN
    /\ told \in Nat

\* While no two reloads ran at once, at most one is under way.
OneReload == ~beside => \A r, o \in Reloaders : reload[r] # "idle" /\ reload[o] # "idle" => r = o

\* After the last request whatever a reload has read is what is on disk, and so is what the
\* daemon has once it is stored.
Fresh ==
    ~edited /\ ~flag /\ ~beside =>
        /\ \A r \in Reloaders :
              /\ reload[r] = "overlay" => got[r] = Config!Source(user)
              /\ reload[r] = "store" => got[r] = OnDisk
              /\ reload[r] = "tell" => cell = OnDisk
        /\ (\A r \in Reloaders : reload[r] = "idle") => cell = OnDisk

\* Once mgd-kde was told of the last reload, what it has read, and keeps, is what is on disk.
PluginFresh ==
    Config!Quiet /\ told = 0 =>
        /\ reading # Nothing => reading = Config!Found(user)
        /\ copy # Nothing => copy = Config!Found(user)

ReloadInv == ReloadTypes /\ OneReload /\ Fresh /\ PluginFresh

\* The invariant of reloading holds when both processes have just loaded.
LEMMA ReloadInvInit == Config!Init => ReloadInv
<1> SUFFICES ASSUME Config!Init
             PROVE  ReloadInv
  OBVIOUS
<1>1. ReloadTypes
  BY DEF Config!Init, ReloadTypes, Config!Reloaders, Reloaders
<1>2. OneReload /\ Fresh /\ PluginFresh
  BY DEF Config!Init, OneReload, Fresh, PluginFresh, OnDisk, Config!Reloaders, Reloaders
<1>3. QED
  BY <1>1, <1>2 DEF ReloadInv

\* What any step does to the types.
LEMMA ReloadTypesKept ==
    ASSUME ReloadTypes, [Config!Next]_(Config!configVars)
    PROVE  ReloadTypes'
<1> USE DEF ReloadTypes, Config!Reloaders, Reloaders, Config!fileVars, Config!daemonVars,
            Config!pluginVars, Config!applyVars
<1>1. CASE Config!Files
  BY <1>1 DEF Config!Files, Config!Edit, Config!Suggest, Config!Changed
<1>2. CASE Config!Requests
  <2>1. CASE Config!Hup
    BY <1>2, <2>1 DEF Config!Hup
  <2>2. ASSUME NEW r \in Reloaders, Config!Begin(r)
        PROVE  /\ reload' \in [Reloaders -> {"idle", "read", "overlay", "store", "tell"}]
               /\ beside' \in BOOLEAN
    BY <2>2 DEF Config!Begin
  <2>3. CASE Config!Take
    BY <2>2, <2>3 DEF Config!Take
  <2>4. CASE Config!Connect
    BY <2>2, <2>4 DEF Config!Connect
  <2>5. QED
    BY <1>2, <2>1, <2>3, <2>4 DEF Config!Requests
<1>3. CASE Config!Reload
  <2>1. PICK r \in Reloaders :
          Config!Read(r) \/ Config!Overlay(r) \/ Config!Store(r) \/ Config!Tell(r)
    BY <1>3 DEF Config!Reload
  <2>2. CASE Config!Read(r)
    BY <2>2 DEF Config!Read
  <2>3. CASE Config!Overlay(r)
    BY <2>3 DEF Config!Overlay
  <2>4. CASE Config!Store(r)
    BY <2>4 DEF Config!Store
  <2>5. CASE Config!Tell(r)
    BY <2>5 DEF Config!Tell
  <2>6. QED
    BY <2>1, <2>2, <2>3, <2>4, <2>5
<1>4. CASE Config!Plugin
  BY <1>4 DEF Config!Plugin, Config!PluginRead, Config!PluginStore, Config!PluginDrop
<1>5. CASE Config!Apply
  BY <1>5 DEF Config!Apply, Config!ApplyRead, Config!ApplyTruncate, Config!ApplyWrite,
              Config!ApplyDies
<1>6. CASE Config!Restart
  BY <1>6 DEF Config!Restart
<1>7. CASE UNCHANGED Config!configVars
  BY <1>7 DEF Config!configVars
<1>8. QED
  BY <1>1, <1>2, <1>3, <1>4, <1>5, <1>6, <1>7 DEF Config!Next

\* A reload that begins beside another marks itself as such.
LEMMA OneReloadKept ==
    ASSUME ReloadTypes, OneReload, [Config!Next]_(Config!configVars)
    PROVE  OneReload'
<1> USE DEF ReloadTypes, OneReload, Config!Reloaders, Reloaders, Config!fileVars,
            Config!daemonVars, Config!pluginVars, Config!applyVars
<1>1. ASSUME NEW r \in Reloaders, Config!Begin(r)
      PROVE  OneReload'
  BY <1>1 DEF Config!Begin
<1>2. CASE Config!Take \/ Config!Connect
  BY <1>1, <1>2 DEF Config!Take, Config!Connect
<1>3. CASE Config!Reload
  <2>1. PICK r \in Reloaders :
          Config!Read(r) \/ Config!Overlay(r) \/ Config!Store(r) \/ Config!Tell(r)
    BY <1>3 DEF Config!Reload
  <2>2. beside' = beside /\ reload[r] # "idle"
    BY <2>1 DEF Config!Read, Config!Overlay, Config!Store, Config!Tell
  <2>3. \A o \in Reloaders : reload'[o] # "idle" => reload[o] # "idle"
    BY <2>1 DEF Config!Read, Config!Overlay, Config!Store, Config!Tell
  <2>4. QED
    BY <2>2, <2>3
<1>4. CASE Config!Restart
  BY <1>4 DEF Config!Restart
<1>5. CASE Config!Files \/ Config!Hup \/ Config!Plugin \/ Config!Apply
  BY <1>5 DEF Config!Files, Config!Edit, Config!Suggest, Config!Changed, Config!Hup,
              Config!Plugin, Config!PluginRead, Config!PluginStore, Config!PluginDrop,
              Config!Apply, Config!ApplyRead, Config!ApplyTruncate, Config!ApplyWrite,
              Config!ApplyDies
<1>6. CASE UNCHANGED Config!configVars
  BY <1>6 DEF Config!configVars
<1>7. QED
  BY <1>2, <1>3, <1>4, <1>5, <1>6 DEF Config!Next, Config!Requests

\* A change of the files is marked until the next request, and a request until its reload
\* has begun, which reads what is on disk by then.
LEMMA FreshKept ==
    ASSUME ReloadTypes, OneReload, Fresh, OneReload', [Config!Next]_(Config!configVars)
    PROVE  Fresh'
<1> USE DEF ReloadTypes, Fresh, Config!Reloaders, Reloaders, Config!fileVars,
            Config!daemonVars, Config!pluginVars, Config!applyVars
<1>1. CASE Config!Files
  BY <1>1 DEF Config!Files, Config!Edit, Config!Suggest, Config!Changed
<1>2. CASE Config!Hup
  BY <1>2 DEF Config!Hup
<1>3. ASSUME NEW r \in Reloaders, Config!Begin(r), ~beside'
      PROVE  /\ reload'[r] = "read" /\ \A o \in Reloaders \ {r} : reload'[o] = "idle"
  BY <1>3 DEF Config!Begin
<1>4. CASE Config!Take
  <2>1. Config!Begin("evictor")
    BY <1>4 DEF Config!Take
  <2>2. QED
    BY <1>3, <2>1
<1>5. CASE Config!Connect
  <2>1. Config!Begin("connection")
    BY <1>5 DEF Config!Connect
  <2>2. QED
    BY <1>3, <2>1
<1>6. CASE Config!Reload
  <2>1. PICK r \in Reloaders :
          Config!Read(r) \/ Config!Overlay(r) \/ Config!Store(r) \/ Config!Tell(r)
    BY <1>6 DEF Config!Reload
  <2>2. SUFFICES ASSUME ~edited', ~flag', ~beside'
                 PROVE  /\ \A o \in Reloaders :
                             /\ reload'[o] = "overlay" => got'[o] = Config!Source(user)'
                             /\ reload'[o] = "store" => got'[o] = OnDisk'
                             /\ reload'[o] = "tell" => cell' = OnDisk'
                        /\ (\A o \in Reloaders : reload'[o] = "idle") => cell' = OnDisk'
    BY DEF Fresh
  <2>3. user' = user /\ sug' = sug /\ ~edited /\ ~flag /\ ~beside /\ reload[r] # "idle"
    BY <2>1, <2>2 DEF Config!Read, Config!Overlay, Config!Store, Config!Tell
  <2>4. Config!Source(user)' = Config!Source(user) /\ OnDisk' = OnDisk
    BY <2>3 DEF Config!Source, OnDisk, Config!Load
  <2>5. \A o \in Reloaders \ {r} : reload[o] = "idle" /\ reload'[o] = "idle"
    BY <2>1, <2>3 DEF OneReload, Config!Read, Config!Overlay, Config!Store, Config!Tell
  <2>6. CASE Config!Read(r)
    BY <2>3, <2>4, <2>5, <2>6 DEF Config!Read
  <2>7. CASE Config!Overlay(r)
    BY <2>3, <2>4, <2>5, <2>7 DEF Config!Overlay, OnDisk
  <2>8. CASE Config!Store(r)
    BY <2>3, <2>4, <2>5, <2>8 DEF Config!Store
  <2>9. CASE Config!Tell(r)
    BY <2>3, <2>4, <2>5, <2>9 DEF Config!Tell
  <2>10. QED
    BY <2>1, <2>6, <2>7, <2>8, <2>9
<1>7. CASE Config!Plugin
  BY <1>7 DEF Config!Plugin, Config!PluginRead, Config!PluginStore, Config!PluginDrop, OnDisk,
              Config!Load, Config!Source
<1>8. CASE Config!ApplyTruncate \/ Config!ApplyWrite
  BY <1>8 DEF Config!ApplyTruncate, Config!ApplyWrite
<1>9. CASE Config!ApplyRead \/ Config!ApplyDies
  BY <1>9 DEF Config!ApplyRead, Config!ApplyDies, OnDisk, Config!Load, Config!Source
<1>10. CASE Config!Restart
  BY <1>10 DEF Config!Restart, OnDisk, Config!Load, Config!Source
<1>11. CASE UNCHANGED Config!configVars
  BY <1>11 DEF Config!configVars, OnDisk, Config!Load, Config!Source
<1>12. QED
  BY <1>1, <1>2, <1>4, <1>5, <1>6, <1>7, <1>8, <1>9, <1>10, <1>11
     DEF Config!Next, Config!Requests, Config!Apply

\* Every reload ends by telling mgd-kde, which forgets its copy and what it was reading.
LEMMA PluginFreshKept ==
    ASSUME ReloadTypes, PluginFresh, [Config!Next]_(Config!configVars)
    PROVE  PluginFresh'
<1> USE DEF ReloadTypes, PluginFresh, Config!Quiet, Config!Reloaders, Reloaders,
            Config!fileVars, Config!daemonVars, Config!pluginVars, Config!applyVars
<1>1. CASE Config!Files
  BY <1>1 DEF Config!Files, Config!Edit, Config!Suggest, Config!Changed
<1>2. CASE Config!Requests
  <2>1. ASSUME NEW r \in Reloaders, Config!Begin(r)
        PROVE  reload'[r] # "idle"
    BY <2>1 DEF Config!Begin
  <2>2. QED
    BY <1>2, <2>1 DEF Config!Requests, Config!Hup, Config!Take, Config!Connect
<1>3. CASE Config!Reload
  <2>1. PICK r \in Reloaders :
          Config!Read(r) \/ Config!Overlay(r) \/ Config!Store(r) \/ Config!Tell(r)
    BY <1>3 DEF Config!Reload
  <2>2. CASE Config!Tell(r)
    BY <2>2 DEF Config!Tell
  <2>3. CASE Config!Read(r) \/ Config!Overlay(r) \/ Config!Store(r)
    <3>1. reload'[r] # "idle"
      BY <2>3 DEF Config!Read, Config!Overlay, Config!Store
    <3>2. QED
      BY <3>1
  <2>4. QED
    BY <2>1, <2>2, <2>3
<1>4. CASE Config!Plugin
  <2>1. user' = user /\ Config!Quiet' = Config!Quiet
    BY <1>4 DEF Config!Plugin, Config!PluginRead, Config!PluginStore, Config!PluginDrop
  <2>2. Config!Found(user)' = Config!Found(user)
    BY <2>1 DEF Config!Found
  <2>3. CASE Config!PluginRead
    BY <2>1, <2>2, <2>3 DEF Config!PluginRead
  <2>4. CASE Config!PluginStore
    BY <2>1, <2>2, <2>4 DEF Config!PluginStore
  <2>5. CASE Config!PluginDrop
    BY <2>1, <2>2, <2>5 DEF Config!PluginDrop
  <2>6. QED
    BY <1>4, <2>3, <2>4, <2>5 DEF Config!Plugin
<1>5. CASE Config!ApplyTruncate \/ Config!ApplyWrite
  BY <1>5 DEF Config!ApplyTruncate, Config!ApplyWrite
<1>6. CASE Config!ApplyRead \/ Config!ApplyDies
  BY <1>6 DEF Config!ApplyRead, Config!ApplyDies, Config!Found
<1>7. CASE Config!Restart
  BY <1>7 DEF Config!Restart
<1>8. CASE UNCHANGED Config!configVars
  BY <1>8 DEF Config!configVars, Config!Found
<1>9. QED
  BY <1>1, <1>2, <1>3, <1>4, <1>5, <1>6, <1>7, <1>8 DEF Config!Next, Config!Apply

\* No reload is lost, neither on the daemon nor on the plugin that keeps a copy, whatever the
\* user and --passive-apply wrote meanwhile and whichever of them was killed: for any texts
\* and any suggestions (lifecycle.rs:15-16, config/mod.rs:26-30, mgd-kde/src/main.rs:177-185).
THEOREM NoReloadLost == Config!Spec => []ReloadsSettle
<1>1. ReloadInv /\ [Config!Next]_(Config!configVars) => ReloadInv'
  BY ReloadTypesKept, OneReloadKept, FreshKept, PluginFreshKept DEF ReloadInv
<1>2. ReloadInv => ReloadsSettle
  BY DEF ReloadInv, Fresh, PluginFresh, ReloadsSettle, Config!NewestHeld, Config!CopyCurrent,
         Config!Quiet, Config!Reloaders, Reloaders, OnDisk
<1>3. QED
  BY <1>1, <1>2, ReloadInvInit, PTL DEF Config!Spec
=============================================================================
