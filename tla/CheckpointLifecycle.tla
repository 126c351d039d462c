------------------------ MODULE CheckpointLifecycle ------------------------
(***************************************************************************)
(* A process that is checkpointed: the evictor dumps it with CRIU, kills   *)
(* it and records it in CheckpointRegistry; the recovery manager and       *)
(* `mgctl restore` bring it back from its snapshot directory; startup      *)
(* deletes the directories no registry entry names.                        *)
(*                                                                         *)
(* Grain: the helper's dump or restore, the SIGKILL and the removal of a   *)
(* directory are steps of their own; so is a lock section of the registry  *)
(* with the save at its end.  restore_pass holds the lock throughout, the  *)
(* evictor and cmd_restore only to change or copy the registry.            *)
(*                                                                         *)
(* A process is the n-th one to live under its pid; its image is in the    *)
(* snapshot directory of that pid and name.                                *)
(***************************************************************************)
EXTENDS Naturals, FiniteSets

CONSTANTS
    Pids,
    Names,      \* names a process may have
    NoName,     \* no registry entry
    NoPid,
    MaxGen,     \* bound: processes that may live under one pid, in turn
    NameOf,     \* the name of the n-th process under a pid
    MaxTries,   \* MAX_RESTORE_ATTEMPTS
    Restorers,  \* restores under way for `mgctl restore`, one per entry it copied
    Reuse,      \* the kernel may hand out the pid of a checkpointed process
    Overlap,    \* whose unfinished business a new dump may overlap, see Free
    MayStop,    \* the daemon may be stopped by SIGTERM, and is then restarted
    MayCrash,   \* it may be killed at any step
    TornSaves   \* a stop inside write_file_atomic tears the registry file

Gens == 1..MaxGen

ASSUME NamesAssumption ==
    NoName \notin Names /\ NoPid \notin Pids /\ NameOf \in [Gens -> Names]
ASSUME BoundsAssumption == MaxGen \in Nat \ {0} /\ MaxTries \in Nat \ {0}
ASSUME SwitchesAssumption ==
    /\ {Reuse, MayStop, MayCrash, TornSaves} \subseteq BOOLEAN
    /\ Overlap \subseteq {"recovery", "command", "restart"}

VARIABLES
    live,  \* the process living under a pid, 0 = none
    born,  \* how many have lived there so far
    dir,   \* snapshot directories: whose image, and whether it was restored
    entry, \* CheckpointRegistry, in memory and on disk
    unfit, \* CHECKPOINT_FAILED_BINARIES; all names when disabled altogether
    ev,    \* the evictor: program counter, decision in hand, decisions left
    rec,   \* the recovery manager's restore_pass, holding the lock
    conn,  \* the restores of Restorers
    up,    \* the daemon runs
    owed   \* history: processes put away and neither back nor given up

procs == <<live, born>>
vars  == <<live, born, dir, entry, unfit, ev, rec, conn, up, owed>>

NoDir   == [gen |-> 0, spent |-> FALSE]
NoEntry == [name |-> NoName, attempts |-> 0]

EvIdle   == [pc |-> "idle", pid |-> NoPid, name |-> NoName, todo |-> {}]
RecIdle  == [pc |-> "idle", pid |-> NoPid]
ConnIdle == [pc |-> "idle", pid |-> NoPid, name |-> NoName]

Lives     == 0..MaxGen
Snapshots == [gen : Lives, spent : BOOLEAN]
Entries   == [name : Names \cup {NoName}, attempts : 0..MaxTries]
EvStates  == [pc : {"idle", "kill", "add", "fallback"}, pid : Pids \cup {NoPid},
              name : Names \cup {NoName}, todo : SUBSET (Pids \X Names)]
RecStates == [pc : {"idle", "restore", "clean", "drop"}, pid : Pids \cup {NoPid}]
ConnStates == [pc : {"idle", "restore", "drop"}, pid : Pids \cup {NoPid},
               name : Names \cup {NoName}]

TypeOK ==
    /\ live \in [Pids -> Lives] /\ born \in [Pids -> Lives]
    /\ dir \in [Pids -> [Names -> Snapshots]]
    /\ entry \in [Pids -> Entries]
    /\ unfit \subseteq Names
    /\ ev \in EvStates /\ rec \in RecStates /\ conn \in [Restorers -> ConnStates]
    /\ up \in BOOLEAN
    /\ owed \subseteq Pids \X Gens

Init ==
    /\ live = [p \in Pids |-> 1]
    /\ born = [p \in Pids |-> 1]
    /\ dir = [p \in Pids |-> [n \in Names |-> NoDir]]
    /\ entry = [p \in Pids |-> NoEntry]
    /\ unfit = {}
    /\ ev = EvIdle /\ rec = RecIdle /\ conn = [t \in Restorers |-> ConnIdle]
    /\ up = TRUE
    /\ owed = {}

-----------------------------------------------------------------------------
Recorded(p) == entry[p].name # NoName
Unlocked == rec.pc = "idle"
Busy(p) == ev.pc # "idle" /\ ev.pid = p

\* CRIU needs the pid of the image to be free.
CanRestore(p, n) == dir[p][n].gen # 0 /\ live[p] = 0

\* The process runs again; its image stays until somebody removes it.
Restored(p, n) ==
    /\ live' = [live EXCEPT ![p] = dir[p][n].gen]
    /\ dir' = [dir EXCEPT ![p][n].spent = TRUE]
    /\ owed' = owed \ {<<p, dir[p][n].gen>>}

RemoveDir(p, n) == dir' = [dir EXCEPT ![p][n] = NoDir]
RemoveEntry(p) == entry' = [entry EXCEPT ![p] = NoEntry]

-----------------------------------------------------------------------------
(* The evictor.                                                            *)

\* Assumption on the environment: pressure has not made the evictor decide
\* on p again while its last restore is being finished by the recovery
\* manager or by a command, or while a restart has left its entry behind.
Free(p) ==
    /\ "recovery" \notin Overlap => rec.pid # p
    /\ "command" \notin Overlap => \A t \in Restorers : conn[t].pid # p
    /\ "restart" \notin Overlap =>
           (Recorded(p) => rec.pid = p \/ \E t \in Restorers : conn[t].pid = p)

\* plan(): some eligible processes are to be checkpointed.
EvPlan ==
    /\ up /\ ev.pc = "idle" /\ ev.todo = {}
    /\ \E S \in SUBSET {p \in Pids : live[p] # 0} :
        /\ S # {}
        /\ \A p \in S : NameOf[live[p]] \notin unfit /\ Free(p)
        /\ ev' = [ev EXCEPT !.todo = {<<p, NameOf[live[p]]>> : p \in S}]
    /\ UNCHANGED <<procs, dir, entry, unfit, rec, conn, up, owed>>

Decided(p, n) == up /\ ev.pc = "idle" /\ <<p, n>> \in ev.todo
Take(p, n, pc) ==
    ev' = [pc |-> pc, pid |-> p, name |-> n, todo |-> ev.todo \ {<<p, n>>}]

\* execute_plan passes over a process that has been frozen meanwhile.
EvSkip(p, n) ==
    /\ Decided(p, n)
    /\ ev' = [ev EXCEPT !.todo = @ \ {<<p, n>>}]
    /\ UNCHANGED <<procs, dir, entry, unfit, rec, conn, up, owed>>

\* The dump has succeeded and left the process stopped.
EvDump(p, n) ==
    /\ Decided(p, n) /\ live[p] # 0
    /\ dir' = [dir EXCEPT ![p][n] = [gen |-> live[p], spent |-> FALSE]]
    /\ owed' = owed \cup {<<p, live[p]>>}
    /\ Take(p, n, "kill")
    /\ UNCHANGED <<procs, entry, unfit, rec, conn, up>>

\* It has failed, or the helper could not be run, which leaves the directory.
EvDumpFails(p, n) ==
    /\ Decided(p, n)
    /\ RemoveDir(p, n) \/ UNCHANGED dir
    /\ unfit' \in {unfit \cup {n}, Names}
    /\ Take(p, n, "fallback")
    /\ UNCHANGED <<procs, entry, rec, conn, up, owed>>

\* SIGKILL to whoever has the pid; ESRCH is as good.
EvKill ==
    /\ up /\ ev.pc = "kill"
    /\ live' = [live EXCEPT ![ev.pid] = 0]
    /\ owed' = IF live[ev.pid] = 0 THEN owed ELSE owed \cup {<<ev.pid, live[ev.pid]>>}
    /\ ev' = [ev EXCEPT !.pc = "add"]
    /\ UNCHANGED <<born, dir, entry, unfit, rec, conn, up>>

EvAdd ==
    /\ up /\ ev.pc = "add" /\ Unlocked
    /\ entry' = [entry EXCEPT ![ev.pid] = [name |-> ev.name, attempts |-> 0]]
    /\ ev' = [EvIdle EXCEPT !.todo = ev.todo]
    /\ UNCHANGED <<procs, dir, unfit, rec, conn, up, owed>>

\* Killed at once, or SIGTERMed and gone whenever it exits.
EvFallback ==
    /\ up /\ ev.pc = "fallback"
    /\ \/ live' = [live EXCEPT ![ev.pid] = 0]
       \/ UNCHANGED live
    /\ ev' = [EvIdle EXCEPT !.todo = ev.todo]
    /\ UNCHANGED <<born, dir, entry, unfit, rec, conn, up, owed>>

-----------------------------------------------------------------------------
(* restore_pass of the recovery manager: the lightest entry, whichever it  *)
(* is.  Without pressure and with RAM enough, it is restored.              *)

\* Mutated form of RecGiveUp: one failed attempt too few.
RecGiveUpEarly(p) ==
    /\ up /\ Unlocked /\ Recorded(p) /\ entry[p].attempts + 1 >= MaxTries
    /\ RemoveDir(p, entry[p].name)
    /\ RemoveEntry(p)
    /\ owed' = owed \ {<<p, dir[p][entry[p].name].gen>>}
    /\ UNCHANGED <<procs, unfit, ev, rec, conn, up>>

RecGiveUp(p) ==
    /\ up /\ Unlocked /\ Recorded(p) /\ entry[p].attempts >= MaxTries
    /\ RemoveDir(p, entry[p].name)
    /\ RemoveEntry(p)
    /\ owed' = owed \ {<<p, dir[p][entry[p].name].gen>>}
    /\ UNCHANGED <<procs, unfit, ev, rec, conn, up>>

RecTake(p) ==
    /\ up /\ Unlocked /\ Recorded(p) /\ entry[p].attempts < MaxTries
    /\ rec' = [pc |-> "restore", pid |-> p]
    /\ UNCHANGED <<procs, dir, entry, unfit, ev, conn, up, owed>>

RecRestore ==
    LET p == rec.pid
        n == entry[p].name
    IN  /\ up /\ rec.pc = "restore" /\ CanRestore(p, n)
        /\ Restored(p, n)
        /\ rec' = [rec EXCEPT !.pc = "clean"]
        /\ UNCHANGED <<born, entry, unfit, ev, conn, up>>

\* Mutated form of RecFails: the attempt is not counted.
RecFailsUncounted ==
    /\ up /\ rec.pc = "restore"
    /\ rec' = RecIdle
    /\ UNCHANGED <<procs, dir, entry, unfit, ev, conn, up, owed>>

\* Mutated form of RecFails: the directory is removed with the attempt.
RecFailsCleans ==
    /\ up /\ rec.pc = "restore"
    /\ entry' = [entry EXCEPT ![rec.pid].attempts = @ + 1]
    /\ RemoveDir(rec.pid, entry[rec.pid].name)
    /\ rec' = RecIdle
    /\ UNCHANGED <<procs, unfit, ev, conn, up, owed>>

RecFails ==
    /\ up /\ rec.pc = "restore"
    /\ entry' = [entry EXCEPT ![rec.pid].attempts = @ + 1]
    /\ rec' = RecIdle
    /\ UNCHANGED <<procs, dir, unfit, ev, conn, up, owed>>

RecClean ==
    /\ up /\ rec.pc = "clean"
    /\ RemoveDir(rec.pid, entry[rec.pid].name)
    /\ rec' = [rec EXCEPT !.pc = "drop"]
    /\ UNCHANGED <<procs, entry, unfit, ev, conn, up, owed>>

RecDrop ==
    /\ up /\ rec.pc = "drop"
    /\ RemoveEntry(rec.pid)
    /\ rec' = RecIdle
    /\ UNCHANGED <<procs, dir, unfit, ev, conn, up, owed>>

-----------------------------------------------------------------------------
(* `mgctl restore`: the entries are copied, the lock is released, and each *)
(* copy is restored without asking the registry again.                     *)

CmdCopy(t, p) ==
    /\ up /\ Unlocked /\ Recorded(p) /\ conn[t].pc = "idle"
    /\ conn' = [conn EXCEPT ![t] = [pc |-> "restore", pid |-> p, name |-> entry[p].name]]
    /\ UNCHANGED <<procs, dir, entry, unfit, ev, rec, up, owed>>

CmdRestore(t) ==
    /\ up /\ conn[t].pc = "restore" /\ CanRestore(conn[t].pid, conn[t].name)
    /\ Restored(conn[t].pid, conn[t].name)
    /\ conn' = [conn EXCEPT ![t].pc = "drop"]
    /\ UNCHANGED <<born, entry, unfit, ev, rec, up>>

CmdFails(t) ==
    /\ up /\ conn[t].pc = "restore"
    /\ conn' = [conn EXCEPT ![t] = ConnIdle]
    /\ UNCHANGED <<procs, dir, entry, unfit, ev, rec, up, owed>>

\* The entry goes, the directory stays until the next startup.
CmdDrop(t) ==
    /\ up /\ conn[t].pc = "drop" /\ Unlocked
    /\ RemoveEntry(conn[t].pid)
    /\ conn' = [conn EXCEPT ![t] = ConnIdle]
    /\ UNCHANGED <<procs, dir, unfit, ev, rec, up, owed>>

-----------------------------------------------------------------------------
(* The environment, stops and starts.                                      *)

\* A process ends: on its own, or by the OOM killer even when stopped.
Exit(p) ==
    /\ live[p] # 0
    /\ live' = [live EXCEPT ![p] = 0]
    /\ UNCHANGED <<born, dir, entry, unfit, ev, rec, conn, up, owed>>

\* A new process takes the pid.
Birth(p) ==
    /\ live[p] = 0 /\ born[p] < MaxGen
    /\ Reuse \/ ~(Recorded(p) \/ Busy(p) \/ \E t \in Restorers : conn[t].pid = p)
    /\ born' = [born EXCEPT ![p] = @ + 1]
    /\ live' = [live EXCEPT ![p] = born[p] + 1]
    /\ UNCHANGED <<dir, entry, unfit, ev, rec, conn, up, owed>>

\* Some thread is inside CheckpointRegistry::save.
Saving ==
    \/ ev.pc = "add"
    \/ rec.pc \in {"restore", "drop"}
    \/ \E t \in Restorers : conn[t].pc = "drop"

\* On SIGTERM evictor and recovery manager finish what they do and are
\* joined, the connection threads end wherever they are; a kill ends all.
Halt ==
    /\ up
    /\ MayCrash \/ (MayStop /\ ev.pc = "idle" /\ ev.todo = {} /\ rec.pc = "idle")
    /\ \/ UNCHANGED entry
       \/ TornSaves /\ Saving /\ entry' = [p \in Pids |-> NoEntry]
    /\ up' = FALSE
    /\ ev' = EvIdle /\ rec' = RecIdle /\ conn' = [t \in Restorers |-> ConnIdle]
    /\ unfit' = {}
    /\ UNCHANGED <<procs, dir, owed>>

\* Mutated form of Start: every entry loses its directory, none is kept.
StartCleansAll ==
    /\ ~up
    /\ up' = TRUE
    /\ dir' = [p \in Pids |-> [n \in Names |-> NoDir]]
    /\ UNCHANGED <<procs, entry, unfit, ev, rec, conn, owed>>

\* cleanup_orphaned_snapshots.
Start ==
    /\ ~up
    /\ up' = TRUE
    /\ dir' = [p \in Pids |->
                 [n \in Names |-> IF entry[p].name = n THEN dir[p][n] ELSE NoDir]]
    /\ UNCHANGED <<procs, entry, unfit, ev, rec, conn, owed>>

Evictor ==
    \/ EvPlan \/ EvKill \/ EvAdd \/ EvFallback
    \/ \E p \in Pids, n \in Names : EvSkip(p, n) \/ EvDump(p, n) \/ EvDumpFails(p, n)
RestorePass ==
    \/ RecRestore \/ RecFails \/ RecClean \/ RecDrop
    \/ \E p \in Pids : RecGiveUp(p) \/ RecTake(p)
Command(t) ==
    \/ CmdRestore(t) \/ CmdFails(t) \/ CmdDrop(t)
    \/ \E p \in Pids : CmdCopy(t, p)

Next ==
    \/ Evictor \/ RestorePass \/ Halt \/ Start
    \/ \E t \in Restorers : Command(t)
    \/ \E p \in Pids : Exit(p) \/ Birth(p)

Spec == Init /\ [][Next]_vars

\* The threads keep running, a stopped daemon is started again; the recovery
\* manager looks at the registry every 3 s, and finds RAM and pressure as it
\* needs them again and again.
Fairness ==
    /\ WF_vars(Evictor /\ ~EvPlan) /\ WF_vars(Start)
    /\ SF_vars(RestorePass)
    /\ \A t \in Restorers : SF_vars(CmdRestore(t) \/ CmdFails(t) \/ CmdDrop(t))

FairSpec == Spec /\ Fairness
-----------------------------------------------------------------------------
(* Properties.                                                             *)

\* Process g of pid p can be brought back: its image has not been used, and
\* the registry names it or the evictor is about to record it.
Recoverable(p, g) ==
    \E n \in Names :
        /\ dir[p][n] = [gen |-> g, spent |-> FALSE]
        /\ \/ entry[p].name = n
           \/ ev.pc \in {"kill", "add"} /\ ev.pid = p /\ ev.name = n

\* Checkpointing is reversible: a process that was put away is in a snapshot
\* that will be restored, until it is back or given up.
NothingLost == \A i \in owed : Recoverable(i[1], i[2])

\* Once recorded, a snapshot survives whatever happens to the daemon, but for
\* a stop that tears the registry file: it goes only by a restore, or when all
\* attempts are used up.
RecordedIsSafe ==
    [][\A p \in Pids, n \in Names :
         (entry[p].name = n /\ live[p] = 0 /\ dir[p][n].gen # 0 /\ ~dir[p][n].spent) =>
            \/ entry'[p].name = n /\ dir'[p][n] = dir[p][n]
            \/ live'[p] = dir[p][n].gen
            \/ entry[p].attempts = MaxTries
            \/ TornSaves /\ ~up']_vars

\* Every process is put away, restored and given up as ReversibleEviction
\* says; above all, one that has exited is not brought back.
State(p, g) ==
    IF Recoverable(p, g) THEN "saved"
    ELSE IF live[p] = g THEN "live"
    ELSE IF g <= born[p] THEN "gone" ELSE "unborn"
Tries(p, g) ==
    IF Recoverable(p, g) /\ Recorded(p) THEN entry[p].attempts ELSE 0

Reversible == INSTANCE ReversibleEviction WITH
    Instances <- Pids \X Gens,
    state <- [i \in Pids \X Gens |-> State(i[1], i[2])],
    tries <- [i \in Pids \X Gens |-> Tries(i[1], i[2])]
ImplementsReversibleEviction == Reversible!Spec

\* Once the evictor has stopped checkpointing, every entry is dealt with: no
\* entry that cannot be restored keeps the others waiting.
EntriesResolved ==
    <>[](ev = EvIdle) => \A p \in Pids : Recorded(p) ~> ~Recorded(p)
=============================================================================
