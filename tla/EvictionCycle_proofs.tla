------------------------ MODULE EvictionCycle_proofs ------------------------
(* Whom the evictor and its SIGTERM threads act upon, for any processes.   *)
EXTENDS EvictionCycle, SumTheorems, SequenceTheorems, TLAPS

\* The attributes of a process, one by one.
LEMMA AttrType ==
    ASSUME NEW p \in Procs
    PROVE  /\ Attr[p] \in Attributes /\ Attr[p].prio \in 0..100
           /\ Attr[p].size \in Nat /\ Attr[p].protected \in BOOLEAN
           /\ Pid(p) \in Pids /\ Pid(p) # NoPid
BY AttrAssumption, WindowsAssumption DEF Attributes, Pid, Pids

\* Only the process with the focus has another priority than its own (decision.rs:111-118).
LEMMA PriorityType ==
    ASSUME NEW p \in Procs, NEW focus
    PROVE  /\ Priority(p, focus) \in 0..100
           /\ Pid(p) # focus => Priority(p, focus) = Attr[p].prio
BY AttrType DEF Priority

\* What is decided about a process is an action, and none if it is spared.
LEMMA ActionForType ==
    ASSUME NEW p, NEW prio \in 0..100, NEW full \in BOOLEAN, level \in Levels
    PROVE  /\ ActionFor(p, prio, full) \in Actions
           /\ Spared(p, prio) => ActionFor(p, prio, full) = "none"
<1>1. AtCritical(p, prio) \in Actions
  BY DEF AtCritical, Actions
<1>2. CASE Spared(p, prio)
  BY <1>2 DEF ActionFor, Actions
<1>3. CASE ~Spared(p, prio) /\ full /\ prio >= 80
  BY <1>3 DEF ActionFor, Actions
<1>4. CASE ~Spared(p, prio) /\ ~(full /\ prio >= 80)
  <2>1. CASE level = "Normal"
    BY <1>4, <2>1 DEF ActionFor, Actions
  <2>2. CASE level = "Elevated"
    BY <1>4, <2>2 DEF ActionFor, Actions
  <2>3. CASE level = "High"
    BY <1>4, <2>3 DEF ActionFor, Actions
  <2>4. CASE level = "Critical"
    BY <1>1, <1>4, <2>4 DEF ActionFor
  <2>5. CASE level = "Emergency"
    BY <1>4, <2>5 DEF ActionFor, Actions
  <2>6. QED
    BY <2>1, <2>2, <2>3, <2>4, <2>5 DEF Levels
<1>5. QED
  BY <1>2, <1>3, <1>4

\* A plan names candidates, each once, and spares who is to be spared.
LEMMA PlanShape ==
    ASSUME TypeOK, Plan
    PROVE  /\ plan = << >> /\ plan' \in Seq(Decisions)
           /\ \A k \in DOMAIN plan' : plan'[k].proc \in Candidates
           /\ \A j, k \in DOMAIN plan' : plan'[j].proc = plan'[k].proc => j = k
           /\ \E focus \in Windows \cup {NoPid} : \A k \in DOMAIN plan' :
                 plan'[k].act # "none" =>
                    ~Spared(plan'[k].proc, Priority(plan'[k].proc, focus))
<1>1. PICK focus \in Windows \cup {NoPid}, full \in BOOLEAN :
         \E order \in Orders(focus) : plan' = Decide(order, focus, full)
  BY DEF Plan
<1>2. PICK order \in Orders(focus) : plan' = Decide(order, focus, full)
  BY <1>1
<1>3. Candidates \subseteq Procs /\ Cardinality(Candidates) \in Nat
  <2>1. Candidates \subseteq Procs
    BY DEF Candidates, TypeOK
  <2>2. QED
    BY <2>1, FiniteAssumption, FS_Subset, FS_CardinalityType
<1>. DEFINE n == Cardinality(Candidates)
<1>4. /\ order \in [1..n -> Candidates]
      /\ \A i, j \in 1..n : i < j => order[i] # order[j]
  BY <1>2, Zenon DEF Orders
<1>5. order \in Seq(Candidates) /\ Len(order) = n
  <2>1. order \in Seq(Candidates)
    BY <1>3, <1>4, SeqDef
  <2>2. QED
    BY <1>3, <1>4, <2>1, LenProperties
<1>. DEFINE act(p) == ActionFor(p, Priority(p, focus), full)
<1>6. /\ DOMAIN plan' = 1..n
      /\ plan' \in [1..n -> Decisions]
      /\ \A k \in 1..n : /\ plan'[k].proc = order[k]
                         /\ plan'[k].act # "none" => plan'[k].act = act(order[k])
  <2>. DEFINE covered(i) == Covered(Left(order, focus, full)[i - 1])
  <2>1. plan' = [i \in 1..n |->
            [proc |-> order[i], prio |-> Priority(order[i], focus),
             act  |-> IF covered(i) THEN "none" ELSE act(order[i])]]
    BY <1>2, <1>5 DEF Decide
  <2>. HIDE DEF covered, act
  <2>2. \A k \in 1..n : /\ order[k] \in Procs
                        /\ Priority(order[k], focus) \in 0..100
                        /\ act(order[k]) \in Actions
    BY <1>1, <1>3, <1>4, PriorityType, ActionForType DEF act, TypeOK
  <2>3. "none" \in Actions
    BY DEF Actions
  <2>4. QED
    BY <2>1, <2>2, <2>3 DEF Decisions
<1>7. plan = << >>
  BY DEF Plan
<1>8. plan' \in Seq(Decisions)
  BY <1>3, <1>6, SeqDef
<1>9. \A k \in DOMAIN plan' : plan'[k].proc \in Candidates
  BY <1>4, <1>6
<1>10. \A j, k \in DOMAIN plan' : plan'[j].proc = plan'[k].proc => j = k
  <2>. SUFFICES ASSUME NEW j \in 1..n, NEW k \in 1..n, order[j] = order[k]
                PROVE  j = k
    BY <1>6
  <2>1. ~(j < k) /\ ~(k < j)
    BY <1>4
  <2>2. QED
    BY <1>3, <2>1
<1>11. \A k \in DOMAIN plan' :
          plan'[k].act # "none" =>
              ~Spared(plan'[k].proc, Priority(plan'[k].proc, focus))
  <2>. SUFFICES ASSUME NEW k \in 1..n, plan'[k].act # "none"
                PROVE  ~Spared(order[k], Priority(order[k], focus))
    BY <1>6
  <2>1. ActionFor(order[k], Priority(order[k], focus), full) # "none"
    BY <1>6
  <2>2. order[k] \in Procs /\ Priority(order[k], focus) \in 0..100
    BY <1>1, <1>3, <1>4, PriorityType
  <2>3. level \in Levels
    BY DEF TypeOK
  <2>4. QED
    BY <1>1, <2>1, <2>2, <2>3, ActionForType
<1>12. QED
  BY <1>1, <1>7, <1>8, <1>9, <1>10, <1>11

\* What is left of a plan.
LEMMA TailFacts ==
    ASSUME NEW s \in Seq(Decisions), s # << >>
    PROVE  /\ Tail(s) \in Seq(Decisions)
           /\ Head(s) = s[1] /\ 1 \in DOMAIN s /\ s[1] \in Decisions
           /\ \A k \in DOMAIN Tail(s) : k + 1 \in DOMAIN s /\ k + 1 # 1 /\ Tail(s)[k] = s[k + 1]
BY HeadTailProperties, EmptySeq, LenProperties

-----------------------------------------------------------------------------
(* Type correctness.                                                       *)

\* Types hold at the start.
LEMMA TypeInit == Init => TypeOK
<1>. SUFFICES ASSUME Init
              PROVE  TypeOK
  OBVIOUS
<1>1. cleared \in BOOLEAN /\ plan \in Seq(Decisions) /\ level \in Levels
  BY EmptySeq DEF Init, Levels
<1>2. QED
  BY <1>1, FirstAssumption DEF Init, TypeOK

\* Taking one decision of the plan keeps them.
LEMMA TypeExecute ==
    ASSUME TypeOK, Execute
    PROVE  TypeOK'
<1>. DEFINE d == Head(plan)
<1>1. plan \in Seq(Decisions) /\ plan # << >>
  BY DEF Execute, TypeOK
<1>2. d \in Decisions /\ Tail(plan) \in Seq(Decisions)
  BY <1>1, TailFacts
<1>3. plan' \in Seq(Decisions) /\ cleared' = FALSE /\ UNCHANGED <<level, load>>
  BY <1>2 DEF Execute
<1>. DEFINE P == d.proc
<1>4. /\ P \in Procs /\ Owner(P) \subseteq alive
      /\ {Attr[P].cgroup} \ {NoCgroup} \subseteq Cgroups /\ Attr[P].binary \in Binaries
  BY <1>2 DEF Decisions, Owner, Cgroups, Binaries
<1>. HIDE DEF d
<1>5. CASE Skip(d)
  BY <1>3, <1>5 DEF TypeOK, Skip, env, threads
<1>6. CASE Freeze(d)
  BY <1>3, <1>4, <1>6 DEF TypeOK, Freeze, threads
<1>7. CASE Kill(d)
  BY <1>3, <1>4, <1>7 DEF TypeOK, Kill, Die, Cool, threads
<1>8. CASE Terminate(d)
  <2>1. Spawn(P) /\ Cool(d) /\ UNCHANGED <<env, failed, grace>>
    BY <1>8 DEF Terminate
  <2>2. spawned' \in [Procs -> Nat] /\ cooling' \subseteq Cgroups
    BY <1>4, <2>1 DEF TypeOK, Spawn, Cool
  <2>3. QED
    BY <1>3, <2>1, <2>2 DEF TypeOK, env
<1>9. CASE Checkpoint(d)
  BY <1>3, <1>4, <1>9 DEF TypeOK, Checkpoint, Die, threads
<1>10. CASE CheckpointFails(d)
  <2>1. failed' \subseteq Binaries /\ UNCHANGED <<born, held, cooling, grace>>
    BY <1>4, <1>10 DEF TypeOK, CheckpointFails
  <2>2. /\ alive' \subseteq alive /\ swapped' \subseteq alive'
        /\ spawned' \in [Procs -> Nat]
    <3>1. /\ swapped \subseteq alive /\ spawned \in [Procs -> Nat]
          /\ \/ Spawn(d.proc) /\ UNCHANGED <<alive, swapped>>
             \/ Die(Owner(d.proc)) /\ UNCHANGED spawned
      BY <1>10 DEF TypeOK, CheckpointFails
    <3>2. QED
      BY <1>4, <3>1 DEF Spawn, Die
  <2>3. QED
    BY <1>3, <2>1, <2>2 DEF TypeOK
<1>11. QED
  BY <1>5, <1>6, <1>7, <1>8, <1>9, <1>10 DEF Execute, d

\* So does every step.
LEMMA TypeStep == TypeOK /\ [Next]_vars => TypeOK'
<1>. SUFFICES ASSUME TypeOK, [Next]_vars
              PROVE  TypeOK'
  OBVIOUS
<1>1. CASE UNCHANGED vars
  BY <1>1 DEF TypeOK, vars, env, threads
<1>2. CASE Plan
  BY <1>2, PlanShape DEF TypeOK, Plan, env, threads
<1>3. CASE Execute
  BY <1>3, TypeExecute
<1>4. ASSUME NEW p \in Procs, Sigterm(p) \/ GraceOver(p)
      PROVE  TypeOK'
  <2>1. CASE Sigterm(p)
    BY <2>1 DEF TypeOK, Sigterm, env
  <2>2. CASE GraceOver(p)
    <3>1. alive' \subseteq alive /\ swapped' = swapped \ Sigkilled(p)
      BY <2>2 DEF GraceOver, Die
    <3>2. swapped' \subseteq alive' /\ grace' \in [Procs -> Nat]
      BY <2>2 DEF TypeOK, GraceOver, Die
    <3>3. QED
      BY <2>2, <3>1, <3>2 DEF TypeOK, GraceOver
  <2>3. QED
    BY <1>4, <2>1, <2>2
<1>5. ASSUME NEW g \in Cgroups, CooldownOver(g)
      PROVE  TypeOK'
  BY <1>5 DEF TypeOK, CooldownOver, env, threads
<1>6. ASSUME NEW p \in Procs, Start(p) \/ Exit(p) \/ Hold(p) \/ Release(p) \/ Page(p)
      PROVE  TypeOK'
  BY <1>6 DEF TypeOK, Start, Exit, Hold, Release, Page, Die, threads
<1>7. CASE Pressure
  BY <1>7 DEF TypeOK, Pressure, env, threads
<1>8. CASE Clear
  BY <1>8 DEF TypeOK, Clear, env, threads
<1>9. QED
  BY <1>1, <1>2, <1>3, <1>4, <1>5, <1>6, <1>7, <1>8 DEF Next

\* The variables keep their types: the state of plan, processes, threads and
\* cooldowns that execute_plan and killer work on.
THEOREM TypeCorrect == Spec => []TypeOK
<1>1. Init => TypeOK
  BY TypeInit
<1>2. TypeOK /\ [Next]_vars => TypeOK'
  BY TypeStep
<1>3. QED
  BY <1>1, <1>2, PTL DEF Spec

-----------------------------------------------------------------------------
(* Pids.  As long as a pid is not reused between the listing and the       *)
(* signal, whoever has the pid of a planned process is that process.       *)

Owned(p) == Owner(p) \subseteq {p}

Exclusive == \A p, q \in alive : Pid(p) = Pid(q) => p = q

PidsKept ==
    /\ \A k \in DOMAIN plan : Owned(plan[k].proc)
    /\ \A p \in Procs : spawned[p] > 0 => Owned(p)

\* What the evictor has set out to do to a process.
Targeted(p) ==
    \/ \E k \in DOMAIN plan : plan[k].proc = p /\ plan[k].act # "none"
    \/ spawned[p] > 0
    \/ grace[p] > 0

Touchable(p) == ~Attr[p].protected /\ Attr[p].prio > 19

\* No window of the critical tier can be the active one.
SafeWindows == \A p \in Procs : Pid(p) \in Windows => Attr[p].prio > 19

Distinct == \A j, k \in DOMAIN plan : plan[j].proc = plan[k].proc => j = k

\* A process with a thread is in a cgroup that rests, and in no plan.
Once ==
    \A p \in Procs : Attr[p].cgroup = NoCgroup \/ Attr[p].binary \in failed \/
        /\ spawned[p] + grace[p] <= 1
        /\ spawned[p] + grace[p] > 0 =>
              /\ Attr[p].cgroup \in cooling
              /\ \A k \in DOMAIN plan : plan[k].proc = p => plan[k].act = "none"

Inv == TypeOK /\ Exclusive /\ PidsKept /\ Distinct

\* Inv holds at the start, where nobody is planned or awaited.
LEMMA InvInit == Init => Inv
<1>. SUFFICES ASSUME Init
              PROVE  Inv
  OBVIOUS
<1>1. TypeOK /\ plan = << >> /\ alive = First /\ spawned = [p \in Procs |-> 0]
  BY TypeInit DEF Init
<1>2. Exclusive
  BY <1>1, FirstAssumption DEF Exclusive, Pid
<1>3. PidsKept /\ Distinct
  BY <1>1 DEF PidsKept, Distinct
<1>4. QED
  BY <1>1, <1>2, <1>3 DEF Inv

\* Who runs after a step ran before, unless it has just been started.
LEMMA Alive ==
    ASSUME Inv, [Next]_vars
    PROVE  \/ alive' \subseteq alive
           \/ \E p \in Procs : Start(p)
<1>1. CASE Execute
  <2>. DEFINE d == Head(plan)
  <2>. HIDE DEF d
  <2>1. Skip(d) \/ Freeze(d) \/ Kill(d) \/ Terminate(d) \/ Checkpoint(d) \/ CheckpointFails(d)
        => alive' \subseteq alive
    BY DEF Skip, Freeze, Kill, Terminate, Checkpoint, CheckpointFails, Die, env
  <2>2. QED
    BY <1>1, <2>1 DEF Execute, d
<1>2. QED
  BY <1>1 DEF Next, vars, env, Plan, Clear, Sigterm, GraceOver, CooldownOver, Exit, Hold,
              Release, Page, Pressure, Die

\* One decision concerns the owner of its pid, and may start one thread.
LEMMA ExecuteEffect ==
    ASSUME TypeOK, Execute
    PROVE  LET d == Head(plan) IN
           /\ plan # << >> /\ plan' = Tail(plan) /\ d = plan[1] /\ d \in Decisions
           /\ grace' = grace /\ cooling \subseteq cooling' /\ failed \subseteq failed'
           /\ alive' \subseteq alive
           /\ (alive \ alive') \cup (held' \ held) \subseteq Owner(d.proc)
           /\ d.act = "none" => UNCHANGED <<alive, held, spawned>>
           /\ \/ UNCHANGED spawned
              \/ /\ spawned' = [spawned EXCEPT ![d.proc] = @ + 1]
                 /\ \/ {Attr[d.proc].cgroup} \ {NoCgroup} \subseteq cooling'
                    \/ Attr[d.proc].binary \in failed'
<1>. DEFINE d == Head(plan)
<1>1. plan # << >> /\ plan' = Tail(plan) /\ d = plan[1] /\ d \in Decisions
  BY TailFacts DEF Execute, TypeOK
<1>2. Attr[d.proc].binary \in Binaries
  BY <1>1 DEF Decisions, Binaries
<1>. HIDE DEF d
<1>3. CASE Skip(d)
  BY <1>1, <1>3 DEF Skip, env, threads, d
<1>4. CASE Freeze(d)
  BY <1>1, <1>4 DEF Freeze, threads, d
<1>5. CASE Kill(d)
  BY <1>1, <1>5 DEF Kill, Die, Cool, threads, d
<1>6. CASE Terminate(d)
  BY <1>1, <1>6 DEF Terminate, Spawn, Cool, env, d
<1>7. CASE Checkpoint(d)
  BY <1>1, <1>7 DEF Checkpoint, Die, threads, d
<1>8. CASE CheckpointFails(d)
  <2>1. /\ grace' = grace /\ cooling' = cooling /\ held' = held /\ d.act # "none"
        /\ failed \subseteq failed' /\ Attr[d.proc].binary \in failed'
    BY <1>2, <1>8 DEF CheckpointFails, TypeOK
  <2>2. /\ alive' \subseteq alive /\ alive \ alive' \subseteq Owner(d.proc)
        /\ UNCHANGED spawned \/ spawned' = [spawned EXCEPT ![d.proc] = @ + 1]
    BY <1>8 DEF CheckpointFails, Spawn, Die
  <2>3. QED
    BY <1>1, <2>1, <2>2 DEF d
<1>9. QED
  BY <1>3, <1>4, <1>5, <1>6, <1>7, <1>8 DEF Execute, d

\* Inv is inductive as long as no pid is taken again between listing and signal.
LEMMA InvStep == ~QuickReuse /\ Inv /\ [Next]_vars => Inv'
<1>. SUFFICES ASSUME ~QuickReuse, Inv, [Next]_vars
              PROVE  Inv'
  OBVIOUS
<1>1. TypeOK /\ TypeOK'
  BY TypeStep DEF Inv
<1>2. Exclusive'
  <2>1. CASE alive' \subseteq alive
    BY <2>1 DEF Inv, Exclusive
  <2>2. ASSUME NEW p \in Procs, Start(p)
        PROVE  Exclusive'
    <3>1. alive' = alive \cup {p} /\ \A q \in alive : Pid(q) # Pid(p)
      BY <2>2 DEF Start, Owner
    <3>2. QED
      BY <3>1 DEF Inv, Exclusive
  <2>3. QED
    BY <2>1, <2>2, Alive
<1>3. \A p : alive' \subseteq alive /\ Owned(p) => Owned(p)'
  BY DEF Owned, Owner
<1>4. CASE Plan
  <2>1. alive' = alive /\ spawned' = spawned
    BY <1>4 DEF Plan, env, threads
  <2>2. \A p \in alive : Owned(p)
    BY DEF Inv, Exclusive, Owned, Owner
  <2>3. \A k \in DOMAIN plan' : plan'[k].proc \in alive
    BY <1>1, <1>4, PlanShape DEF Candidates
  <2>4. Distinct'
    BY <1>1, <1>4, PlanShape DEF Distinct
  <2>5. PidsKept'
    BY <1>3, <2>1, <2>2, <2>3 DEF Inv, PidsKept
  <2>6. QED
    BY <1>1, <1>2, <2>4, <2>5 DEF Inv
<1>5. CASE Execute
  <2>. DEFINE d == Head(plan)
  <2>1. /\ plan # << >> /\ plan' = Tail(plan) /\ d = plan[1] /\ d \in Decisions
        /\ UNCHANGED spawned \/ spawned' = [spawned EXCEPT ![d.proc] = @ + 1]
    BY <1>1, <1>5, ExecuteEffect
  <2>2. /\ 1 \in DOMAIN plan
        /\ \A k \in DOMAIN plan' : k + 1 \in DOMAIN plan /\ plan'[k] = plan[k + 1]
    BY <1>1, <2>1, TailFacts DEF TypeOK
  <2>. HIDE DEF d
  <2>3. alive' \subseteq alive
    BY <1>1, <1>5, ExecuteEffect
  <2>4. \A k \in DOMAIN plan' : \A q \in alive' :
           Pid(q) = Pid(plan'[k].proc) => q = plan'[k].proc
    BY <2>2, <2>3 DEF Inv, PidsKept, Owned, Owner
  <2>5. \A p \in Procs : spawned'[p] > 0 => Owned(p)'
    <3>1. Owned(d.proc)
      BY <2>1, <2>2 DEF Inv, PidsKept
    <3>2. QED
      BY <1>1, <1>3, <2>1, <2>3, <3>1 DEF Inv, PidsKept, TypeOK
  <2>6. Distinct'
    <3>. SUFFICES ASSUME NEW j \in DOMAIN plan', NEW k \in DOMAIN plan',
                         plan'[j].proc = plan'[k].proc
                  PROVE  j = k
      BY DEF Distinct
    <3>1. j \in Int /\ k \in Int
      <4>1. plan' \in Seq(Decisions)
        BY <1>1 DEF TypeOK
      <4>2. DOMAIN plan' = 1..Len(plan') /\ Len(plan') \in Nat
        BY <4>1, LenProperties
      <4>3. QED
        BY <4>2
    <3>2. j + 1 = k + 1
      BY <2>2 DEF Inv, Distinct
    <3>3. QED
      BY <3>1, <3>2
  <2>7. QED
    BY <1>1, <1>2, <2>4, <2>5, <2>6 DEF Inv, PidsKept, Owned, Owner
<1>6. ASSUME NEW p \in Procs, Start(p)
      PROVE  Inv'
  <2>1. UNCHANGED <<plan, spawned>> /\ alive' = alive \cup {p} /\ ~InUse(Pid(p))
    BY <1>6 DEF Start, threads
  <2>2. \A q : Owned(q) /\ Pid(q) # Pid(p) => Owned(q)'
    BY <2>1 DEF Owned, Owner
  <2>3. PidsKept'
    BY <2>1, <2>2 DEF Inv, PidsKept, InUse
  <2>4. QED
    BY <1>1, <1>2, <2>1, <2>3 DEF Inv, Distinct
<1>7. CASE /\ UNCHANGED plan /\ alive' \subseteq alive
           /\ \A p \in Procs : spawned'[p] <= spawned[p]
  <2>1. PidsKept'
    BY <1>1, <1>3, <1>7 DEF Inv, PidsKept, TypeOK
  <2>2. QED
    BY <1>1, <1>2, <1>7, <2>1 DEF Inv, Distinct
<1>8. ASSUME NEW p \in Procs, Sigterm(p) \/ GraceOver(p)
      PROVE  Inv'
  <2>1. UNCHANGED plan /\ alive' \subseteq alive
    BY <1>8 DEF Sigterm, GraceOver, Die, env
  <2>2. \A q \in Procs : spawned'[q] <= spawned[q]
    BY <1>1, <1>8 DEF Sigterm, GraceOver, TypeOK
  <2>3. QED
    BY <1>7, <2>1, <2>2
<1>9. CASE UNCHANGED <<plan, spawned>> /\ alive' \subseteq alive
  BY <1>1, <1>7, <1>9 DEF TypeOK
<1>10. QED
  BY <1>4, <1>5, <1>6, <1>8, <1>9
     DEF Next, vars, env, threads, Clear, CooldownOver, Exit, Hold, Release, Page, Pressure, Die

\* Who is struck is who the plan or a thread is about.
LEMMA StruckTargets ==
    ASSUME Inv, [Next]_vars, NEW p \in Struck
    PROVE  /\ p \in Procs
           /\ \/ plan # << >> /\ plan' # plan /\ p = Head(plan).proc /\ Head(plan).act # "none"
              \/ spawned'[p] < spawned[p] /\ spawned[p] > 0
              \/ grace'[p] < grace[p] /\ grace[p] > 0
<1>1. TypeOK /\ TypeOK'
  BY TypeStep DEF Inv
<1>2. p \in Procs
  BY <1>1 DEF Struck, TypeOK
<1>3. CASE Plan
  BY <1>1, <1>2, <1>3 DEF Struck, Plan, env, threads, TypeOK
<1>4. CASE Execute
  <2>. DEFINE d == Head(plan)
  <2>1. /\ plan # << >> /\ plan' = Tail(plan) /\ d = plan[1] /\ 1 \in DOMAIN plan
        /\ grace' = grace /\ (alive \ alive') \cup (held' \ held) \subseteq Owner(d.proc)
        /\ d.act = "none" => UNCHANGED <<alive, held>>
    BY <1>1, <1>4, ExecuteEffect, TailFacts DEF TypeOK
  <2>2. plan' # plan
    <3>1. Len(plan') = Len(plan) - 1 /\ Len(plan) \in Nat
      BY <1>1, <2>1, HeadTailProperties, LenProperties DEF TypeOK
    <3>2. QED
      BY <3>1
  <2>. HIDE DEF d
  <2>3. Owner(d.proc) \subseteq {d.proc}
    BY <2>1 DEF Inv, PidsKept, Owned
  <2>4. p \in (alive \ alive') \cup (held' \ held)
    BY <1>1, <1>2, <2>1 DEF Struck, TypeOK
  <2>5. QED
    BY <1>2, <2>1, <2>2, <2>3, <2>4 DEF d
<1>5. ASSUME NEW q \in Procs, Sigterm(q)
      PROVE  p = q /\ spawned'[p] < spawned[p] /\ spawned[p] > 0
  <2>1. Owner(q) \subseteq {q}
    BY <1>5 DEF Sigterm, Inv, PidsKept, Owned
  <2>2. p \in Owner(q)
    BY <1>1, <1>2, <1>5 DEF Struck, Sigterm, env, TypeOK
  <2>3. QED
    BY <1>1, <1>5, <2>1, <2>2 DEF Sigterm, TypeOK
<1>6. ASSUME NEW q \in Procs, GraceOver(q)
      PROVE  p = q /\ grace'[p] < grace[p] /\ grace[p] > 0
  <2>1. /\ alive \ alive' \subseteq {q} /\ held' = held
        /\ grace' = [grace EXCEPT ![q] = @ - 1] /\ grace[q] > 0
    BY <1>6 DEF GraceOver, Die, Sigkilled
  <2>2. p = q
    BY <1>1, <1>2, <2>1 DEF Struck, TypeOK
  <2>3. QED
    BY <1>1, <2>1, <2>2 DEF TypeOK
<1>7. CASE UNCHANGED <<plan, threads>>
  BY <1>7 DEF Struck, ByDaemon
<1>8. QED
  BY <1>2, <1>3, <1>4, <1>5, <1>6, <1>7
     DEF Next, vars, Clear, CooldownOver, Start, Exit, Hold, Release, Page, Pressure

\* As long as no pid is reused between the listing and the signal, nobody is
\* struck in place of another, though pids are reused during the grace of a
\* SIGTERM thread, and after it.
THEOREM NobodyInPlace ==
    ASSUME ~QuickReuse
    PROVE  Spec => OnlyTargetsStruck
<1>1. Inv /\ [Next]_vars =>
        \A p \in Struck :
            \/ plan # << >> /\ plan' # plan /\ p = Head(plan).proc
            \/ spawned'[p] < spawned[p] \/ grace'[p] < grace[p]
  BY StruckTargets
<1>2. Init => Inv
  BY InvInit
<1>3. Inv /\ [Next]_vars => Inv'
  BY InvStep
<1>4. QED
  BY <1>1, <1>2, <1>3, PTL DEF Spec, OnlyTargetsStruck

-----------------------------------------------------------------------------
(* The system tier and the protect list.                                   *)

TargetsTouchable == \A p \in Procs : Targeted(p) => Touchable(p)

\* Only touchable processes get into a plan, and a SIGTERM thread is started for planned
\* ones.
LEMMA TouchableStep ==
    ~QuickReuse /\ SafeWindows /\ Inv /\ TargetsTouchable /\ [Next]_vars => TargetsTouchable'
<1>. SUFFICES ASSUME ~QuickReuse, SafeWindows, Inv, TargetsTouchable, [Next]_vars,
                     NEW p \in Procs, Targeted(p)'
              PROVE  Touchable(p)
  BY DEF TargetsTouchable, Touchable
<1>1. TypeOK /\ TypeOK'
  BY TypeStep DEF Inv
<1>2. CASE Plan
  <2>1. UNCHANGED <<spawned, grace>>
    BY <1>2 DEF Plan, threads
  <2>2. PICK focus \in Windows \cup {NoPid} : \A k \in DOMAIN plan' :
           plan'[k].act # "none" => ~Spared(plan'[k].proc, Priority(plan'[k].proc, focus))
    BY <1>1, <1>2, PlanShape
  <2>3. Pid(p) = focus => Attr[p].prio > 19
    BY <2>2, AttrType DEF SafeWindows
  <2>4. ~Spared(p, Priority(p, focus)) => Touchable(p)
    BY <2>3, AttrType, PriorityType DEF Spared, Touchable
  <2>5. QED
    BY <2>1, <2>2, <2>4 DEF Targeted, TargetsTouchable
<1>3. CASE Execute
  <2>. DEFINE d == Head(plan)
  <2>1. /\ d = plan[1] /\ d \in Decisions /\ grace' = grace
        /\ d.act = "none" => UNCHANGED spawned
        /\ UNCHANGED spawned \/ spawned' = [spawned EXCEPT ![d.proc] = @ + 1]
    BY <1>1, <1>3, ExecuteEffect
  <2>2. /\ 1 \in DOMAIN plan
        /\ \A k \in DOMAIN plan' : k + 1 \in DOMAIN plan /\ plan'[k] = plan[k + 1]
    BY <1>1, <1>3, ExecuteEffect, TailFacts DEF TypeOK
  <2>. HIDE DEF d
  <2>3. spawned'[p] > 0 => spawned[p] > 0 \/ (p = d.proc /\ d.act # "none")
    BY <1>1, <2>1 DEF TypeOK
  <2>4. Targeted(p)
    BY <2>1, <2>2, <2>3 DEF Targeted
  <2>5. QED
    BY <2>4 DEF TargetsTouchable
<1>4. ASSUME NEW q \in Procs, Sigterm(q)
      PROVE  Targeted(p)
  <2>1. Owner(q) \subseteq {q} /\ spawned[q] > 0
    BY <1>4 DEF Sigterm, Inv, PidsKept, Owned
  <2>2. /\ plan' = plan /\ (spawned'[p] > 0 => spawned[p] > 0)
        /\ grace'[p] > 0 => grace[p] > 0 \/ p \in Owner(q)
    BY <1>1, <1>4 DEF Sigterm, TypeOK
  <2>3. QED
    BY <2>1, <2>2 DEF Targeted
<1>5. ASSUME NEW q \in Procs, GraceOver(q)
      PROVE  Targeted(p)
  <2>1. UNCHANGED <<plan, spawned>> /\ grace'[p] <= grace[p]
    BY <1>1, <1>5 DEF GraceOver, TypeOK
  <2>2. QED
    BY <1>1, <2>1 DEF Targeted, TypeOK
<1>6. CASE UNCHANGED <<plan, threads>>
  BY <1>6 DEF Targeted, TargetsTouchable, threads
<1>7. QED
  BY <1>2, <1>3, <1>4, <1>5, <1>6
     DEF TargetsTouchable, Next, vars, Clear, CooldownOver, Start, Exit, Hold, Release, Page,
         Pressure

\* Unless a window of the system tier can be the active one, protected
\* processes and those of the system tier are never touched, by the plan or
\* by a thread, whatever the list, the swap and the level are.
THEOREM SystemTierSafe ==
    ASSUME ~QuickReuse, SafeWindows
    PROVE  Spec => NeverTouched
<1>1. Init => TargetsTouchable
  BY DEF Init, TargetsTouchable, Targeted
<1>2. Init => Inv
  BY InvInit
<1>3. Inv /\ [Next]_vars => Inv'
  BY InvStep
<1>4. Inv /\ TargetsTouchable /\ [Next]_vars => TargetsTouchable'
  BY TouchableStep
<1>5. Inv /\ TargetsTouchable /\ [Next]_vars =>
        \A p \in Struck : ~Attr[p].protected /\ Attr[p].prio > 19
  <2>. SUFFICES ASSUME Inv, TargetsTouchable, [Next]_vars, NEW p \in Struck
                PROVE  Touchable(p)
    BY DEF Touchable
  <2>1. plan # << >> => Head(plan) = plan[1] /\ 1 \in DOMAIN plan
    BY TailFacts DEF Inv, TypeOK
  <2>2. p \in Procs /\ Targeted(p)
    BY <2>1, StruckTargets DEF Targeted
  <2>3. QED
    BY <2>2 DEF TargetsTouchable
<1>6. QED
  BY <1>1, <1>2, <1>3, <1>4, <1>5, PTL DEF Spec, NeverTouched

-----------------------------------------------------------------------------
(* One SIGTERM thread for a process at a time.                             *)

\* Taking a decision leaves nobody with a second thread: the cgroup it was in rests.
LEMMA OnceExecute ==
    ASSUME Inv, Once, Execute, TypeOK'
    PROVE  Once'
<1>. DEFINE d == Head(plan)
<1>1. TypeOK
  BY DEF Inv
<1>2. /\ plan # << >> /\ d = plan[1] /\ d \in Decisions /\ grace' = grace
      /\ cooling \subseteq cooling' /\ failed \subseteq failed'
      /\ d.act = "none" => UNCHANGED spawned
      /\ \/ UNCHANGED spawned
         \/ /\ spawned' = [spawned EXCEPT ![d.proc] = @ + 1]
            /\ \/ {Attr[d.proc].cgroup} \ {NoCgroup} \subseteq cooling'
               \/ Attr[d.proc].binary \in failed'
  BY <1>1, ExecuteEffect
<1>3. /\ 1 \in DOMAIN plan
      /\ \A k \in DOMAIN plan' : k + 1 \in DOMAIN plan /\ k + 1 # 1 /\ plan'[k] = plan[k + 1]
  BY <1>1, <1>2, ExecuteEffect, TailFacts DEF TypeOK
<1>. HIDE DEF d
<1>. SUFFICES ASSUME NEW p \in Procs, Attr[p].cgroup # NoCgroup, Attr[p].binary \notin failed'
              PROVE  /\ spawned'[p] + grace'[p] <= 1
                     /\ spawned'[p] + grace'[p] > 0 =>
                           /\ Attr[p].cgroup \in cooling'
                           /\ \A k \in DOMAIN plan' :
                                 plan'[k].proc = p => plan'[k].act = "none"
  BY DEF Once
<1>4. /\ spawned[p] + grace[p] <= 1
      /\ spawned[p] + grace[p] > 0 =>
            /\ Attr[p].cgroup \in cooling
            /\ \A k \in DOMAIN plan : plan[k].proc = p => plan[k].act = "none"
  BY <1>2 DEF Once
<1>5. CASE spawned'[p] = spawned[p]
  BY <1>2, <1>3, <1>4, <1>5
<1>6. CASE spawned'[p] # spawned[p]
  <2>1. p = d.proc /\ d.act # "none" /\ spawned'[p] = spawned[p] + 1
    BY <1>1, <1>2, <1>6 DEF TypeOK
  <2>2. spawned[p] + grace[p] = 0
    BY <1>1, <1>2, <1>3, <1>4, <2>1 DEF TypeOK
  <2>3. Attr[p].cgroup \in cooling'
    BY <1>2, <1>6, <2>1
  <2>4. \A k \in DOMAIN plan' : plan'[k].proc # p
    BY <1>2, <1>3, <2>1 DEF Inv, Distinct
  <2>5. QED
    BY <1>1, <1>2, <2>1, <2>2, <2>3, <2>4 DEF TypeOK
<1>7. QED
  BY <1>5, <1>6

\* Nor does any other step.
LEMMA OnceStep == Inv /\ Once /\ [Next]_vars => Once'
<1>. SUFFICES ASSUME Inv, Once, [Next]_vars
              PROVE  Once'
  OBVIOUS
<1>1. TypeOK /\ TypeOK'
  BY TypeStep DEF Inv
<1>2. CASE Plan
  <2>1. UNCHANGED <<cooling, failed, spawned, grace>>
    BY <1>2 DEF Plan, threads
  <2>2. \A k \in DOMAIN plan' : Attr[plan'[k].proc].cgroup \notin cooling
    BY <1>1, <1>2, PlanShape DEF Candidates
  <2>3. QED
    BY <2>1, <2>2 DEF Once
<1>3. CASE Execute
  BY <1>1, <1>3, OnceExecute
<1>4. CASE /\ UNCHANGED <<plan, cooling, failed>>
           /\ \A p \in Procs : spawned'[p] + grace'[p] <= spawned[p] + grace[p]
  <2>. SUFFICES ASSUME NEW p \in Procs, Attr[p].cgroup # NoCgroup, Attr[p].binary \notin failed
                PROVE  /\ spawned'[p] + grace'[p] <= 1
                       /\ spawned'[p] + grace'[p] > 0 =>
                             /\ Attr[p].cgroup \in cooling
                             /\ \A k \in DOMAIN plan :
                                   plan[k].proc = p => plan[k].act = "none"
    BY <1>4 DEF Once
  <2>1. /\ spawned[p] \in Nat /\ grace[p] \in Nat /\ spawned'[p] \in Nat /\ grace'[p] \in Nat
        /\ spawned'[p] + grace'[p] <= spawned[p] + grace[p]
    BY <1>1, <1>4 DEF TypeOK
  <2>2. QED
    BY <2>1 DEF Once
<1>5. ASSUME NEW q \in Procs, Sigterm(q)
      PROVE  Once'
  <2>1. Owner(q) \subseteq {q}
    BY <1>5 DEF Sigterm, Inv, PidsKept, Owned
  <2>2. \A p \in Procs : spawned'[p] + grace'[p] <= spawned[p] + grace[p]
    BY <1>1, <1>5, <2>1 DEF Sigterm, TypeOK
  <2>3. QED
    BY <1>4, <1>5, <2>2 DEF Sigterm
<1>6. ASSUME NEW q \in Procs, GraceOver(q)
      PROVE  Once'
  <2>1. \A p \in Procs : spawned'[p] + grace'[p] <= spawned[p] + grace[p]
    BY <1>1, <1>6 DEF GraceOver, TypeOK
  <2>2. QED
    BY <1>4, <1>6, <2>1 DEF GraceOver
<1>7. ASSUME NEW g \in Cgroups, CooldownOver(g)
      PROVE  Once'
  <2>1. /\ UNCHANGED <<plan, failed, spawned, grace>> /\ cooling' = cooling \ {g}
        /\ \A p \in Procs : Attr[p].cgroup = g => spawned[p] = 0 /\ grace[p] = 0
    BY <1>7 DEF CooldownOver, threads
  <2>2. QED
    BY <2>1 DEF Once
<1>8. CASE UNCHANGED <<plan, cooling, failed, threads>>
  BY <1>8 DEF Once, threads
<1>9. QED
  BY <1>2, <1>3, <1>5, <1>6, <1>7, <1>8
     DEF Next, vars, Clear, Start, Exit, Hold, Release, Page, Pressure

\* A process in a cgroup gets no second SIGTERM thread while it has one,
\* unless a dump of its program has failed: its cgroup rests until the
\* thread is done, and the plan it is in has no second decision about it.
THEOREM SingleTerminator ==
    ASSUME ~QuickReuse
    PROVE  Spec => []OneTerminator
<1>1. Init => Inv /\ Once
  <2>1. Init => Once
    BY DEF Init, Once
  <2>2. QED
    BY <2>1, InvInit
<1>2. Inv /\ Once /\ [Next]_vars => Inv' /\ Once'
  BY InvStep, OnceStep
<1>3. Once => OneTerminator
  BY DEF Once, OneTerminator
<1>4. QED
  BY <1>1, <1>2, <1>3, PTL DEF Spec
-----------------------------------------------------------------------------
(* What plan() decides.  Left is a recursion along the list, of which the  *)
(* next lemma says that it goes through to the end.                        *)

\* A function on 0..n is given by its first value and by each of the others from the one
\* before.
LEMMA StepByStep ==
    ASSUME NEW n \in Nat, NEW a \in Int, NEW step \in [(1..n) \X Int -> Int]
    PROVE  \E h \in [0..n -> Int] : h[0] = a /\ \A i \in 1..n : h[i] = step[<<i, h[i - 1]>>]
<1> DEFINE Good(k, h) == /\ h \in [0..k -> Int] /\ h[0] = a
                         /\ \A i \in 1..k : h[i] = step[<<i, h[i - 1]>>]
           Bad == {k \in 0..n : ~\E h : Good(k, h)}
<1>0. n \in 0..n /\ (n \notin Bad => \E h : Good(n, h))
  OBVIOUS
<1>1. SUFFICES ASSUME Bad # {} PROVE FALSE
  <2> HIDE DEF Bad
  <2>1. QED
    BY <1>0
<1>2. PICK k \in Bad : \A m \in Bad : k <= m
  <2>1. Bad \subseteq Nat
    OBVIOUS
  <2> HIDE DEF Bad
  <2>2. QED
    BY <1>1, <2>1, Least
<1>3. k # 0
  <2>1. Good(0, [i \in 0..0 |-> a])
    OBVIOUS
  <2>2. QED
    BY <2>1
<1>4. k - 1 \in 0..n /\ k - 1 \notin Bad /\ k \in 1..n
  BY <1>2, <1>3
<1>5. PICK g : Good(k - 1, g)
  BY <1>4
<1> DEFINE h == [i \in 0..k |-> IF i = k THEN step[<<k, g[k - 1]>>] ELSE g[i]]
<1>6. Good(k, h)
  <2>1. step[<<k, g[k - 1]>>] \in Int
    BY <1>4, <1>5
  <2>2. h \in [0..k -> Int] /\ h[0] = a
    BY <1>4, <1>5, <2>1
  <2>3. ASSUME NEW i \in 1..k PROVE h[i] = step[<<i, h[i - 1]>>]
    <3>1. h[i - 1] = g[i - 1]
      BY <1>4
    <3>2. CASE i = k
      <4>1. h[i] = step[<<k, g[k - 1]>>] /\ h[i - 1] = g[k - 1]
        BY <1>4, <3>1, <3>2
      <4>2. QED
        BY <3>2, <4>1
    <3>3. CASE i # k
      <4>1. i \in 1..(k - 1) /\ h[i] = g[i]
        BY <1>4, <3>3
      <4>2. QED
        BY <1>5, <3>1, <4>1
    <3>4. QED
      BY <3>2, <3>3
  <2>4. QED
    BY <2>2, <2>3
<1>7. QED
  BY <1>2, <1>6

\* What the candidate at place i of the list frees if it comes to it.
Gain(order, focus, full, i) ==
    Frees(order[i], ActionFor(order[i], Priority(order[i], focus), full))

IsLeft(order, focus, full, h) ==
    h = [i \in 0..Len(order) |->
            IF i = 0 THEN Deficit
            ELSE IF Covered(h[i - 1]) THEN h[i - 1]
            ELSE h[i - 1] - Gain(order, focus, full, i)]

\* RAM is a natural number, and a deficit an integer.
LEMMA DeficitType ==
    ASSUME TypeOK
    PROVE  Deficit \in Int /\ \A p \in Procs : Rss(p) \in Nat
<1>1. \A p \in Procs : Rss(p) \in Nat
  BY AttrType DEF Rss
<1> DEFINE rss == [p \in alive |-> Rss(p)]
<1>2. alive \subseteq Procs /\ IsFiniteSet(alive)
  BY FiniteAssumption, FS_Subset DEF TypeOK
<1>3. MapThenSumSet(Rss, alive) = Sum(rss, alive)
  <2> DEFINE OfRss(h) == h = [s \in SUBSET alive |->
                          IF s = {} THEN 0 ELSE Rss(Pick(s)) + h[s \ {Pick(s)}]]
             one == CHOOSE h : OfRss(h)
  <2>1. MapThenSumSet(Rss, alive) = one[alive]
    BY DEF MapThenSumSet, MapThenFoldSet, Pick
  <2>2. \A s \in SUBSET alive : s # {} => rss[Pick(s)] = Rss(Pick(s))
    BY PickIn
  <2>3. \A h : OfRss(h) <=> IsIter(rss, alive, h)
    BY <2>2 DEF IsIter
  <2>4. \E h : OfRss(h)
    BY <1>2, <2>3, IterExists
  <2>5. IsIter(rss, alive, one)
    <3> HIDE DEF OfRss
    <3>1. QED
      BY <2>3, <2>4
  <2>6. QED
    BY <1>2, <2>1, <2>5, IterIsSum
<1>4. Sum(rss, alive) \in Nat
  BY <1>1, <1>2, SumIsNat
<1>5. load \in Nat /\ Budget \in Nat
  BY NumbersAssumption DEF TypeOK
<1>6. QED
  BY <1>1, <1>3, <1>4, <1>5 DEF Deficit

\* What the deficit comes to along the list: it is reduced until it is covered, and then no
\* more (decision.rs:131-185).
LEMMA LeftType ==
    ASSUME TypeOK, NEW order \in Seq(Procs), NEW focus, NEW full \in BOOLEAN
    PROVE  LET left == Left(order, focus, full)
           IN /\ left \in [0..Len(order) -> Int] /\ left[0] = Deficit
              /\ \A i \in 1..Len(order) :
                    /\ Gain(order, focus, full, i) \in Nat
                    /\ left[i] = IF left[i - 1] <= 0 THEN left[i - 1]
                                 ELSE left[i - 1] - Gain(order, focus, full, i)
<1> DEFINE n == Len(order)
           gain(i) == Gain(order, focus, full, i)
           step == [x \in (1..n) \X Int |-> IF x[2] <= 0 THEN x[2] ELSE x[2] - gain(x[1])]
           left == Left(order, focus, full)
<1>1. n \in Nat /\ Deficit \in Int
  BY DeficitType, LenProperties
<1>2. \A i \in 1..n : gain(i) \in Nat
  <2>1. \A i \in 1..n : Rss(order[i]) \in Nat
    BY DeficitType
  <2>2. QED
    BY <2>1 DEF Gain, Frees
<1> HIDE DEF gain
<1>3. step \in [(1..n) \X Int -> Int]
  <2>1. ASSUME NEW x \in (1..n) \X Int
        PROVE  (IF x[2] <= 0 THEN x[2] ELSE x[2] - gain(x[1])) \in Int
    <3>1. x[2] \in Int /\ gain(x[1]) \in Nat
      BY <1>2
    <3>2. QED
      BY <3>1
  <2>2. QED
    BY <2>1
<1>4. \E h : IsLeft(order, focus, full, h)
  <2>1. PICK h \in [0..n -> Int] : h[0] = Deficit /\ \A i \in 1..n : h[i] = step[<<i, h[i - 1]>>]
    <3>1. ASSUME NEW m \in Nat, m = n
          PROVE  \E h \in [0..m -> Int] :
                    h[0] = Deficit /\ \A i \in 1..m : h[i] = step[<<i, h[i - 1]>>]
      <4>1. step \in [(1..m) \X Int -> Int]
        BY <1>3, <3>1
      <4> HIDE DEF step, n
      <4>2. QED
        BY <1>1, <4>1, StepByStep
    <3>2. QED
      BY <1>1, <3>1
  <2>2. \A i \in 1..n : h[i] = IF h[i - 1] <= 0 THEN h[i - 1] ELSE h[i - 1] - gain(i)
    <3>1. ASSUME NEW i \in 1..n PROVE <<i, h[i - 1]>> \in (1..n) \X Int
      BY <1>1, <3>1
    <3>2. QED
      BY <2>1, <3>1
  <2>3. IsLeft(order, focus, full, h)
    <3>1. \A i \in 0..n : h[i] = IF i = 0 THEN Deficit
                                 ELSE IF Covered(h[i - 1]) THEN h[i - 1]
                                 ELSE h[i - 1] - gain(i)
      BY <1>1, <2>1, <2>2 DEF Covered
    <3>2. QED
      BY <2>1, <3>1 DEF IsLeft, gain
  <2>4. QED
    BY <2>3
<1>5. left = CHOOSE h : IsLeft(order, focus, full, h)
  BY DEF Left, IsLeft, Gain
<1>6. IsLeft(order, focus, full, left)
  BY <1>4, <1>5
<1> HIDE DEF left
<1>7. /\ left[0] = Deficit
      /\ \A i \in 1..n : left[i] = IF left[i - 1] <= 0 THEN left[i - 1]
                                   ELSE left[i - 1] - gain(i)
  BY <1>1, <1>6 DEF IsLeft, Covered, gain
<1>8. \A i \in 0..n : left[i] \in Int
  <2> DEFINE Bad == {i \in 0..n : left[i] \notin Int}
  <2>1. SUFFICES ASSUME Bad # {} PROVE FALSE
    OBVIOUS
  <2>2. PICK i \in Bad : \A m \in Bad : i <= m
    <3>1. Bad \subseteq Nat
      OBVIOUS
    <3> HIDE DEF Bad
    <3>2. QED
      BY <2>1, <3>1, Least
  <2>3. i # 0
    BY <1>1, <1>7, <2>2
  <2>4. left[i - 1] \in Int /\ i \in 1..n
    BY <1>1, <2>2, <2>3
  <2>5. QED
    BY <1>2, <1>7, <2>2, <2>4
<1>9. left \in [0..n -> Int]
  BY <1>6, <1>8 DEF IsLeft
<1>10. QED
  BY <1>2, <1>7, <1>9 DEF left, gain

\* A plan, entry by entry: the candidates in an order that has nobody behind one he should
\* be before, and for each what determine_process_action says as long as something is left
\* of the deficit.
Decided(n, order, focus, full, left) ==
    /\ DOMAIN plan' = 1..n /\ left[0] = Deficit
    /\ \A i \in 1..n :
          /\ order[i] \in Procs /\ Priority(order[i], focus) \in 0..100
          /\ plan'[i].proc = order[i] /\ plan'[i].prio = Priority(order[i], focus)
          /\ plan'[i].act = IF left[i - 1] <= 0 THEN "none"
                            ELSE ActionFor(order[i], Priority(order[i], focus), full)
          /\ Frees(plan'[i].proc, plan'[i].act) \in Nat
          /\ left[i] = left[i - 1] - Frees(plan'[i].proc, plan'[i].act)
    /\ \A i, j \in 1..n : i < j => ~Before(order[j], order[i], focus)

\* This is what plan() decides (decision.rs:107-185).
LEMMA PlanDecided ==
    ASSUME TypeOK, Plan
    PROVE  \E n \in Nat, full \in BOOLEAN : \E left \in [0..n -> Int] : \E order, focus :
              Decided(n, order, focus, full, left)
<1>1. PICK focus \in Windows \cup {NoPid}, full \in BOOLEAN :
         \E order \in Orders(focus) : plan' = Decide(order, focus, full)
  BY DEF Plan
<1>2. PICK order \in Orders(focus) : plan' = Decide(order, focus, full)
  BY <1>1
<1>3. Candidates \subseteq Procs /\ Cardinality(Candidates) \in Nat
  <2>1. Candidates \subseteq Procs
    BY DEF Candidates, TypeOK
  <2>2. QED
    BY <2>1, FiniteAssumption, FS_Subset, FS_CardinalityType
<1> DEFINE n == Cardinality(Candidates)
<1>4. /\ order \in [1..n -> Candidates]
      /\ \A i, j \in 1..n : i < j => ~Before(order[j], order[i], focus)
  BY <1>2, Zenon DEF Orders
<1>5. order \in Seq(Procs) /\ Len(order) = n
  <2>1. order \in Seq(Procs)
    BY <1>3, <1>4, SeqDef
  <2>2. QED
    BY <1>3, <1>4, <2>1, LenProperties
<1> DEFINE left == Left(order, focus, full)
<1>6. /\ left \in [0..n -> Int] /\ left[0] = Deficit
      /\ \A i \in 1..n :
            /\ Gain(order, focus, full, i) \in Nat
            /\ left[i] = IF left[i - 1] <= 0 THEN left[i - 1]
                         ELSE left[i - 1] - Gain(order, focus, full, i)
  BY <1>1, <1>5, LeftType
<1>7. plan' = [i \in 1..n |->
          [proc |-> order[i], prio |-> Priority(order[i], focus),
           act  |-> IF left[i - 1] <= 0 THEN "none"
                    ELSE ActionFor(order[i], Priority(order[i], focus), full)]]
  BY <1>2, <1>5 DEF Decide, Covered
<1> HIDE DEF left, n
<1>8. ASSUME NEW i \in 1..n
      PROVE  /\ order[i] \in Procs /\ Priority(order[i], focus) \in 0..100
             /\ plan'[i].proc = order[i] /\ plan'[i].prio = Priority(order[i], focus)
             /\ plan'[i].act =
                   IF left[i - 1] <= 0 THEN "none"
                   ELSE ActionFor(order[i], Priority(order[i], focus), full)
             /\ Frees(plan'[i].proc, plan'[i].act) \in Nat
             /\ left[i] = left[i - 1] - Frees(plan'[i].proc, plan'[i].act)
  <2>1. order[i] \in Procs /\ Priority(order[i], focus) \in 0..100
    BY <1>3, <1>4, PriorityType DEF n
  <2>2. /\ plan'[i].proc = order[i] /\ plan'[i].prio = Priority(order[i], focus)
        /\ plan'[i].act = IF left[i - 1] <= 0 THEN "none"
                          ELSE ActionFor(order[i], Priority(order[i], focus), full)
    BY <1>7
  <2>3. left[i - 1] \in Int
    <3>1. n \in Nat
      BY <1>3 DEF n
    <3>2. i - 1 \in 0..n
      BY <3>1
    <3>3. left \in [0..n -> Int]
      BY <1>6
    <3>4. QED
      BY <3>2, <3>3
  <2>4. CASE left[i - 1] <= 0
    <3>1. Frees(plan'[i].proc, plan'[i].act) = 0
      BY <2>2, <2>4 DEF Frees
    <3>2. QED
      BY <1>6, <2>1, <2>2, <2>3, <2>4, <3>1
  <2>5. CASE ~(left[i - 1] <= 0)
    <3>1. Frees(plan'[i].proc, plan'[i].act) = Gain(order, focus, full, i)
      BY <2>2, <2>5 DEF Gain
    <3>2. QED
      BY <1>6, <2>1, <2>2, <2>3, <2>5, <3>1
  <2>6. QED
    BY <2>4, <2>5
<1>9. DOMAIN plan' = 1..n
  BY <1>7
<1>10. n \in Nat /\ \A i, j \in 1..n : i < j => ~Before(order[j], order[i], focus)
  BY <1>3, <1>4 DEF n
<1>11. left \in [0..n -> Int] /\ Decided(n, order, focus, full, left)
  BY <1>6, <1>8, <1>9, <1>10 DEF Decided
<1>12. QED
  BY <1>1, <1>10, <1>11

\* Who is worth less is acted upon as well, unless he is protected: the tables of
\* determine_process_action grow with the priority value (decision.rs:190-245).
LEMMA ActsFromAbove ==
    ASSUME level \in Levels, NEW full \in BOOLEAN, NEW p, NEW q,
           NEW low \in 0..100, NEW high \in 0..100, low < high,
           ActionFor(p, low, full) # "none", ~Attr[q].protected
    PROVE  ActionFor(q, high, full) # "none"
<1>1. ~Spared(q, high)
  BY DEF ActionFor, Spared
<1>2. AtCritical(q, high) # "none"
  BY DEF AtCritical
<1>3. CASE full /\ high >= 80
  BY <1>1, <1>3 DEF ActionFor
<1>4. CASE ~(full /\ high >= 80)
  <2>1. ~Spared(p, low) /\ ~(full /\ low >= 80)
    BY <1>4 DEF ActionFor
  <2>2. CASE level = "Normal"
    BY <2>1, <2>2 DEF ActionFor
  <2>3. CASE level = "Elevated"
    <3>1. low >= 60
      BY <2>1, <2>3 DEF ActionFor
    <3>2. QED
      BY <1>1, <1>4, <2>3, <3>1 DEF ActionFor
  <2>4. CASE level = "High"
    <3>1. low >= 60
      BY <2>1, <2>4 DEF ActionFor
    <3>2. QED
      BY <1>1, <1>4, <2>4, <3>1 DEF ActionFor
  <2>5. CASE level = "Critical"
    BY <1>1, <1>2, <1>4, <2>5 DEF ActionFor
  <2>6. CASE level = "Emergency"
    BY <1>1, <1>4, <2>6 DEF ActionFor
  <2>7. QED
    BY <2>2, <2>3, <2>4, <2>5, <2>6 DEF Levels
<1>5. QED
  BY <1>3, <1>4

\* What a plan decides about its first i entries adds up to what is gone of the deficit.
LEMMA LeftIsRest ==
    ASSUME NEW n \in Nat, NEW left \in [0..n -> Int], NEW f,
           \A i \in 1..n : f[i] \in Nat /\ left[i] = left[i - 1] - f[i]
    PROVE  \A i \in 0..n : /\ left[i] = left[0] - Sum(f, 1..i)
                           /\ \A k \in 0..i : left[i] <= left[k]
<1> DEFINE Good(i) == /\ left[i] = left[0] - Sum(f, 1..i)
                      /\ \A k \in 0..i : left[i] <= left[k]
           Bad == {i \in 0..n : ~Good(i)}
<1>1. SUFFICES ASSUME Bad # {} PROVE FALSE
  OBVIOUS
<1>2. PICK i \in Bad : \A m \in Bad : i <= m
  <2>1. Bad \subseteq Nat
    OBVIOUS
  <2> HIDE DEF Bad
  <2>2. QED
    BY <1>1, <2>1, Least
<1>3. i # 0
  <2>1. 1..0 = {} /\ left[0] \in Int /\ Sum(f, {}) = 0
    BY SumEmpty
  <2>2. 0..0 = {0}
    OBVIOUS
  <2>3. Good(0)
    BY <2>1, <2>2
  <2>4. QED
    BY <1>2, <2>3
<1>4. i - 1 \in 0..n /\ i - 1 \notin Bad /\ i \in 1..n
  BY <1>2, <1>3
<1>5. Good(i - 1)
  BY <1>4
<1>6. Sum(f, 1..i) = f[i] + Sum(f, 1..(i - 1)) /\ Sum(f, 1..(i - 1)) \in Int
  <2> DEFINE U == 1..i
  <2>0. IsFiniteSet(U)
    <3>1. i \in Int /\ 1 \in Int
      BY <1>4
    <3>2. QED
      BY <3>1, FS_Interval
  <2>1. IsFiniteSet(U) /\ \A x \in U : f[x] \in Int
    BY <1>4, <2>0
  <2>2. U \ {i} = 1..(i - 1) /\ i \in U /\ 1..(i - 1) \in SUBSET U
    BY <1>4
  <2> HIDE DEF U, Good, Bad
  <2>3. Sum(f, U) = f[i] + Sum(f, U \ {i})
    <3>1. \A x \in U : Sum(f, U) = f[x] + Sum(f, U \ {x})
      BY <2>1, SumTakeOut
    <3>2. QED
      BY <2>2, <3>1
  <2>4. Sum(f, 1..(i - 1)) \in Int
    BY <2>1, <2>2, SumIsInt
  <2>5. QED
    BY <2>2, <2>3, <2>4 DEF U
<1>7. left[i] = left[i - 1] - f[i] /\ f[i] \in Nat /\ left[i - 1] \in Int /\ left[0] \in Int
  BY <1>4
<1>8. left[i] = left[0] - Sum(f, 1..i)
  BY <1>5, <1>6, <1>7
<1>9. ASSUME NEW k \in 0..i PROVE left[i] <= left[k]
  <2>1. CASE k = i
    BY <1>4, <2>1
  <2>2. CASE k # i
    <3>1. k \in 0..(i - 1) /\ left[k] \in Int
      BY <1>4, <2>2
    <3>2. QED
      BY <1>5, <1>7, <3>1
  <2>3. QED
    BY <2>1, <2>2
<1>10. QED
  BY <1>2, <1>8, <1>9

\* Only plan() makes a plan where there was none.
LEMMA PlanOnlyByPlan ==
    ASSUME [Next]_vars, plan = << >>, DOMAIN plan' # {}
    PROVE  Plan
<1>1. plan' # plan /\ plan' # << >>
  BY EmptySeq
<1>2. ~Execute
  BY DEF Execute
<1>3. QED
  BY <1>1, <1>2 DEF Next, vars, Clear, Sigterm, GraceOver, CooldownOver, Start, Exit, Hold,
     Release, Page, Pressure

-----------------------------------------------------------------------------
\* Priority before force, for any processes: nobody is acted upon while a candidate of a
\* higher priority value, not protected, is left alone (docs/ARCHITECTURE.md:54;
\* decision.rs:107-185).
THEOREM LessImportantFirst == Spec => PriorityBeforeForce
<1>1. ASSUME TypeOK, [Next]_vars, plan = << >>,
             NEW i \in DOMAIN plan', NEW j \in DOMAIN plan',
             plan'[i].act # "none", plan'[j].prio > plan'[i].prio,
             ~Attr[plan'[j].proc].protected
      PROVE  plan'[j].act # "none"
  <2>1. Plan
    BY <1>1, PlanOnlyByPlan
  <2>2. PICK n \in Nat, full \in BOOLEAN :
           \E left \in [0..n -> Int] : \E order, focus : Decided(n, order, focus, full, left)
    BY <1>1, <2>1, PlanDecided
  <2>3. PICK left \in [0..n -> Int] : \E order, focus : Decided(n, order, focus, full, left)
    BY <2>2
  <2>4. PICK order, focus : Decided(n, order, focus, full, left)
    BY <2>3
  <2>5. /\ DOMAIN plan' = 1..n
        /\ \A k \in 1..n :
              /\ order[k] \in Procs /\ Priority(order[k], focus) \in 0..100
              /\ plan'[k].proc = order[k] /\ plan'[k].prio = Priority(order[k], focus)
              /\ plan'[k].act = IF left[k - 1] <= 0 THEN "none"
                                ELSE ActionFor(order[k], Priority(order[k], focus), full)
              /\ Frees(plan'[k].proc, plan'[k].act) \in Nat
              /\ left[k] = left[k - 1] - Frees(plan'[k].proc, plan'[k].act)
        /\ \A k, m \in 1..n : k < m => ~Before(order[m], order[k], focus)
    BY <2>4 DEF Decided
  <2> DEFINE low == Priority(order[i], focus)
             high == Priority(order[j], focus)
             freed == [k \in 1..n |-> Frees(plan'[k].proc, plan'[k].act)]
  <2>6. /\ i \in 1..n /\ j \in 1..n /\ low \in 0..100 /\ high \in 0..100 /\ low < high
        /\ ~Attr[order[j]].protected /\ left[i - 1] > 0
        /\ ActionFor(order[i], low, full) # "none"
    <3>1. i \in 1..n /\ j \in 1..n
      BY <1>1, <2>5
    <3>2. low \in 0..100 /\ high \in 0..100 /\ low < high /\ ~Attr[order[j]].protected
      BY <1>1, <2>5, <3>1
    <3>3. ~(left[i - 1] <= 0) /\ ActionFor(order[i], low, full) # "none"
      BY <1>1, <2>5, <3>1
    <3>4. left[i - 1] \in Int
      BY <3>1
    <3>5. QED
      BY <3>1, <3>2, <3>3, <3>4
  <2>7. j < i
    <3>1. Before(order[j], order[i], focus)
      BY <2>6 DEF Before, Key
    <3>2. ~(i < j)
      BY <2>5, <2>6, <3>1
    <3>3. i # j
      <4>1. i = j => low = high
        OBVIOUS
      <4> HIDE DEF low, high
      <4>2. QED
        BY <2>6, <4>1
    <3>4. QED
      BY <2>6, <3>2, <3>3
  <2>8. left[i - 1] <= left[j - 1]
    <3>1. \A k \in 1..n : freed[k] \in Nat /\ left[k] = left[k - 1] - freed[k]
      BY <2>5
    <3> HIDE DEF freed
    <3>2. \A m \in 0..n : \A k \in 0..m : left[m] <= left[k]
      BY <3>1, LeftIsRest
    <3>3. i - 1 \in 0..n /\ j - 1 \in 0..(i - 1)
      BY <2>6, <2>7
    <3>4. QED
      BY <3>2, <3>3
  <2>9. left[j - 1] > 0
    <3>1. left[i - 1] \in Int /\ left[j - 1] \in Int
      BY <2>6
    <3>2. QED
      BY <2>6, <2>8, <3>1
  <2>10. level \in Levels
    BY <1>1 DEF TypeOK
  <2>11. ActionFor(order[j], high, full) # "none"
    <3> HIDE DEF low, high
    <3>1. QED
      BY <2>6, <2>10, ActsFromAbove
  <2>12. ~(left[j - 1] <= 0)
    BY <2>6, <2>9
  <2>13. plan'[j].act = ActionFor(order[j], high, full)
    BY <2>5, <2>6, <2>12
  <2>14. QED
    BY <2>11, <2>13
<1>2. TypeOK /\ [Next]_vars => [plan = << >> =>
        \A i, j \in DOMAIN plan' :
            /\ plan'[i].act # "none" /\ plan'[j].prio > plan'[i].prio
            /\ ~Attr[plan'[j].proc].protected
            => plan'[j].act # "none"]_vars
  BY <1>1
<1>3. QED
  BY <1>2, TypeCorrect, PTL DEF Spec, PriorityBeforeForce

\* Never more than needed, for any processes and sizes: what the plan frees before the last
\* it acts upon does not cover the deficit (docs/ARCHITECTURE.md:59; decision.rs:131-185).
THEOREM NobodyInVain == Spec => NeverMoreThanNeeded
<1>1. ASSUME TypeOK, [Next]_vars, plan = << >>,
             NEW i \in DOMAIN plan', plan'[i].act # "none"
      PROVE  MapThenSumSet(LAMBDA j : Frees(plan'[j].proc, plan'[j].act), 1..(i - 1)) < Deficit
  <2>1. Plan
    BY <1>1, PlanOnlyByPlan
  <2>2. PICK n \in Nat, full \in BOOLEAN :
           \E left \in [0..n -> Int] : \E order, focus : Decided(n, order, focus, full, left)
    BY <1>1, <2>1, PlanDecided
  <2>3. PICK left \in [0..n -> Int] :
           /\ DOMAIN plan' = 1..n /\ left[0] = Deficit
           /\ \A k \in 1..n :
                 /\ plan'[k].act # "none" => left[k - 1] > 0
                 /\ Frees(plan'[k].proc, plan'[k].act) \in Nat
                 /\ left[k] = left[k - 1] - Frees(plan'[k].proc, plan'[k].act)
    <3>1. PICK left \in [0..n -> Int] : \E order, focus : Decided(n, order, focus, full, left)
      BY <2>2
    <3>2. \A k \in 1..n : left[k - 1] \in Int
      OBVIOUS
    <3>3. /\ DOMAIN plan' = 1..n /\ left[0] = Deficit
          /\ \A k \in 1..n :
                /\ plan'[k].act # "none" => ~(left[k - 1] <= 0)
                /\ Frees(plan'[k].proc, plan'[k].act) \in Nat
                /\ left[k] = left[k - 1] - Frees(plan'[k].proc, plan'[k].act)
      BY <3>1 DEF Decided
    <3>4. \A k \in 1..n : ~(left[k - 1] <= 0) => left[k - 1] > 0
      BY <3>2
    <3>5. QED
      BY <3>3, <3>4
  <2> DEFINE freed == [k \in 1..n |-> Frees(plan'[k].proc, plan'[k].act)]
             U == 1..(i - 1)
             gone == MapThenSumSet(LAMBDA j : Frees(plan'[j].proc, plan'[j].act), U)
  <2>4. i \in 1..n /\ i - 1 \in 0..n /\ left[i - 1] > 0 /\ U \subseteq 1..n
    BY <1>1, <2>3
  <2>5. left[i - 1] = Deficit - Sum(freed, U)
    <3>1. \A k \in 1..n : freed[k] \in Nat /\ left[k] = left[k - 1] - freed[k]
      BY <2>3
    <3> HIDE DEF freed
    <3>2. \A m \in 0..n : left[m] = left[0] - Sum(freed, 1..m)
      BY <3>1, LeftIsRest
    <3>3. QED
      BY <2>3, <2>4, <3>2
  <2>6. IsFiniteSet(U)
    <3>1. 1 \in Int /\ i - 1 \in Int
      BY <2>4
    <3>2. QED
      BY <3>1, FS_Interval
  <2>7. gone = Sum(freed, U)
    <3> DEFINE OfFreed(h) == h = [s \in SUBSET U |-> IF s = {} THEN 0
                  ELSE Frees(plan'[Pick(s)].proc, plan'[Pick(s)].act) + h[s \ {Pick(s)}]]
               one == CHOOSE h : OfFreed(h)
    <3>1. gone = one[U]
      BY DEF MapThenSumSet, MapThenFoldSet, Pick
    <3>2. \A s \in SUBSET U : s # {} =>
             freed[Pick(s)] = Frees(plan'[Pick(s)].proc, plan'[Pick(s)].act)
      <4>1. \A s \in SUBSET U : s # {} => Pick(s) \in 1..n
        BY <2>4, PickIn
      <4>2. QED
        BY <4>1
    <3>3. \A h : OfFreed(h) <=> IsIter(freed, U, h)
      BY <3>2 DEF IsIter
    <3>4. \E h : OfFreed(h)
      BY <2>6, <3>3, IterExists
    <3>5. IsIter(freed, U, one)
      <4> HIDE DEF OfFreed
      <4>1. QED
        BY <3>3, <3>4
    <3>6. QED
      BY <2>6, <3>1, <3>5, IterIsSum
  <2>8. Sum(freed, U) \in Int /\ Deficit \in Int
    <3>1. \A x \in U : freed[x] \in Int
      BY <2>3, <2>4
    <3>2. QED
      BY <1>1, <2>6, <3>1, SumIsInt, DeficitType
  <2> HIDE DEF gone, U, freed
  <2>9. gone < Deficit
    BY <2>3, <2>4, <2>5, <2>7, <2>8
  <2>10. QED
    BY <2>9 DEF gone, U
<1>2. TypeOK /\ [Next]_vars => [plan = << >> =>
        \A i \in DOMAIN plan' :
            plan'[i].act # "none" =>
                MapThenSumSet(LAMBDA j : Frees(plan'[j].proc, plan'[j].act), 1..(i - 1)) < Deficit]_vars
  BY <1>1
<1>3. QED
  BY <1>2, TypeCorrect, PTL DEF Spec, NeverMoreThanNeeded
=============================================================================
