----------------------------- MODULE WaitProofs ------------------------------
(***************************************************************************)
(* Theorems about waiting in Scheduler: of the caller of Wait for the runs *)
(* to end, and of the loop for its timer or an interrupt.                  *)
(*                                                                         *)
(* The WaitGroup counts loops and workers, so every step is reduced to     *)
(* what it does to the set of the loops and to that of the workers that    *)
(* Wait waits for: it leaves the set alone, or adds or removes a member.   *)
(***************************************************************************)
EXTENDS SchedulerProofs, FiniteSetTheorems

\* The loops that run, and the workers that have not returned.
Running == {g \in Gens : loop[g].pc \notin {"off", "exited"}}
Employed == {w \in Workers : worker[w] \in {"idle", "busy"}}

\* The workers of a generation begin with its Start.
NotHired == \A w \in Workers : w[1] > gen => worker[w] = "off"

Counted == wg = Cardinality(Running) + Cardinality(Employed) + spawned

LEMMA CountedIs == Counted <=> WaitMeansQuiet
BY DEF Counted, WaitMeansQuiet, Running, Employed

-----------------------------------------------------------------------------
(* Counting.                                                               *)

\* Both sets are finite.
LEMMA Finite ==
    /\ \A S \in SUBSET Gens : IsFiniteSet(S) /\ Cardinality(S) \in Nat
    /\ \A S \in SUBSET Workers : IsFiniteSet(S) /\ Cardinality(S) \in Nat
<1>1. IsFiniteSet(Gens) /\ IsFiniteSet(1..WorkerLimit)
  BY SchedulerAssumption, FS_Interval DEF SchedulerAssumption, Gens
<1>2. IsFiniteSet(Workers) BY <1>1, FS_Product DEF Workers
<1>3. QED BY <1>1, <1>2, FS_Subset, FS_CardinalityType

\* Start hires WorkerLimit workers.
LEMMA PoolSize ==
    ASSUME NEW g \in Gens
    PROVE  Cardinality({w \in Workers : w[1] = g}) = WorkerLimit
<1>1. /\ IsFiniteSet(1..WorkerLimit) /\ Cardinality(1..WorkerLimit) = WorkerLimit
      /\ WorkerLimit \in Nat
  BY SchedulerAssumption, FS_Interval DEF SchedulerAssumption
<1>2. IsFiniteSet({g}) /\ Cardinality({g}) = 1 BY FS_Singleton
<1>3. {w \in Workers : w[1] = g} = {g} \X (1..WorkerLimit)
  <2> DEFINE pool == {g} \X (1..WorkerLimit)
  <2>1. \A w \in Workers : w[1] = g => w \in pool BY DEF Workers
  <2>2. \A w \in pool : w[1] = g /\ w \in Workers
    <3>1. SUFFICES ASSUME NEW w \in pool PROVE w[1] = g /\ w \in Workers OBVIOUS
    <3>2. w = <<w[1], w[2]>> /\ w[1] = g /\ w[2] \in 1..WorkerLimit OBVIOUS
    <3>3. QED BY <3>2 DEF Workers
  <2> HIDE DEF pool
  <2>3. {w \in Workers : w[1] = g} = pool BY <2>1, <2>2
  <2>4. QED BY <2>3 DEF pool
<1>4. Cardinality({g} \X (1..WorkerLimit)) = Cardinality({g}) * Cardinality(1..WorkerLimit)
  BY <1>1, <1>2, FS_Product
<1>5. 1 * WorkerLimit = WorkerLimit BY <1>1
<1>6. Cardinality({g} \X (1..WorkerLimit)) = WorkerLimit BY <1>1, <1>2, <1>4, <1>5, Zenon
<1>7. QED BY <1>3, <1>6, Zenon

\* A step that leaves both sets alone keeps the count.
LEMMA CountKept ==
    ASSUME Counted, Running' = Running, Employed' = Employed, UNCHANGED <<spawned, wg>>
    PROVE  Counted'
BY DEF Counted

-----------------------------------------------------------------------------
(* What the steps do to the two sets.                                      *)

\* A loop other than one that leaves its select runs before and after a step.
LEMMA LoopKeepsRunning ==
    ASSUME TypeInv, NEW g \in Gens, LoopStep(g) \/ TimerFire(g), ~SelectDone(g)
    PROVE  Running' = Running
<1> USE DEF At, LoopUnchanged, ExecUnchanged
<1>0. /\ loop \in [Gens -> LoopState] /\ MaxInt64 \in 0..MaxInt64
      /\ NoEntry \in Entry \cup {NoEntry}
  BY SchedulerAssumption DEF SchedulerAssumption, TypeInv, TypeOK
<1>1. \A h \in Gens : h # g => loop'[h] = loop[h] BY LoopStepLocal
<1>2. SUFFICES \/ loop'[g].pc = loop[g].pc
               \/ /\ loop[g].pc \notin {"off", "exited"}
                  /\ loop'[g].pc \notin {"off", "exited"}
  BY <1>1 DEF Running
<1>3. CASE TimerFire(g) BY <1>0, <1>3, TimerFireType
<1>4. CASE ReadSize(g) BY <1>0, <1>4, ArmType, LoopPCFacts DEF ReadSize
<1>5. CASE ReadHead(g)
  <2>1. PICK d \in 0..MaxInt64 : Arm(g, "select", d)
    BY <1>5, SchedulerAssumption
       DEF ReadHead, Heads, Entry, TypeInv, TypeOK, SchedulerAssumption
  <2>2. loop[g].pc = "head" BY <1>5 DEF ReadHead
  <2>3. QED BY <1>0, <2>1, <2>2, ArmType, LoopPCFacts
<1>6. CASE SelectTick(g) BY <1>0, <1>6 DEF SelectTick, LoopState
<1>7. CASE SelectInterrupt(g)
  BY <1>0, <1>7, ArmType, LoopPCFacts DEF SelectInterrupt
<1>8. CASE FetchJob(g) BY <1>8, FetchEffect
<1>9. CASE Judge(g) BY <1>9, JudgeEffect
<1>10. CASE BlockingBegin(g) BY <1>0, <1>10, GoOnType, LoopPCFacts DEF BlockingBegin
<1>11. CASE BlockingEnd(g) BY <1>0, <1>11, HoldType, LoopPCFacts DEF BlockingEnd
<1>12. CASE Spawn(g) BY <1>0, <1>12, HoldType, LoopPCFacts DEF Spawn
<1>13. CASE DispatchCancelled(g)
  BY <1>0, <1>13, HoldType, LoopPCFacts DEF DispatchCancelled
<1>14. CASE \E w \in Workers : Dispatch(g, w)
  BY <1>0, <1>14, HoldType, LoopPCFacts DEF Dispatch
<1>15. QED BY <1>3, <1>4, <1>5, <1>6, <1>7, <1>8, <1>9, <1>10, <1>11, <1>12, <1>13, <1>14
           DEF LoopStep, Judge

\* Of the loop's steps, only the dispatch to a worker touches the workers, and
\* only the spawn and the exit of the loop touch the counters.
LEMMA LoopCounters ==
    ASSUME TypeInv, NEW g \in Gens, LoopStep(g) \/ TimerFire(g)
    PROVE  /\ UNCHANGED gen
           /\ \/ worker' = worker
              \/ \E w \in Workers : /\ worker[w] = "idle"
                                    /\ worker' = [worker EXCEPT ![w] = "busy"]
           /\ ~Spawn(g) /\ ~SelectDone(g) => UNCHANGED <<spawned, wg>>
BY DEF LoopStep, TimerFire, ReadSize, ReadHead, SelectTick, SelectInterrupt, SelectDone,
       FetchJob, ParkSuspended, SkipOutdated, PutBackEarly, TakeDue, Unlock, BlockingBegin,
       BlockingEnd, Spawn, DispatchCancelled, Dispatch, LoopUnchanged, ExecUnchanged,
       execVars, runVars

\* A worker that takes a job, or returns from one, stays employed.
LEMMA BusyIsEmployed ==
    ASSUME TypeInv, NEW w \in Workers, worker[w] \in {"idle", "busy"},
           NEW s \in {"idle", "busy"}, worker' = [worker EXCEPT ![w] = s]
    PROVE  Employed' = Employed
<1>1. worker \in [Workers -> {"off", "idle", "busy", "exited"}] BY DEF TypeInv, TypeOK
<1>2. QED BY <1>1 DEF Employed

LEMMA StartCount ==
    ASSUME Base, NotHired, Counted, Start
    PROVE  NotHired' /\ Counted'
<1> DEFINE h == gen + 1
<1>0. /\ loop \in [Gens -> LoopState] /\ spawned \in Nat /\ WorkerLimit \in Nat
      /\ worker \in [Workers -> {"off", "idle", "busy", "exited"}]
      /\ gen \in Nat
      /\ \A w \in Workers : w[1] \in Int
  BY SchedulerAssumption DEF Base, TypeInv, TypeOK, SchedulerAssumption, Gens, Workers
<1>1. h \in Gens /\ h > gen
  BY SchedulerAssumption DEF Start, Base, TypeInv, TypeOK, Gens, SchedulerAssumption
<1>2. /\ loop[h].pc = "off" /\ gen' = h /\ GoOn(h, "size") /\ UNCHANGED spawned
      /\ wg' = wg + (1 + (IF mode = "workers" THEN WorkerLimit ELSE 0))
      /\ worker' = IF mode = "workers"
                   THEN [w \in Workers |-> IF w[1] = h THEN "idle" ELSE worker[w]]
                   ELSE worker
  BY <1>1 DEF Start, WgAdd, Base, NotBegun
<1> HIDE DEF h
<1>3. Running' = Running \cup {h} /\ h \notin Running
  <2>1. loop'[h].pc = "size" /\ \A g \in Gens : g # h => loop'[g] = loop[g]
    BY <1>0, <1>1, <1>2, GoOnType, LoopPCFacts
  <2>2. QED BY <1>1, <1>2, <2>1 DEF Running
<1>4. Cardinality(Running') = Cardinality(Running) + 1
  <2>1. IsFiniteSet(Running) BY Finite DEF Running
  <2>2. QED BY <1>3, <2>1, FS_AddElement
<1>5. Cardinality(Running) \in Nat /\ Cardinality(Employed) \in Nat
  BY Finite DEF Running, Employed
<1>6. CASE mode = "workers"
  <2> DEFINE pool == {w \in Workers : w[1] = h}
  <2>1. worker' = [w \in Workers |-> IF w[1] = h THEN "idle" ELSE worker[w]]
    BY <1>2, <1>6
  <2>2. \A w \in pool : worker[w] = "off" BY <1>1 DEF NotHired
  <2>3. Employed' = Employed \cup pool
    BY <1>0, <2>1 DEF Employed
  <2>4. Employed \cap pool = {} BY <2>2 DEF Employed
  <2>5. Cardinality(pool) = WorkerLimit BY <1>1, PoolSize
  <2>6. IsFiniteSet(Employed) /\ IsFiniteSet(pool) BY Finite DEF Employed
  <2> HIDE DEF pool
  <2>7. Cardinality(Employed') = Cardinality(Employed) + WorkerLimit
    BY <1>0, <1>5, <2>3, <2>4, <2>5, <2>6, FS_Union, FS_EmptySet
  <2>8. wg' = wg + (1 + WorkerLimit) BY <1>2, <1>6
  <2>9. Counted' BY <1>0, <1>2, <1>4, <1>5, <2>7, <2>8 DEF Counted
  <2>10. NotHired'
    <3>1. ASSUME NEW w \in Workers, w[1] > h PROVE worker'[w] = "off"
      <4>1. w[1] > gen /\ w[1] # h BY <1>0, <3>1 DEF h
      <4>2. QED BY <2>1, <4>1 DEF NotHired
    <3>2. QED BY <1>2, <3>1 DEF NotHired
  <2>11. QED BY <2>9, <2>10
<1>7. CASE mode # "workers"
  <2>1. worker' = worker /\ wg' = wg + (1 + 0) BY <1>2, <1>7
  <2>2. Employed' = Employed BY <2>1 DEF Employed
  <2>3. Counted' BY <1>0, <1>2, <1>4, <1>5, <2>1, <2>2 DEF Counted
  <2>4. NotHired'
    <3>1. ASSUME NEW w \in Workers, w[1] > h PROVE w[1] > gen
      BY <1>0, <3>1 DEF h
    <3>2. QED BY <1>2, <2>1, <3>1 DEF NotHired
  <2>5. QED BY <2>3, <2>4
<1>8. QED BY <1>6, <1>7

LEMMA LoopCount ==
    ASSUME Base, NotHired, Counted, NEW g \in Gens, LoopStep(g) \/ TimerFire(g)
    PROVE  NotHired' /\ Counted'
<1>0. /\ loop \in [Gens -> LoopState] /\ spawned \in Nat /\ TypeInv
      /\ worker \in [Workers -> {"off", "idle", "busy", "exited"}]
  BY DEF Base, TypeInv, TypeOK
<1>1. /\ Employed' = Employed
      /\ \A w \in Workers : worker[w] = "off" => worker'[w] = "off"
      /\ UNCHANGED gen
  <2>1. CASE worker' = worker BY <1>0, <2>1, LoopCounters DEF Employed
  <2>2. ASSUME NEW w \in Workers, worker[w] = "idle",
               worker' = [worker EXCEPT ![w] = "busy"]
        PROVE  Employed' = Employed /\ \A v \in Workers : worker[v] = "off" => worker'[v] = "off"
    BY <1>0, <2>2, BusyIsEmployed
  <2>3. QED BY <1>0, <2>1, <2>2, LoopCounters
<1>2. NotHired' BY <1>1 DEF NotHired
<1>3. Cardinality(Running) \in Nat /\ Cardinality(Employed) \in Nat
  BY Finite DEF Running, Employed
<1>4. CASE SelectDone(g)
  <2>1. /\ Arm(g, "exited", MaxInt64) /\ wg' = wg + (-1) /\ UNCHANGED spawned
        /\ loop[g].pc = "select"
    BY <1>4 DEF SelectDone, WgAdd, At
  <2>2. MaxInt64 \in 0..MaxInt64 BY SchedulerAssumption DEF SchedulerAssumption
  <2>3. loop'[g].pc = "exited" /\ \A h \in Gens : h # g => loop'[h] = loop[h]
    BY <1>0, <2>1, <2>2, ArmType, LoopPCFacts
  <2>4. Running' = Running \ {g} /\ g \in Running BY <2>1, <2>3 DEF Running
  <2>5. IsFiniteSet(Running) BY Finite DEF Running
  <2>6. Cardinality(Running') = Cardinality(Running) - 1 BY <2>4, <2>5, FS_RemoveElement
  <2>7. Counted' BY <1>0, <1>1, <1>3, <2>1, <2>6 DEF Counted
  <2>8. QED BY <1>2, <2>7
<1>5. CASE Spawn(g)
  <2>1. wg' = wg + 1 /\ spawned' = spawned + 1 BY <1>5 DEF Spawn, WgAdd
  <2>2. ~SelectDone(g) BY <1>5 DEF Spawn, SelectDone, At
  <2>3. Running' = Running BY <1>0, <2>2, LoopKeepsRunning
  <2>4. Counted' BY <1>0, <1>1, <1>3, <2>1, <2>3 DEF Counted
  <2>5. QED BY <1>2, <2>4
<1>6. CASE ~SelectDone(g) /\ ~Spawn(g)
  <2>1. Running' = Running BY <1>0, <1>6, LoopKeepsRunning
  <2>2. UNCHANGED <<spawned, wg>> BY <1>0, <1>6, LoopCounters
  <2>3. QED BY <1>1, <1>2, <2>1, <2>2, CountKept
<1>7. QED BY <1>4, <1>5, <1>6

LEMMA WorkerCount ==
    ASSUME Base, NotHired, Counted, NEW w \in Workers, WorkerStep(w)
    PROVE  NotHired' /\ Counted'
<1>0. /\ TypeInv /\ spawned \in Nat
      /\ worker \in [Workers -> {"off", "idle", "busy", "exited"}]
  BY DEF Base, TypeInv, TypeOK
<1>1. UNCHANGED <<loop, gen, spawned>> /\ Running' = Running
  BY DEF WorkerStep, WorkerReturns, WorkerExits, ExecUnchanged, runVars, Running
<1>2. /\ worker[w] # "off"
      /\ \A v \in Workers : v # w => worker'[v] = worker[v]
  BY <1>0 DEF WorkerStep, WorkerReturns, WorkerExits
<1>3. NotHired' BY <1>1, <1>2 DEF NotHired
<1>4. CASE WorkerReturns(w)
  <2>1. Employed' = Employed BY <1>0, <1>4, BusyIsEmployed DEF WorkerReturns
  <2>2. UNCHANGED wg BY <1>4 DEF WorkerReturns
  <2>3. QED BY <1>1, <1>3, <2>1, <2>2, CountKept
<1>5. CASE WorkerExits(w)
  <2>1. worker[w] = "idle" /\ worker'[w] = "exited" /\ wg' = wg + (-1)
    BY <1>0, <1>5 DEF WorkerExits, WgAdd
  <2>2. Employed' = Employed \ {w} /\ w \in Employed BY <1>2, <2>1 DEF Employed
  <2>3. IsFiniteSet(Employed) /\ Cardinality(Running) \in Nat /\ Cardinality(Employed) \in Nat
    BY Finite DEF Employed, Running
  <2>4. Cardinality(Employed') = Cardinality(Employed) - 1
    BY <2>2, <2>3, FS_RemoveElement
  <2>5. Counted' BY <1>0, <1>1, <2>1, <2>3, <2>4 DEF Counted
  <2>6. QED BY <1>3, <2>5
<1>6. QED BY <1>4, <1>5 DEF WorkerStep

LEMMA CountStep == Base /\ NotHired /\ Counted /\ [Next]_vars => NotHired' /\ Counted'
<1> SUFFICES ASSUME Base, NotHired, Counted, [Next]_vars PROVE NotHired' /\ Counted' OBVIOUS
<1> USE DEF execVars, runVars
<1>0. /\ spawned \in Nat /\ Cardinality(Running) \in Nat /\ Cardinality(Employed) \in Nat
  BY Finite DEF Base, TypeInv, TypeOK, Running, Employed
<1>1. ASSUME UNCHANGED <<loop, worker, gen>>
      PROVE  NotHired' /\ Running' = Running /\ Employed' = Employed
  BY <1>1 DEF NotHired, Running, Employed
<1>2. ASSUME UNCHANGED <<loop, execVars, gen>> PROVE NotHired' /\ Counted'
  BY <1>1, <1>2, CountKept
<1>3. CASE Start BY <1>3, StartCount
<1>4. CASE Tick \/ Stop \/ ReceiveMisfired
  BY <1>2, <1>4 DEF Tick, Stop, ReceiveMisfired
<1>5. CASE JobReturns
  <2>1. /\ spawned > 0 /\ spawned' = spawned - 1 /\ wg' = wg + (-1)
        /\ UNCHANGED <<loop, worker, gen>>
    BY <1>5 DEF JobReturns, WgAdd, ExecUnchanged
  <2>2. Counted' BY <1>0, <1>1, <2>1 DEF Counted
  <2>3. QED BY <1>1, <2>1, <2>2
<1>6. ASSUME NEW c \in Clients, BeginCall(c) \/ FinishCall(c)
      PROVE  UNCHANGED <<loop, execVars, gen>>
  BY <1>6 DEF BeginCall, FinishCall, ScheduleJob, DeleteJob, PauseJob, ResumeJob, Clear,
              PushJob, RepushJob, NotifyLoop, Reset, CallUnchanged
<1>7. ASSUME NEW g \in Gens, CancelContext(g) \/ Watch(g)
      PROVE  UNCHANGED <<loop, execVars, gen>>
  BY <1>7 DEF CancelContext, Watch
<1>8. ASSUME NEW g \in Gens, LoopStep(g) \/ TimerFire(g) PROVE NotHired' /\ Counted'
  BY <1>8, LoopCount
<1>9. ASSUME NEW w \in Workers, WorkerStep(w) PROVE NotHired' /\ Counted'
  BY <1>9, WorkerCount
<1>10. CASE UNCHANGED vars BY <1>2, <1>10 DEF vars
<1>11. QED BY <1>2, <1>3, <1>4, <1>5, <1>6, <1>7, <1>8, <1>9, <1>10 DEF Next

\* The WaitGroup counts exactly the loops, the workers and the jobs that are
\* alive: its counter never goes below zero, and Wait returns only when all
\* of them have returned, for any number of runs and workers.
THEOREM WaitMeansQuietHolds == Spec => []WaitMeansQuiet
<1>1. Init => NotHired /\ Counted
  <2> SUFFICES ASSUME Init PROVE NotHired /\ Counted OBVIOUS
  <2>1. Running = {} /\ Employed = {} BY DEF Init, Running, Employed
  <2>2. wg = 0 /\ spawned = 0 /\ NotHired BY DEF Init, NotHired
  <2>3. QED BY <2>1, <2>2, FS_EmptySet DEF Counted
<1>2. QED BY <1>1, BaseInvariant, CountStep, CountedIs, PTL DEF Spec

-----------------------------------------------------------------------------
(* No missed wakeup.                                                       *)

\* The context of a run that has been stopped is done: a call that finds the
\* scheduler stopped, and does not wake the loop, need not.
StopMeansDone == gen > 0 /\ ~started => done[gen]

\* The loop of g waits and nobody is about to wake it.
Asleep(g) ==
    /\ loop[g].pc = "select" /\ ~done[g]
    /\ ~interrupt /\ ~loop[g].tick /\ loop[g].deadline > now
    /\ \A c \in Clients : call[c].pc \notin Holding

InTime(g) == \A e \in queue : loop[g].deadline <= e.priority

LEMMA WakeupIs == NoMissedWakeup <=> \A g \in Gens : Asleep(g) => InTime(g)
BY DEF NoMissedWakeup, Asleep, InTime

LEMMA StopMeansDoneStep == TypeInv /\ StopMeansDone /\ [Next]_vars => StopMeansDone'
<1> SUFFICES ASSUME TypeInv, StopMeansDone, [Next]_vars PROVE StopMeansDone' OBVIOUS
<1> USE DEF runVars
<1>0. /\ done \in [Gens -> BOOLEAN] /\ gen \in 0..MaxStarts /\ MaxStarts \in Nat
      /\ started \in BOOLEAN
  BY SchedulerAssumption DEF SchedulerAssumption, TypeInv, TypeOK
<1>1. gen > 0 => gen \in Gens BY <1>0 DEF Gens
<1>2. ASSUME UNCHANGED <<gen, started, done>> PROVE StopMeansDone'
  BY <1>2 DEF StopMeansDone
<1>3. CASE Start BY <1>3 DEF Start, StopMeansDone
<1>4. CASE Stop BY <1>0, <1>1, <1>4 DEF Stop, EndRun, StopMeansDone
<1>5. ASSUME NEW g \in Gens, CancelContext(g) PROVE StopMeansDone'
  BY <1>0, <1>1, <1>5 DEF CancelContext, StopMeansDone
<1>6. ASSUME NEW g \in Gens, Watch(g) PROVE StopMeansDone'
  BY <1>0, <1>1, <1>6 DEF Watch, EndRun, StopMeansDone
<1>7. CASE Tick \/ JobReturns \/ ReceiveMisfired
  BY <1>2, <1>7 DEF Tick, JobReturns, ReceiveMisfired, ExecUnchanged
<1>8. ASSUME NEW c \in Clients, BeginCall(c) \/ FinishCall(c)
      PROVE  UNCHANGED <<gen, started, done>>
  BY <1>8 DEF BeginCall, FinishCall, ScheduleJob, DeleteJob, PauseJob, ResumeJob, Clear,
              PushJob, RepushJob, NotifyLoop, Reset, CallUnchanged
<1>9. ASSUME NEW g \in Gens, LoopStep(g) \/ TimerFire(g) PROVE UNCHANGED <<gen, started, done>>
  BY <1>9 DEF LoopStep, TimerFire, ReadSize, ReadHead, SelectTick, SelectInterrupt,
              SelectDone, FetchJob, ParkSuspended, SkipOutdated, PutBackEarly, TakeDue,
              Unlock, BlockingBegin, BlockingEnd, Spawn, DispatchCancelled, Dispatch,
              LoopUnchanged, ExecUnchanged
<1>10. ASSUME NEW w \in Workers, WorkerStep(w) PROVE UNCHANGED <<gen, started, done>>
  BY <1>10 DEF WorkerStep, WorkerReturns, WorkerExits, ExecUnchanged
<1>11. CASE UNCHANGED vars BY <1>2, <1>11 DEF vars
<1>12. QED BY <1>2, <1>3, <1>4, <1>5, <1>6, <1>7, <1>8, <1>9, <1>10, <1>11 DEF Next

\* A loop that goes to its select has set its timer to the head of the queue,
\* or to an instant that has come, or the queue is empty.
LEMMA ArmedInTime ==
    ASSUME TypeInv, NEW g \in Gens, LoopStep(g) \/ TimerFire(g), Asleep(g)'
    PROVE  InTime(g)'
<1> USE DEF At, LoopUnchanged, ExecUnchanged, jobVars
<1>0. /\ loop \in [Gens -> LoopState] /\ MaxInt64 \in 0..MaxInt64 /\ queue \subseteq Entry
      /\ now \in 0..MaxInt64 /\ MaxInt64 \in Nat /\ NoEntry \in Entry \cup {NoEntry}
  BY SchedulerAssumption DEF SchedulerAssumption, TypeInv, TypeOK
<1>1. loop'[g].pc = "select" /\ ~loop'[g].tick /\ loop'[g].deadline > now'
  BY DEF Asleep
<1>2. CASE ReadSize(g)
  <2>1. queue = {} BY <1>0, <1>1, <1>2, ArmType, LoopPCFacts DEF ReadSize
  <2>2. QED BY <1>2, <2>1 DEF ReadSize, InTime
<1>3. CASE ReadHead(g)
  <2>1. now' = now /\ queue' = queue BY <1>3 DEF ReadHead
  <2>2. CASE queue = {} BY <2>1, <2>2 DEF InTime
  <2>3. CASE queue # {}
    <3>1. PICK e \in Heads(queue) :
            Arm(g, "select", IF e.priority > now THEN e.priority ELSE now)
      BY <1>3, <2>3 DEF ReadHead
    <3>2. PICK d : d = IF e.priority > now THEN e.priority ELSE now OBVIOUS
    <3>3. e \in Entry /\ e.priority \in 0..MaxInt64 BY <1>0 DEF Heads, Entry
    <3>4. d \in 0..MaxInt64 BY <1>0, <3>2, <3>3
    <3>5. loop'[g].deadline = d BY <1>0, <3>1, <3>2, <3>4, ArmType, LoopPCFacts
    <3>6. d = e.priority BY <1>0, <1>1, <2>1, <3>2, <3>3, <3>5
    <3>7. \A f \in queue : e.priority <= f.priority BY DEF Heads
    <3>8. QED BY <2>1, <3>5, <3>6, <3>7 DEF InTime
  <2>4. QED BY <2>2, <2>3
<1>4. CASE TimerFire(g) BY <1>0, <1>1, <1>4, TimerFireType
<1>5. CASE SelectTick(g) BY <1>0, <1>1, <1>5 DEF SelectTick, LoopState
<1>6. CASE SelectInterrupt(g) BY <1>0, <1>1, <1>6, ArmType, LoopPCFacts DEF SelectInterrupt
<1>7. CASE SelectDone(g) BY <1>0, <1>1, <1>7, ArmType, LoopPCFacts DEF SelectDone
<1>8. CASE FetchJob(g) BY <1>1, <1>8, FetchEffect
<1>9. CASE Judge(g) BY <1>1, <1>9, JudgeEffect
<1>10. CASE BlockingBegin(g) BY <1>0, <1>1, <1>10, GoOnType, LoopPCFacts DEF BlockingBegin
<1>11. CASE BlockingEnd(g) \/ Spawn(g) \/ DispatchCancelled(g) \/ \E w \in Workers : Dispatch(g, w)
  <2>1. Hold(g, "size", NoEntry)
    BY <1>11 DEF BlockingEnd, Spawn, DispatchCancelled, Dispatch
  <2>2. QED BY <1>0, <1>1, <2>1, HoldType, LoopPCFacts
<1>12. QED BY <1>2, <1>3, <1>4, <1>5, <1>6, <1>7, <1>8, <1>9, <1>10, <1>11
           DEF LoopStep, Judge

\* A call that adds to the queue does not end before it has sent an interrupt.
LEMMA CallWakes ==
    ASSUME Base, KeysInv, StopMeansDone, NEW g \in Gens, g = gen,
           NEW c \in Clients, BeginCall(c) \/ FinishCall(c),
           Asleep(g)', Asleep(g) => InTime(g)
    PROVE  InTime(g)'
<1> USE DEF Goto, CallUnchanged, CallState, Idle, Holding, runVars
<1>0. /\ call \in [Clients -> CallState] /\ gen > 0
      /\ UNCHANGED <<loop, now, done>>
      /\ \A b \in Clients : b # c => call'[b] = call[b]
  <2>1. gen > 0 BY SchedulerAssumption DEF Gens, SchedulerAssumption
  <2>2. UNCHANGED <<now, done>>
    BY DEF BeginCall, FinishCall, ScheduleJob, DeleteJob, PauseJob, ResumeJob, Clear,
           PushJob, RepushJob, NotifyLoop, Reset
  <2>3. QED BY <2>1, <2>2, CallLock DEF Base, TypeInv, TypeOK
<1>1. ~done[g] /\ ~interrupt' /\ \A b \in Clients : call'[b].pc \notin Holding
  BY <1>0 DEF Asleep
<1>2. ASSUME queue' \subseteq queue, interrupt' = interrupt, call[c].pc \notin Holding
      PROVE  InTime(g)'
  <2>1. Asleep(g) BY <1>0, <1>1, <1>2 DEF Asleep
  <2>2. QED BY <1>0, <1>2, <2>1 DEF InTime
<1>3. ASSUME NEW d \in Details, NEW t \in Triggers, ScheduleJob(c, d, t) PROVE InTime(g)'
  BY <1>2, <1>3 DEF ScheduleJob
<1>4. ASSUME NEW k \in JobKeys, DeleteJob(c, k) PROVE FALSE
  BY <1>0, <1>1, <1>4 DEF DeleteJob
<1>5. CASE Clear(c) BY <1>0, <1>1, <1>5 DEF Clear
<1>6. ASSUME NEW k \in JobKeys, PauseJob(c, k) PROVE FALSE
  BY <1>0, <1>1, <1>6 DEF PauseJob
<1>7. ASSUME NEW k \in JobKeys, ResumeJob(c, k) PROVE InTime(g)'
  <2>1. queue' \subseteq queue /\ interrupt' = interrupt /\ call[c].pc \notin Holding
    BY <1>7 DEF ResumeJob
  <2>2. QED BY <1>2, <2>1
<1>8. CASE PushJob(c)
  <2>1. ~CanPush(queue, call[c].entry) BY <1>0, <1>1, <1>8 DEF PushJob
  <2>2. QED BY <1>2, <1>8, <2>1 DEF PushJob
<1>9. CASE RepushJob(c)
  <2>1. CanPush(queue, call[c].entry) BY <1>9 DEF RepushJob, KeysInv, CanPush
  <2>2. QED BY <1>0, <1>1, <1>9, <2>1 DEF RepushJob
<1>10. CASE NotifyLoop(c)
  <2>1. started BY <1>0, <1>1 DEF StopMeansDone
  <2>2. QED BY <1>0, <1>1, <1>10, <2>1 DEF NotifyLoop
<1>11. CASE Reset(c) BY <1>1, <1>11 DEF Reset
<1>12. QED BY <1>3, <1>4, <1>5, <1>6, <1>7, <1>8, <1>9, <1>10, <1>11
           DEF BeginCall, FinishCall

LEMMA WakeupStep ==
    ASSUME MaxStarts = 1, Base, KeysInv, StopMeansDone, NoMissedWakeup, [Next]_vars
    PROVE  NoMissedWakeup'
<1> SUFFICES ASSUME NEW g \in Gens, Asleep(g)' PROVE InTime(g)'
  BY DEF NoMissedWakeup, Asleep, InTime
<1> USE DEF jobVars, runVars
<1>0. /\ loop \in [Gens -> LoopState] /\ done \in [Gens -> BOOLEAN] /\ now \in Nat
      /\ TypeInv /\ NotBegun /\ gen \in 0..1 /\ g = 1 /\ \A h \in Gens : h = g
      /\ MaxInt64 \in Nat /\ loop[g].deadline \in Nat
      /\ Asleep(g) => InTime(g)
  BY WakeupIs, SchedulerAssumption
     DEF Base, TypeInv, TypeOK, Gens, LoopState, SchedulerAssumption
<1>1. loop'[g].pc = "select" /\ ~done'[g] /\ ~interrupt' /\ ~loop'[g].tick
         /\ loop'[g].deadline > now' /\ \A c \in Clients : call'[c].pc \notin Holding
  BY DEF Asleep
\* A step that changes nothing but the clock, forwards, or the life of the run.
<1>2. ASSUME UNCHANGED <<loop, queue, interrupt, call>>,
             now' = now \/ now' = now + 1, done[g] => done'[g]
      PROVE  InTime(g)'
  <2>1. loop[g].deadline > now BY <1>0, <1>1, <1>2
  <2>2. Asleep(g) BY <1>1, <1>2, <2>1 DEF Asleep
  <2>3. QED BY <1>0, <1>2, <2>2 DEF InTime
<1>3. CASE Start
  <2>1. gen + 1 = g /\ GoOn(g, "size")
    BY <1>0, <1>3 DEF Start
  <2>2. QED BY <1>0, <1>1, <2>1, GoOnType, LoopPCFacts
<1>4. CASE Tick \/ JobReturns \/ ReceiveMisfired
  BY <1>2, <1>4 DEF Tick, JobReturns, ReceiveMisfired, ExecUnchanged
<1>5. CASE Stop
  BY <1>0, <1>2, <1>5 DEF Stop, EndRun
<1>6. ASSUME NEW h \in Gens, CancelContext(h) \/ Watch(h) PROVE InTime(g)'
  BY <1>0, <1>2, <1>6 DEF CancelContext, Watch, EndRun
<1>7. ASSUME NEW h \in Gens, LoopStep(h) \/ TimerFire(h) PROVE InTime(g)'
  BY <1>0, <1>7, ArmedInTime
<1>8. ASSUME NEW c \in Clients, BeginCall(c) \/ FinishCall(c) PROVE InTime(g)'
  <2>1. loop' = loop BY <1>0, <1>8, CallLock
  <2>2. g = gen
    <3>1. loop[g].pc # "off" BY <1>1, <2>1
    <3>2. QED BY <1>0, <3>1 DEF NotBegun
  <2>3. QED BY <1>0, <1>8, <2>2, CallWakes
<1>9. ASSUME NEW w \in Workers, WorkerStep(w) PROVE InTime(g)'
  BY <1>2, <1>9 DEF WorkerStep, WorkerReturns, WorkerExits, ExecUnchanged
<1>10. CASE UNCHANGED vars BY <1>2, <1>10 DEF vars
<1>11. QED BY <1>3, <1>4, <1>5, <1>6, <1>7, <1>8, <1>9, <1>10 DEF Next

\* The loop of the only run never sleeps past the head of the queue, however
\* many clients push at the moments between its reads of the queue and its
\* select. (With two runs it fails: their loops share the interrupt channel.)
THEOREM NoMissedWakeupHolds ==
    ASSUME MaxStarts = 1
    PROVE  Spec => []NoMissedWakeup
<1>1. Init => KeysInv /\ StopMeansDone /\ NoMissedWakeup
  BY DEF Init, KeysInv, Unique, StopMeansDone, NoMissedWakeup
<1>2. Base /\ KeysInv /\ StopMeansDone /\ NoMissedWakeup /\ [Next]_vars => NoMissedWakeup'
  BY WakeupStep
<1>3. Base => TypeInv BY DEF Base
<1>4. QED BY <1>1, <1>2, <1>3, BaseInvariant, KeysStep, StopMeansDoneStep, PTL DEF Spec

=============================================================================
