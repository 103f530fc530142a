-------------------------- MODULE SchedulerProofs ---------------------------
(***************************************************************************)
(* Theorems about Scheduler, for every value of its constants.             *)
(***************************************************************************)
EXTENDS Scheduler, TLAPS

\* Whoever is about to push, judge or execute a job has one in hand.
HandsFull ==
    /\ \A c \in Clients : call[c].pc \in {"push", "repush"} => call[c].entry \in Entry
    /\ \A g \in Gens : loop[g].pc \in {"resched", "dispatch", "exec"}
                           => loop[g].entry \in Entry

TypeInv == TypeOK /\ HandsFull

-----------------------------------------------------------------------------
(* Lemmas about the operators of the queue and of a trigger.               *)

\* Push keeps a queue a set of entries.
LEMMA PushType ==
    ASSUME NEW q \in SUBSET Entry, NEW e \in Entry
    PROVE  Push(q, e) \in SUBSET Entry
BY DEF Push, WithKey

\* A next run time computed from a past instant is a run time, and is not
\* that of a suspended job.
LEMMA NextFireTimeType ==
    ASSUME NEW t \in Triggers, NEW p \in 0..MaxTime
    PROVE  /\ NextFireTime(t, p) \in 0..MaxInt64
           /\ NextFireTime(t, p) < MaxInt64
           /\ NextFireTime(t, p) >= p
<1>1. Period[t] \in Nat /\ MaxTime + Period[t] < MaxInt64 /\ MaxInt64 \in Nat
         /\ MaxTime \in Nat
  BY SchedulerAssumption, TriggerAssumption DEF SchedulerAssumption, TriggerAssumption
<1>2. QED BY <1>1 DEF NextFireTime

\* Changing the run time of an entry gives an entry.
LEMMA EntryAt ==
    ASSUME NEW e \in Entry, NEW p \in 0..MaxInt64
    PROVE  /\ [e EXCEPT !.priority = p] \in Entry
           /\ [e EXCEPT !.priority = p].priority = p
           /\ [e EXCEPT !.priority = p].detail = e.detail
           /\ [e EXCEPT !.priority = p].trigger = e.trigger
BY DEF Entry

LEMMA ConsumeType ==
    ASSUME NEW x \in [Triggers -> BOOLEAN], NEW t \in Triggers
    PROVE  Consume(x, t) \in [Triggers -> BOOLEAN]
BY DEF Consume

LEMMA PutBackType ==
    ASSUME queue \in SUBSET Entry, interrupt \in BOOLEAN,
           NEW e \in Entry, NEW p \in 0..MaxInt64, PutBack(e, p)
    PROVE  queue' \in SUBSET Entry /\ interrupt' \in BOOLEAN
<1> DEFINE f == [e EXCEPT !.priority = p]
<1>1. f \in Entry BY EntryAt
<1>2. CASE CanPush(queue, f)
  <2>1. queue' = Push(queue, f) /\ interrupt' = TRUE BY <1>2 DEF PutBack
  <2>2. QED BY <2>1, <1>1, PushType
<1>3. CASE ~CanPush(queue, f)
  BY <1>3 DEF PutBack
<1>4. QED BY <1>2, <1>3

LEMMA RescheduleType ==
    ASSUME queue \in SUBSET Entry, interrupt \in BOOLEAN,
           expired \in [Triggers -> BOOLEAN],
           NEW e \in Entry, NEW p \in 0..MaxTime, Reschedule(e, p)
    PROVE  /\ queue' \in SUBSET Entry /\ interrupt' \in BOOLEAN
           /\ expired' \in [Triggers -> BOOLEAN]
<1>1. e.trigger \in Triggers BY DEF Entry
<1>2. NextFireTime(e.trigger, p) \in 0..MaxInt64 BY <1>1, NextFireTimeType
<1>3. CASE CanFire(expired, e.trigger)
  <2>1. PutBack(e, NextFireTime(e.trigger, p)) /\ expired' = Consume(expired, e.trigger)
    BY <1>3 DEF Reschedule
  <2>2. QED BY <2>1, <1>1, <1>2, PutBackType, ConsumeType
<1>4. CASE ~CanFire(expired, e.trigger)
  BY <1>4 DEF Reschedule
<1>5. QED BY <1>3, <1>4

\* The loop's moves keep its type and change what they say.
LEMMA GoOnType ==
    ASSUME loop \in [Gens -> LoopState], NEW g \in Gens, NEW pc \in LoopPCs, GoOn(g, pc)
    PROVE  /\ loop' \in [Gens -> LoopState]
           /\ \A h \in Gens : h # g => loop'[h] = loop[h]
           /\ loop'[g].pc = pc /\ loop'[g].entry = loop[g].entry
           /\ loop'[g].deadline = loop[g].deadline /\ loop'[g].tick = loop[g].tick
BY DEF GoOn, LoopState

LEMMA ArmType ==
    ASSUME loop \in [Gens -> LoopState], NEW g \in Gens, NEW pc \in LoopPCs,
           NEW d \in 0..MaxInt64, Arm(g, pc, d)
    PROVE  /\ loop' \in [Gens -> LoopState]
           /\ \A h \in Gens : h # g => loop'[h] = loop[h]
           /\ loop'[g].pc = pc /\ loop'[g].entry = loop[g].entry
           /\ loop'[g].deadline = d /\ loop'[g].tick = loop[g].tick
BY DEF Arm, LoopState

LEMMA HoldType ==
    ASSUME loop \in [Gens -> LoopState], NEW g \in Gens, NEW pc \in LoopPCs,
           NEW e \in Entry \cup {NoEntry}, Hold(g, pc, e)
    PROVE  /\ loop' \in [Gens -> LoopState]
           /\ \A h \in Gens : h # g => loop'[h] = loop[h]
           /\ loop'[g].pc = pc /\ loop'[g].entry = e
           /\ loop'[g].deadline = loop[g].deadline /\ loop'[g].tick = loop[g].tick
BY DEF Hold, LoopState

LEMMA TimerFireType ==
    ASSUME loop \in [Gens -> LoopState], NEW g \in Gens, TimerFire(g)
    PROVE  /\ loop' \in [Gens -> LoopState]
           /\ \A h \in Gens : h # g => loop'[h] = loop[h]
           /\ loop'[g].pc = loop[g].pc /\ loop'[g].entry = loop[g].entry
           /\ loop'[g].deadline = MaxInt64 /\ loop'[g].tick = TRUE
<1> DEFINE d == MaxInt64
<1>1. d \in 0..MaxInt64 BY SchedulerAssumption DEF SchedulerAssumption
<1>2. loop' = [loop EXCEPT ![g].tick = TRUE, ![g].deadline = d] BY DEF TimerFire
<1> HIDE DEF d
<1>3. /\ loop' \in [Gens -> LoopState]
      /\ \A h \in Gens : h # g => loop'[h] = loop[h]
      /\ loop'[g].pc = loop[g].pc /\ loop'[g].entry = loop[g].entry
      /\ loop'[g].deadline = d /\ loop'[g].tick = TRUE
  BY <1>1, <1>2 DEF LoopState
<1>4. QED BY <1>3 DEF d

LEMMA LoopPCFacts ==
    /\ "size" \in LoopPCs /\ "head" \in LoopPCs /\ "select" \in LoopPCs
    /\ "fetch" \in LoopPCs /\ "resched" \in LoopPCs /\ "dispatch" \in LoopPCs
    /\ "exec" \in LoopPCs /\ "exited" \in LoopPCs
BY DEF LoopPCs

-----------------------------------------------------------------------------
(* Type correctness.                                                       *)

LEMMA TypeInit == Init => TypeInv
<1> SUFFICES ASSUME Init PROVE TypeInv OBVIOUS
<1>1. /\ MaxInt64 \in 0..MaxInt64 /\ 0 \in 0..MaxInt64 /\ 1 \in 1..MaxTime
      /\ 0 \in 0..MaxStarts /\ 0 \in 0..MisfiredCap
  BY SchedulerAssumption DEF SchedulerAssumption
<1> DEFINE d == MaxInt64
<1>2. d \in 0..MaxInt64 BY <1>1
<1>3. loop \in [Gens -> LoopState]
  <2>1. loop = [g \in Gens |-> [pc |-> "off", deadline |-> d, tick |-> FALSE,
                                entry |-> NoEntry]]
    BY DEF Init
  <2> HIDE DEF d
  <2>2. QED BY <1>2, <2>1 DEF LoopState, LoopPCs
<1>4. call \in [Clients -> CallState] BY DEF Init, CallState, CallPCs
<1>5. lastFired \in [JobKeys -> 0..MaxInt64] BY <1>1 DEF Init
<1>6. /\ now \in 1..MaxTime /\ gen \in 0..MaxStarts /\ misfired \in 0..MisfiredCap
      /\ spawned \in Nat /\ wg \in Int
  BY <1>1 DEF Init
<1>7. TypeOK BY <1>3, <1>4, <1>5, <1>6 DEF Init, TypeOK
<1>8. HandsFull BY DEF Init, HandsFull
<1>9. QED BY <1>7, <1>8 DEF TypeInv

LEMMA TypeStep == TypeInv /\ [Next]_vars => TypeInv'
<1> SUFFICES ASSUME TypeInv, [Next]_vars PROVE TypeInv' OBVIOUS
<1> USE DEF TypeInv, jobVars, runVars, execVars
<1>0. /\ MaxInt64 \in Nat /\ MaxTime \in Nat \ {0} /\ MaxStarts \in Nat
      /\ MisfiredCap \in Nat /\ WorkerLimit \in Nat /\ NoEntry \notin Entry
      /\ MaxInt64 \in 0..MaxInt64 /\ 1..MaxTime \subseteq 0..MaxInt64
  BY SchedulerAssumption DEF SchedulerAssumption, Entry
<1>1. CASE Tick
  BY <1>0, <1>1 DEF Tick, TypeOK, HandsFull
<1>2. CASE Start
  BY <1>0, <1>2, GoOnType, LoopPCFacts DEF Start, WgAdd, TypeOK, HandsFull, Gens, Workers
<1>3. CASE Stop
  BY <1>0, <1>3 DEF Stop, EndRun, TypeOK, HandsFull
<1>4. CASE JobReturns
  BY <1>0, <1>4 DEF JobReturns, ExecUnchanged, WgAdd, TypeOK, HandsFull
<1>5. CASE ReceiveMisfired
  BY <1>0, <1>5 DEF ReceiveMisfired, TypeOK, HandsFull
<1>6. ASSUME NEW c \in Clients, BeginCall(c) PROVE TypeInv'
  <2> USE DEF CallUnchanged, Goto, CallPCs, CallState
  <2>1. ASSUME NEW d \in Details, NEW t \in Triggers, ScheduleJob(c, d, t) PROVE TypeInv'
    BY <1>0, <2>1, NextFireTimeType, ConsumeType DEF ScheduleJob, FirstRunTime, Idle, Entry, TypeOK, HandsFull
  <2>2. ASSUME NEW k \in JobKeys, DeleteJob(c, k) PROVE TypeInv'
    BY <1>0, <2>2 DEF DeleteJob, WithKey, TypeOK, HandsFull
  <2>3. ASSUME NEW k \in JobKeys, PauseJob(c, k) PROVE TypeInv'
    BY <1>0, <2>3 DEF PauseJob, WithKey, Entry, TypeOK, HandsFull
  <2>4. ASSUME NEW k \in JobKeys, ResumeJob(c, k) PROVE TypeInv'
    <3>1. PICK e \in WithKey(queue, k) :
            /\ queue' = queue \ {e}
            /\ suspended' = [suspended EXCEPT ![e.detail] = FALSE]
            /\ IF CanFire(expired, e.trigger)
               THEN /\ expired' = Consume(expired, e.trigger)
                    /\ Goto(c, "repush", [e EXCEPT !.priority =
                                              NextFireTime(e.trigger, now)])
                    /\ lock' = c
               ELSE UNCHANGED <<expired, call, lock>>
      BY <2>4 DEF ResumeJob
    <3>2. UNCHANGED <<now, mode, runVars, loop, execVars, misfired, lastFired, interrupt>>
      BY <2>4 DEF ResumeJob
    <3>3. e \in Entry /\ e.trigger \in Triggers /\ now \in 0..MaxTime
      BY <1>0 DEF WithKey, Entry, TypeOK
    <3>4. CASE CanFire(expired, e.trigger)
      <4> DEFINE p == NextFireTime(e.trigger, now)
                 f == [e EXCEPT !.priority = p]
      <4>1. p \in 0..MaxInt64 BY <3>3, NextFireTimeType
      <4>2. Goto(c, "repush", f) /\ expired' = Consume(expired, e.trigger) /\ lock' = c
        BY <3>1, <3>4
      <4> HIDE DEF p
      <4>3. f \in Entry BY <3>3, <4>1, EntryAt
      <4> HIDE DEF f
      <4>4. QED BY <1>0, <3>1, <3>2, <3>3, <4>2, <4>3, ConsumeType DEF TypeOK, HandsFull
    <3>5. CASE ~CanFire(expired, e.trigger)
      BY <1>0, <3>1, <3>2, <3>3, <3>5 DEF TypeOK, HandsFull
    <3>6. QED BY <3>4, <3>5
  <2>5. CASE Clear(c)
    BY <1>0, <2>5 DEF Clear, TypeOK, HandsFull
  <2>6. QED BY <1>6, <2>1, <2>2, <2>3, <2>4, <2>5 DEF BeginCall
<1>7. ASSUME NEW c \in Clients, FinishCall(c) PROVE TypeInv'
  <2> USE DEF CallUnchanged, Goto, CallPCs, CallState
  <2>1. CASE PushJob(c)
    BY <1>0, <2>1, PushType DEF PushJob, TypeOK, HandsFull
  <2>2. CASE RepushJob(c)
    BY <1>0, <2>2, PushType DEF RepushJob, TypeOK, HandsFull
  <2>3. CASE NotifyLoop(c)
    BY <1>0, <2>3 DEF NotifyLoop, TypeOK, HandsFull
  <2>4. CASE Reset(c)
    BY <1>0, <2>4 DEF Reset, TypeOK, HandsFull
  <2>5. QED BY <1>7, <2>1, <2>2, <2>3, <2>4 DEF FinishCall
<1>8. ASSUME NEW g \in Gens, CancelContext(g) PROVE TypeInv'
  BY <1>0, <1>8 DEF CancelContext, TypeOK, HandsFull
<1>9. ASSUME NEW g \in Gens, Watch(g) PROVE TypeInv'
  BY <1>0, <1>9 DEF Watch, EndRun, TypeOK, HandsFull
<1>10. ASSUME NEW g \in Gens, TimerFire(g) PROVE TypeInv'
  BY <1>0, <1>10, TimerFireType, LoopPCFacts DEF TimerFire, At, LoopUnchanged, TypeOK, HandsFull
<1>11. ASSUME NEW g \in Gens, LoopStep(g) PROVE TypeInv'
  <2> USE DEF At, LoopUnchanged
  <2>1. CASE ReadSize(g)
    BY <1>0, <2>1, ArmType, LoopPCFacts DEF ReadSize, TypeOK, HandsFull
  <2>2. CASE ReadHead(g)
    <3>1. PICK d \in 0..MaxInt64 : Arm(g, "select", d)
      BY <1>0, <2>2 DEF ReadHead, Heads, Entry, TypeOK
    <3>2. UNCHANGED <<now, mode, runVars, call, jobVars, lock, interrupt, execVars, misfired>>
      BY <2>2 DEF ReadHead
    <3>3. QED BY <3>1, <3>2, ArmType, LoopPCFacts DEF TypeOK, HandsFull
  <2>3. CASE SelectTick(g)
    BY <1>0, <2>3, LoopPCFacts DEF SelectTick, LoopState, TypeOK, HandsFull
  <2>4. CASE SelectInterrupt(g)
    <3>1. /\ interrupt' \in BOOLEAN /\ loop' \in [Gens -> LoopState]
          /\ \A h \in Gens : h # g => loop'[h] = loop[h]
          /\ loop'[g].pc = "size"
      BY <1>0, <2>4, ArmType, LoopPCFacts DEF SelectInterrupt, TypeOK
    <3>2. UNCHANGED <<now, mode, runVars, call, jobVars, lock, execVars, misfired>>
      BY <2>4 DEF SelectInterrupt
    <3>3. QED BY <3>1, <3>2 DEF TypeOK, HandsFull
  <2>5. CASE SelectDone(g)
    BY <1>0, <2>5, ArmType, LoopPCFacts DEF SelectDone, WgAdd, TypeOK, HandsFull
  <2>6. CASE FetchJob(g)
    BY <1>0, <2>6, GoOnType, HoldType, LoopPCFacts DEF FetchJob, GoOn, Heads, TypeOK, HandsFull
  <2>7. CASE ParkSuspended(g)
    BY <1>0, <2>7, HoldType, LoopPCFacts, PutBackType DEF ParkSuspended, Unlock, TypeOK, HandsFull
  <2>8. CASE SkipOutdated(g)
    BY <1>0, <2>8, HoldType, LoopPCFacts, RescheduleType DEF SkipOutdated, AfterSend, Unlock, TypeOK, HandsFull
  <2>9. CASE PutBackEarly(g)
    BY <1>0, <2>9, HoldType, LoopPCFacts, PutBackType DEF PutBackEarly, Unlock, Entry, TypeOK, HandsFull
  <2>10. CASE TakeDue(g)
    <3> DEFINE e == loop[g].entry
    <3>1. e \in Entry /\ e.priority \in 0..MaxTime /\ e.priority \in 0..MaxInt64
      BY <1>0, <2>10 DEF TakeDue, Unlock, IsDue, IsEarly, Entry, TypeOK, HandsFull
    <3>2. /\ queue' \in SUBSET Entry /\ interrupt' \in BOOLEAN
          /\ expired' \in [Triggers -> BOOLEAN]
      BY <2>10, <3>1, RescheduleType DEF TakeDue, TypeOK
    <3>3. Hold(g, "dispatch", e) BY <2>10 DEF TakeDue, Unlock
    <3>4. lastFired' \in [JobKeys -> 0..MaxInt64]
      BY <2>10, <3>1 DEF TakeDue, TypeOK
    <3>5. lock' = NoOwner /\ UNCHANGED <<now, mode, runVars, call, suspended, execVars, misfired>>
      BY <2>10 DEF TakeDue, Unlock
    <3> HIDE DEF e
    <3>6. QED BY <3>1, <3>2, <3>3, <3>4, <3>5, HoldType, LoopPCFacts DEF TypeOK, HandsFull
  <2>11. CASE BlockingBegin(g)
    BY <1>0, <2>11, GoOnType, LoopPCFacts DEF BlockingBegin, ExecUnchanged, TypeOK, HandsFull
  <2>12. CASE BlockingEnd(g)
    BY <1>0, <2>12, HoldType, LoopPCFacts DEF BlockingEnd, ExecUnchanged, TypeOK, HandsFull
  <2>13. CASE Spawn(g)
    BY <1>0, <2>13, HoldType, LoopPCFacts DEF Spawn, ExecUnchanged, WgAdd, TypeOK, HandsFull
  <2>14. CASE DispatchCancelled(g)
    BY <1>0, <2>14, HoldType, LoopPCFacts DEF DispatchCancelled, ExecUnchanged, TypeOK, HandsFull
  <2>15. ASSUME NEW w \in Workers, Dispatch(g, w) PROVE TypeInv'
    BY <1>0, <2>15, HoldType, LoopPCFacts DEF Dispatch, ExecUnchanged, TypeOK, HandsFull
  <2>16. QED BY <1>11, <2>1, <2>2, <2>3, <2>4, <2>5, <2>6, <2>7, <2>8, <2>9, <2>10,
                <2>11, <2>12, <2>13, <2>14, <2>15 DEF LoopStep
<1>12. ASSUME NEW w \in Workers, WorkerStep(w) PROVE TypeInv'
  BY <1>0, <1>12 DEF WorkerStep, WorkerReturns, WorkerExits, ExecUnchanged, WgAdd, TypeOK, HandsFull
<1>13. CASE UNCHANGED vars
  BY <1>0, <1>13 DEF vars, TypeOK, HandsFull
<1>14. QED
  BY <1>1, <1>2, <1>3, <1>4, <1>5, <1>6, <1>7, <1>8, <1>9, <1>10, <1>11, <1>12, <1>13 DEF Next

\* TypeOK is an invariant: every variable keeps its type.
THEOREM TypeCorrect == Spec => []TypeOK
<1>1. Spec => []TypeInv BY TypeInit, TypeStep, PTL DEF Spec
<1>2. TypeInv => TypeOK BY DEF TypeInv
<1>3. QED BY <1>1, <1>2, PTL

-----------------------------------------------------------------------------
(* Generations.                                                            *)

\* Nothing of a generation exists before its Start.
NotBegun == \A g \in Gens : g > gen => loop[g].pc = "off" /\ ~done[g]

\* A loop moves itself alone, and only once it has been started.
LEMMA LoopStepLocal ==
    ASSUME TypeInv, NEW g \in Gens, LoopStep(g) \/ TimerFire(g)
    PROVE  /\ loop[g].pc # "off"
           /\ \A h \in Gens : h # g => loop'[h] = loop[h]
           /\ UNCHANGED <<gen, done>>
<1> USE DEF At, GoOn, Arm, Hold, LoopUnchanged, ExecUnchanged, runVars
<1>0. loop \in [Gens -> LoopState] BY DEF TypeInv, TypeOK
<1>1. CASE TimerFire(g) BY <1>0, <1>1 DEF TimerFire
<1>2. CASE ReadSize(g) \/ ReadHead(g) BY <1>0, <1>2 DEF ReadSize, ReadHead
<1>3. CASE SelectTick(g) \/ SelectInterrupt(g) \/ SelectDone(g)
  BY <1>0, <1>3 DEF SelectTick, SelectInterrupt, SelectDone
<1>4. CASE FetchJob(g) BY <1>0, <1>4 DEF FetchJob
<1>5. CASE ParkSuspended(g) \/ SkipOutdated(g) \/ PutBackEarly(g) \/ TakeDue(g)
  BY <1>0, <1>5 DEF ParkSuspended, SkipOutdated, PutBackEarly, TakeDue, Unlock
<1>6. CASE BlockingBegin(g) \/ BlockingEnd(g) BY <1>0, <1>6 DEF BlockingBegin, BlockingEnd
<1>7. CASE Spawn(g) \/ DispatchCancelled(g) BY <1>0, <1>7 DEF Spawn, DispatchCancelled
<1>8. CASE \E w \in Workers : Dispatch(g, w) BY <1>0, <1>8 DEF Dispatch
<1>9. QED BY <1>1, <1>2, <1>3, <1>4, <1>5, <1>6, <1>7, <1>8 DEF LoopStep

LEMMA NotBegunStep == TypeInv /\ NotBegun /\ [Next]_vars => NotBegun'
<1> SUFFICES ASSUME TypeInv, NotBegun, [Next]_vars PROVE NotBegun' OBVIOUS
<1> USE DEF NotBegun, runVars
<1>0. /\ loop \in [Gens -> LoopState] /\ done \in [Gens -> BOOLEAN] /\ gen \in 0..MaxStarts
      /\ Gens \subseteq Int
  BY DEF TypeInv, TypeOK, Gens
<1>1. CASE Start
  BY <1>0, <1>1 DEF Start, GoOn, Gens
<1>2. CASE Stop
  BY <1>0, <1>2 DEF Stop, EndRun, Gens
<1>3. ASSUME NEW g \in Gens, CancelContext(g) \/ Watch(g) PROVE NotBegun'
  <2>1. CASE CancelContext(g) BY <1>0, <2>1 DEF CancelContext
  <2>2. CASE Watch(g) BY <1>0, <2>2 DEF Watch, EndRun
  <2>3. QED BY <1>3, <2>1, <2>2
<1>4. ASSUME NEW g \in Gens, LoopStep(g) \/ TimerFire(g) PROVE NotBegun'
  BY <1>0, <1>4, LoopStepLocal
<1>5. ASSUME NEW c \in Clients, BeginCall(c) \/ FinishCall(c) PROVE UNCHANGED <<gen, done, loop>>
  BY <1>5 DEF BeginCall, FinishCall, ScheduleJob, DeleteJob, PauseJob, ResumeJob, Clear,
              PushJob, RepushJob, NotifyLoop, Reset, CallUnchanged
<1>6. CASE Tick \/ JobReturns \/ ReceiveMisfired
  BY <1>6 DEF Tick, JobReturns, ReceiveMisfired, ExecUnchanged
<1>7. ASSUME NEW w \in Workers, WorkerStep(w) PROVE NotBegun'
  BY <1>7 DEF WorkerStep, WorkerReturns, WorkerExits, ExecUnchanged
<1>8. CASE UNCHANGED vars BY <1>8 DEF vars
<1>9. QED BY <1>1, <1>2, <1>3, <1>4, <1>5, <1>6, <1>7, <1>8 DEF Next

LEMMA NotBegunInit == Init => NotBegun
BY DEF Init, NotBegun

-----------------------------------------------------------------------------
(* Which steps touch the jobs.                                             *)

\* Nothing happens to the jobs, to the calls or to queueLocker, and no loop
\* takes a job into its hands or out of them.
Quiet ==
    /\ UNCHANGED <<jobVars, lock, call>>
    /\ \A g \in Gens :
          /\ loop'[g].pc = "resched" <=> loop[g].pc = "resched"
          /\ loop[g].pc = "resched" => loop'[g].entry = loop[g].entry

\* The loop judges the job it has fetched and releases queueLocker.
Judge(g) == ParkSuspended(g) \/ SkipOutdated(g) \/ PutBackEarly(g) \/ TakeDue(g)

LEMMA QuietOrNot ==
    ASSUME TypeInv, NotBegun, [Next]_vars
    PROVE  \/ Quiet
           \/ \E c \in Clients : BeginCall(c) \/ FinishCall(c)
           \/ \E g \in Gens : FetchJob(g) \/ Judge(g)
<1> USE DEF jobVars, runVars, execVars
<1>0. loop \in [Gens -> LoopState] /\ MaxInt64 \in 0..MaxInt64 /\ NoEntry \in Entry \cup {NoEntry}
  BY SchedulerAssumption DEF SchedulerAssumption, TypeInv, TypeOK
<1>1. CASE Tick BY <1>1 DEF Tick, Quiet
<1>2. CASE Start
  <2>1. gen + 1 \in Gens /\ gen + 1 > gen
    BY <1>2, SchedulerAssumption DEF Start, TypeInv, TypeOK, Gens, SchedulerAssumption
  <2>2. loop[gen + 1].pc = "off" BY <2>1 DEF NotBegun
  <2>3. GoOn(gen + 1, "size") /\ UNCHANGED <<jobVars, lock, call>> BY <1>2 DEF Start
  <2>4. QED BY <1>0, <2>1, <2>2, <2>3, GoOnType, LoopPCFacts DEF Quiet
<1>3. CASE Stop BY <1>3 DEF Stop, Quiet
<1>4. CASE JobReturns BY <1>4 DEF JobReturns, ExecUnchanged, Quiet
<1>5. CASE ReceiveMisfired BY <1>5 DEF ReceiveMisfired, Quiet
<1>6. ASSUME NEW g \in Gens, CancelContext(g) PROVE Quiet
  BY <1>6 DEF CancelContext, Quiet
<1>7. ASSUME NEW g \in Gens, Watch(g) PROVE Quiet
  BY <1>7 DEF Watch, EndRun, Quiet
<1>8. ASSUME NEW g \in Gens, TimerFire(g) PROVE Quiet
  BY <1>0, <1>8, TimerFireType DEF TimerFire, LoopUnchanged, Quiet
<1>9. ASSUME NEW w \in Workers, WorkerStep(w) PROVE Quiet
  BY <1>9 DEF WorkerStep, WorkerReturns, WorkerExits, ExecUnchanged, Quiet
<1>10. ASSUME NEW g \in Gens, LoopStep(g) PROVE Quiet \/ FetchJob(g) \/ Judge(g)
  <2> USE DEF At, LoopUnchanged, ExecUnchanged
  <2>1. CASE ReadSize(g)
    BY <1>0, <2>1, ArmType, LoopPCFacts DEF ReadSize, Quiet
  <2>2. CASE ReadHead(g)
    <3>1. PICK d \in 0..MaxInt64 : Arm(g, "select", d)
      BY <2>2, SchedulerAssumption
         DEF ReadHead, Heads, Entry, TypeInv, TypeOK, SchedulerAssumption
    <3>2. QED BY <1>0, <2>2, <3>1, ArmType, LoopPCFacts DEF ReadHead, Quiet
  <2>3. CASE SelectTick(g)
    BY <1>0, <2>3 DEF SelectTick, LoopState, Quiet
  <2>4. CASE SelectInterrupt(g)
    BY <1>0, <2>4, ArmType, LoopPCFacts DEF SelectInterrupt, Quiet
  <2>5. CASE SelectDone(g)
    BY <1>0, <2>5, ArmType, LoopPCFacts DEF SelectDone, Quiet
  <2>6. CASE BlockingBegin(g)
    BY <1>0, <2>6, GoOnType, LoopPCFacts DEF BlockingBegin, Quiet
  <2>7. CASE BlockingEnd(g)
    BY <1>0, <2>7, HoldType, LoopPCFacts DEF BlockingEnd, Quiet
  <2>8. CASE Spawn(g)
    BY <1>0, <2>8, HoldType, LoopPCFacts DEF Spawn, Quiet
  <2>9. CASE DispatchCancelled(g)
    BY <1>0, <2>9, HoldType, LoopPCFacts DEF DispatchCancelled, Quiet
  <2>10. ASSUME NEW w \in Workers, Dispatch(g, w) PROVE Quiet
    BY <1>0, <2>10, HoldType, LoopPCFacts DEF Dispatch, Quiet
  <2>11. QED BY <1>10, <2>1, <2>2, <2>3, <2>4, <2>5, <2>6, <2>7, <2>8, <2>9, <2>10
             DEF LoopStep, Judge
<1>11. CASE UNCHANGED vars BY <1>11 DEF vars, Quiet
<1>12. QED
  BY <1>1, <1>2, <1>3, <1>4, <1>5, <1>6, <1>7, <1>8, <1>9, <1>10, <1>11 DEF Next

\* A judged job is pushed back with some run time, or leaves the queue.
LEMMA JudgeEffect ==
    ASSUME TypeInv, NEW g \in Gens, Judge(g)
    PROVE  /\ loop[g].pc = "resched" /\ lock' = NoOwner /\ UNCHANGED <<call, suspended>>
           /\ loop' \in [Gens -> LoopState] /\ loop'[g].pc \in {"size", "dispatch"}
           /\ \A h \in Gens : h # g => loop'[h] = loop[h]
           /\ \/ queue' = queue
              \/ \E p \in 0..MaxInt64 : queue' = Push(queue, [loop[g].entry EXCEPT !.priority = p])
<1> DEFINE e == loop[g].entry
<1> USE DEF runVars
<1>0. /\ loop \in [Gens -> LoopState] /\ MaxInt64 \in 0..MaxInt64 /\ now \in 0..MaxTime
      /\ MaxTime \in Nat /\ MaxInt64 \in Nat /\ NoEntry \in Entry \cup {NoEntry} /\ interrupt \in BOOLEAN
  BY SchedulerAssumption DEF SchedulerAssumption, TypeInv, TypeOK
<1>1. loop[g].pc = "resched" /\ e \in Entry /\ e.priority \in 0..MaxInt64 /\ e.trigger \in Triggers
  BY DEF Judge, ParkSuspended, SkipOutdated, PutBackEarly, TakeDue, Unlock, At, TypeInv,
         HandsFull, Entry
<1>2. PICK pc \in {"size", "dispatch"}, f \in Entry \cup {NoEntry} : Unlock(g, pc, f)
  BY <1>0, <1>1 DEF Judge, ParkSuspended, SkipOutdated, PutBackEarly, TakeDue
<1>3. /\ lock' = NoOwner /\ UNCHANGED <<call, suspended>>
      /\ loop' \in [Gens -> LoopState] /\ loop'[g].pc \in {"size", "dispatch"}
      /\ \A h \in Gens : h # g => loop'[h] = loop[h]
  BY <1>0, <1>2, HoldType, LoopPCFacts DEF Unlock, LoopUnchanged
<1>4. ASSUME NEW p \in 0..MaxInt64, PutBack(e, p)
      PROVE  queue' = queue \/ queue' = Push(queue, [e EXCEPT !.priority = p])
  BY <1>4 DEF PutBack
<1>5. ASSUME NEW p \in 0..MaxTime, Reschedule(e, p)
      PROVE  \/ queue' = queue
             \/ \E q \in 0..MaxInt64 : queue' = Push(queue, [e EXCEPT !.priority = q])
  <2>1. NextFireTime(e.trigger, p) \in 0..MaxInt64 BY <1>1, NextFireTimeType
  <2>2. QED BY <1>4, <1>5, <2>1 DEF Reschedule
<1>6. \/ \E p \in 0..MaxInt64 : PutBack(e, p)
      \/ \E p \in 0..MaxTime : Reschedule(e, p)
  <2>1. CASE ParkSuspended(g) BY <1>0, <2>1 DEF ParkSuspended
  <2>2. CASE SkipOutdated(g) BY <1>0, <2>2 DEF SkipOutdated
  <2>3. CASE PutBackEarly(g) BY <1>1, <2>3 DEF PutBackEarly
  <2>4. CASE TakeDue(g)
    <3>1. e.priority \in 0..MaxTime
      <4>1. ~(e.priority > now) BY <2>4 DEF TakeDue, IsDue, IsEarly
      <4> HIDE DEF e
      <4>2. QED BY <1>0, <1>1, <4>1
    <3>2. QED BY <2>4, <3>1 DEF TakeDue
  <2>5. QED BY <2>1, <2>2, <2>3, <2>4 DEF Judge
<1>7. \/ queue' = queue
      \/ \E p \in 0..MaxInt64 : queue' = Push(queue, [e EXCEPT !.priority = p])
  BY <1>4, <1>5, <1>6
<1>8. QED BY <1>1, <1>3, <1>7

-----------------------------------------------------------------------------
(* queueLocker.                                                            *)

\* Whoever is between a Remove or a Pop and the end of its operation is the
\* holder of queueLocker, and nobody else is.
LockInv ==
    /\ \A c \in Clients : call[c].pc \in Holding <=> lock = c
    /\ \A g \in Gens : loop[g].pc = "resched" <=> lock = g

Base == TypeInv /\ NotBegun /\ LockInv

\* What a call does to the lock: it needs it free and keeps it, or it does
\* not touch it, or it is the holder and keeps it or gives it up.
LEMMA CallLock ==
    ASSUME TypeInv, NEW c \in Clients, BeginCall(c) \/ FinishCall(c)
    PROVE  /\ UNCHANGED loop
           /\ \A b \in Clients : b # c => call'[b] = call[b]
           /\ \/ /\ lock = NoOwner /\ lock' = c
                 /\ call'[c].pc \in Holding
              \/ /\ call[c].pc \in Holding /\ lock' = lock
                 /\ call'[c].pc \in Holding
              \/ /\ call[c].pc \notin Holding /\ lock' = lock
                 /\ call'[c].pc \notin Holding
              \/ /\ call[c].pc \in Holding /\ lock' = NoOwner
                 /\ call'[c].pc \notin Holding
<1> USE DEF Goto, CallUnchanged, Idle, CallState
<1>0. call \in [Clients -> CallState] BY DEF TypeInv, TypeOK
<1>1. ASSUME NEW d \in Details, NEW t \in Triggers, ScheduleJob(c, d, t)
      PROVE  /\ UNCHANGED <<loop, lock>> /\ call[c].pc = "idle" /\ call'[c].pc = "push"
             /\ \A b \in Clients : b # c => call'[b] = call[b]
  BY <1>0, <1>1 DEF ScheduleJob
<1>2. ASSUME NEW k \in JobKeys, DeleteJob(c, k)
      PROVE  /\ UNCHANGED loop /\ lock = NoOwner /\ lock' = c /\ call'[c].pc = "notify"
             /\ \A b \in Clients : b # c => call'[b] = call[b]
  BY <1>0, <1>2 DEF DeleteJob
<1>3. ASSUME NEW k \in JobKeys, PauseJob(c, k)
      PROVE  /\ UNCHANGED loop /\ lock = NoOwner /\ lock' = c /\ call'[c].pc = "repush"
             /\ \A b \in Clients : b # c => call'[b] = call[b]
  BY <1>0, <1>3 DEF PauseJob
<1>4. ASSUME NEW k \in JobKeys, ResumeJob(c, k)
      PROVE  /\ UNCHANGED loop
             /\ \A b \in Clients : b # c => call'[b] = call[b]
             /\ \/ lock = NoOwner /\ lock' = c /\ call'[c].pc = "repush"
                \/ call[c].pc = "idle" /\ UNCHANGED <<lock, call>>
  BY <1>0, <1>4 DEF ResumeJob
<1>5. ASSUME Clear(c)
      PROVE  /\ UNCHANGED loop /\ lock = NoOwner /\ lock' = c /\ call'[c].pc = "notify"
             /\ \A b \in Clients : b # c => call'[b] = call[b]
  BY <1>0, <1>5 DEF Clear
<1>6. ASSUME PushJob(c)
      PROVE  /\ UNCHANGED loop /\ call[c].pc = "push"
             /\ \A b \in Clients : b # c => call'[b] = call[b]
             /\ \/ lock = NoOwner /\ lock' = c /\ call'[c].pc = "notify"
                \/ UNCHANGED lock /\ call'[c].pc = "idle"
  BY <1>0, <1>6 DEF PushJob
<1>7. ASSUME RepushJob(c)
      PROVE  /\ UNCHANGED loop /\ call[c].pc = "repush"
             /\ \A b \in Clients : b # c => call'[b] = call[b]
             /\ \/ UNCHANGED lock /\ call'[c].pc = "notify"
                \/ lock' = NoOwner /\ call'[c].pc = "idle"
  BY <1>0, <1>7 DEF RepushJob
<1>8. ASSUME NotifyLoop(c)
      PROVE  /\ UNCHANGED loop /\ call[c].pc = "notify"
             /\ \A b \in Clients : b # c => call'[b] = call[b]
             /\ \/ UNCHANGED lock /\ call'[c].pc = "reset"
                \/ lock' = NoOwner /\ call'[c].pc = "idle"
  BY <1>0, <1>8 DEF NotifyLoop
<1>9. ASSUME Reset(c)
      PROVE  /\ UNCHANGED loop /\ call[c].pc = "reset"
             /\ \A b \in Clients : b # c => call'[b] = call[b]
             /\ lock' = NoOwner /\ call'[c].pc = "idle"
  BY <1>0, <1>9 DEF Reset
<1> USE DEF Holding
<1>10. CASE \E d \in Details, t \in Triggers : ScheduleJob(c, d, t)
  BY <1>1, <1>10
<1>11. CASE \E k \in JobKeys : DeleteJob(c, k) \/ PauseJob(c, k) \/ ResumeJob(c, k)
  BY <1>2, <1>3, <1>4, <1>11
<1>12. CASE Clear(c) BY <1>5, <1>12
<1>13. CASE PushJob(c) BY <1>6, <1>13
<1>14. CASE RepushJob(c) BY <1>7, <1>14
<1>15. CASE NotifyLoop(c) BY <1>8, <1>15
<1>16. CASE Reset(c) BY <1>9, <1>16
<1>17. QED BY <1>10, <1>11, <1>12, <1>13, <1>14, <1>15, <1>16 DEF BeginCall, FinishCall

\* The loop's Pop takes a job into its hands and the lock with it.
LEMMA FetchEffect ==
    ASSUME TypeInv, NEW g \in Gens, FetchJob(g)
    PROVE  /\ loop[g].pc = "fetch" /\ lock = NoOwner /\ UNCHANGED call
           /\ \A h \in Gens : h # g => loop'[h] = loop[h]
           /\ UNCHANGED <<suspended, expired, lastFired>>
           /\ \/ queue = {} /\ UNCHANGED <<queue, lock>> /\ loop'[g].pc = "size"
              \/ \E e \in queue :
                    /\ queue' = queue \ {e} /\ lock' = g
                    /\ loop'[g].pc = "resched" /\ loop'[g].entry = e
<1>0. loop \in [Gens -> LoopState] /\ queue \subseteq Entry BY DEF TypeInv, TypeOK
<1>1. /\ loop[g].pc = "fetch" /\ lock = NoOwner /\ UNCHANGED call
      /\ UNCHANGED <<suspended, expired, lastFired>>
  BY DEF FetchJob, At, LoopUnchanged
<1>2. CASE queue = {}
  <2>1. GoOn(g, "size") /\ UNCHANGED <<queue, lock>> BY <1>2 DEF FetchJob
  <2>2. QED BY <1>0, <1>1, <1>2, <2>1, GoOnType, LoopPCFacts
<1>3. CASE queue # {}
  <2>1. PICK e \in queue : queue' = queue \ {e} /\ lock' = g /\ Hold(g, "resched", e)
    BY <1>3 DEF FetchJob, Heads
  <2>2. QED BY <1>0, <1>1, <2>1, HoldType, LoopPCFacts
<1>4. QED BY <1>2, <1>3

LEMMA LockStep == Base /\ [Next]_vars => LockInv'
<1> SUFFICES ASSUME TypeInv, NotBegun, LockInv, [Next]_vars PROVE LockInv' BY DEF Base
<1>0. Clients \cap Gens = {} /\ NoOwner \notin Clients \cup Gens
  BY SchedulerAssumption DEF SchedulerAssumption
<1>1. CASE Quiet BY <1>1 DEF Quiet, LockInv
<1>2. ASSUME NEW c \in Clients, BeginCall(c) \/ FinishCall(c) PROVE LockInv'
  BY <1>0, <1>2, CallLock DEF LockInv
<1>3. ASSUME NEW g \in Gens, FetchJob(g) PROVE LockInv'
  BY <1>0, <1>3, FetchEffect DEF LockInv
<1>4. ASSUME NEW g \in Gens, Judge(g) PROVE LockInv'
  BY <1>0, <1>4, JudgeEffect DEF LockInv
<1>5. QED BY <1>1, <1>2, <1>3, <1>4, QuietOrNot

LEMMA BaseInvariant == Spec => []Base
<1>1. Init => Base
  <2>1. Init => LockInv
    BY SchedulerAssumption DEF Init, LockInv, Holding, SchedulerAssumption
  <2>2. QED BY <2>1, TypeInit, NotBegunInit DEF Base
<1>2. Base /\ [Next]_vars => Base'
  BY LockStep, TypeStep, NotBegunStep DEF Base
<1>3. QED BY <1>1, <1>2, PTL DEF Spec

-----------------------------------------------------------------------------
(* One job per key.                                                        *)

Unique(q) == \A e, f \in q : Key(e) = Key(f) => e = f

\* OneJobPerKey in terms of those who hold a job; LockInv adds that at most
\* one of them does.
KeysInv ==
    /\ Unique(queue)
    /\ \A c \in Clients : call[c].pc = "repush" => Key(call[c].entry) \notin Keys(queue)
    /\ \A g \in Gens : loop[g].pc = "resched" => Key(loop[g].entry) \notin Keys(queue)

\* Push keeps the entries of a queue apart.
LEMMA PushUnique ==
    ASSUME NEW q, Unique(q), NEW e
    PROVE  Unique(Push(q, e))
BY DEF Unique, Push, WithKey

\* Without an entry, its key is gone.
LEMMA RemoveUnique ==
    ASSUME NEW q, Unique(q), NEW e \in q
    PROVE  Unique(q \ {e}) /\ Key(e) \notin Keys(q \ {e})
BY DEF Unique, Keys

\* A new run time leaves the key.
LEMMA KeyAt ==
    ASSUME NEW e \in Entry, NEW p \in 0..MaxInt64
    PROVE  Key([e EXCEPT !.priority = p]) = Key(e)
BY EntryAt DEF Key

\* With the lock free nobody has a job in hand, and its holder is alone.
LEMMA HandsOfHolder ==
    ASSUME LockInv
    PROVE  /\ lock = NoOwner => InHand = {}
           /\ \A c \in Clients : lock = c => InHand \subseteq {call[c].entry}
           /\ \A g \in Gens : lock = g => InHand = {loop[g].entry}
           /\ \A e, f \in InHand : e = f
<1>0. Clients \cap Gens = {} /\ NoOwner \notin Clients \cup Gens
  BY SchedulerAssumption DEF SchedulerAssumption
<1>1. /\ \A c \in Clients : call[c].pc = "repush" => lock = c
      /\ \A g \in Gens : loop[g].pc = "resched" <=> lock = g
  BY DEF LockInv, Holding
<1>2. QED BY <1>0, <1>1 DEF InHand

LEMMA KeysUnique == Base /\ KeysInv => OneJobPerKey
<1> SUFFICES ASSUME Base, KeysInv PROVE OneJobPerKey OBVIOUS
<1>1. \A e, f \in InHand : e = f BY HandsOfHolder DEF Base
<1>2. \A e \in InHand : Key(e) \notin Keys(queue) BY DEF InHand, KeysInv
<1>3. QED BY <1>1, <1>2 DEF OneJobPerKey, KeysInv, Unique

\* A call that leaves the queue alone, or takes entries out of it, keeps a
\* job in hand only under a key that the queue does not have.
LEMMA CallKeys ==
    ASSUME Base, KeysInv, NEW c \in Clients, BeginCall(c) \/ FinishCall(c)
    PROVE  KeysInv'
<1> USE DEF Base, Goto, CallUnchanged, CallState
<1>0. /\ call \in [Clients -> CallState] /\ UNCHANGED loop
      /\ \A b \in Clients : b # c => call'[b] = call[b]
      /\ Unique(queue)
  BY CallLock DEF TypeInv, TypeOK, KeysInv
<1>1. ASSUME lock = NoOwner
      PROVE  /\ \A b \in Clients : call[b].pc # "repush"
             /\ \A g \in Gens : loop[g].pc # "resched"
  BY <1>1, SchedulerAssumption DEF LockInv, Holding, SchedulerAssumption
<1>2. ASSUME Unique(queue'), Keys(queue') \subseteq Keys(queue), call'[c].pc # "repush"
      PROVE  KeysInv'
  BY <1>0, <1>2 DEF KeysInv, Key
<1>3. ASSUME NEW d \in Details, NEW t \in Triggers, ScheduleJob(c, d, t) PROVE KeysInv'
  BY <1>0, <1>2, <1>3 DEF ScheduleJob
<1>4. ASSUME NEW k \in JobKeys, DeleteJob(c, k) PROVE KeysInv'
  <2>1. queue' \subseteq queue BY <1>4 DEF DeleteJob
  <2>2. call'[c].pc # "repush" BY <1>0, <1>4 DEF DeleteJob
  <2>3. QED BY <1>0, <1>2, <2>1, <2>2 DEF Unique, Keys
<1>5. CASE Clear(c)
  BY <1>0, <1>2, <1>5 DEF Clear, Unique, Keys
<1>6. ASSUME NEW k \in JobKeys, PauseJob(c, k) PROVE KeysInv'
  <2>1. PICK e \in queue : /\ queue' = queue \ {e}
                           /\ Goto(c, "repush", [e EXCEPT !.priority = MaxInt64])
    BY <1>6 DEF PauseJob, WithKey
  <2>2. lock = NoOwner BY <1>6 DEF PauseJob
  <2>3. e \in Entry /\ MaxInt64 \in 0..MaxInt64
    BY SchedulerAssumption DEF TypeInv, TypeOK, SchedulerAssumption
  <2>4. call'[c].entry = [e EXCEPT !.priority = MaxInt64] BY <1>0, <2>1
  <2>5. Key(call'[c].entry) = Key(e) BY <2>3, <2>4, KeyAt
  <2>6. Unique(queue') /\ Key(e) \notin Keys(queue') BY <1>0, <2>1, RemoveUnique
  <2>7. QED BY <1>0, <1>1, <2>2, <2>5, <2>6 DEF KeysInv
<1>7. ASSUME NEW k \in JobKeys, ResumeJob(c, k) PROVE KeysInv'
  <2>1. PICK e \in queue :
          /\ queue' = queue \ {e}
          /\ \/ CanFire(expired, e.trigger)
                /\ Goto(c, "repush", [e EXCEPT !.priority = NextFireTime(e.trigger, now)])
             \/ UNCHANGED call
    BY <1>7 DEF ResumeJob, WithKey
  <2>2. lock = NoOwner BY <1>7 DEF ResumeJob
  <2>3. e \in Entry /\ NextFireTime(e.trigger, now) \in 0..MaxInt64
    BY SchedulerAssumption, NextFireTimeType DEF TypeInv, TypeOK, SchedulerAssumption, Entry
  <2>4. Unique(queue') /\ Key(e) \notin Keys(queue') BY <1>0, <2>1, RemoveUnique
  <2>5. CASE UNCHANGED call
    BY <1>0, <1>1, <2>2, <2>4, <2>5 DEF KeysInv
  <2>6. CASE Goto(c, "repush", [e EXCEPT !.priority = NextFireTime(e.trigger, now)])
    <3>1. call'[c].entry = [e EXCEPT !.priority = NextFireTime(e.trigger, now)]
      BY <1>0, <2>6
    <3>2. Key(call'[c].entry) = Key(e) BY <2>3, <3>1, KeyAt
    <3>3. QED BY <1>0, <1>1, <2>2, <2>4, <3>2 DEF KeysInv
  <2>7. QED BY <2>1, <2>5, <2>6
<1>8. CASE PushJob(c)
  <2>1. CASE CanPush(queue, call[c].entry)
    <3>1. queue' = Push(queue, call[c].entry) /\ lock = NoOwner /\ call'[c].pc = "notify"
      BY <1>0, <1>8, <2>1 DEF PushJob
    <3>2. QED BY <1>0, <1>1, <3>1, PushUnique DEF KeysInv
  <2>2. CASE ~CanPush(queue, call[c].entry)
    BY <1>0, <1>2, <1>8, <2>2 DEF PushJob
  <2>3. QED BY <2>1, <2>2
<1>9. CASE RepushJob(c)
  <2>1. /\ \A b \in Clients : b # c => call'[b].pc # "repush"
        /\ \A g \in Gens : loop'[g].pc # "resched"
        /\ call'[c].pc # "repush"
    <3>1. lock = c BY <1>9 DEF RepushJob, LockInv, Holding
    <3>2. QED BY <1>0, <1>9, <3>1, SchedulerAssumption
              DEF RepushJob, LockInv, Holding, SchedulerAssumption
  <2>2. Unique(queue')
    BY <1>0, <1>9, PushUnique DEF RepushJob
  <2>3. QED BY <2>1, <2>2 DEF KeysInv
<1>10. CASE NotifyLoop(c) \/ Reset(c)
  BY <1>0, <1>2, <1>10 DEF NotifyLoop, Reset, jobVars
<1>11. QED BY <1>3, <1>4, <1>5, <1>6, <1>7, <1>8, <1>9, <1>10 DEF BeginCall, FinishCall

LEMMA KeysStep == Base /\ KeysInv /\ [Next]_vars => KeysInv'
<1> SUFFICES ASSUME Base, KeysInv, [Next]_vars PROVE KeysInv' OBVIOUS
<1>0. /\ Clients \cap Gens = {} /\ NoOwner \notin Clients \cup Gens
      /\ Unique(queue) /\ TypeInv /\ NotBegun
  BY SchedulerAssumption DEF SchedulerAssumption, KeysInv, Base
<1>1. CASE Quiet BY <1>1 DEF Quiet, KeysInv, jobVars
<1>2. ASSUME NEW c \in Clients, BeginCall(c) \/ FinishCall(c) PROVE KeysInv'
  BY <1>2, CallKeys
<1>3. ASSUME NEW g \in Gens, FetchJob(g) PROVE KeysInv'
  <2>1. /\ \A b \in Clients : call[b].pc # "repush"
        /\ \A h \in Gens : loop[h].pc # "resched"
    BY <1>0, <1>3 DEF FetchJob, Base, LockInv, Holding
  <2>2. /\ UNCHANGED call
        /\ \A h \in Gens : h # g => loop'[h] = loop[h]
    BY <1>0, <1>3, FetchEffect
  <2>3. CASE queue' = queue /\ loop'[g].pc = "size"
    BY <2>1, <2>2, <2>3 DEF KeysInv
  <2>4. ASSUME NEW e \in queue, queue' = queue \ {e}, loop'[g].entry = e PROVE KeysInv'
    <3>1. Unique(queue') /\ Key(e) \notin Keys(queue') BY <1>0, <2>4, RemoveUnique
    <3>2. QED BY <2>1, <2>2, <2>4, <3>1 DEF KeysInv
  <2>5. QED BY <1>0, <1>3, <2>3, <2>4, FetchEffect
<1>4. ASSUME NEW g \in Gens, Judge(g) PROVE KeysInv'
  <2>1. /\ loop[g].pc = "resched" /\ UNCHANGED call
        /\ loop'[g].pc \in {"size", "dispatch"}
        /\ \A h \in Gens : h # g => loop'[h] = loop[h]
        /\ \/ queue' = queue
           \/ \E p \in 0..MaxInt64 : queue' = Push(queue, [loop[g].entry EXCEPT !.priority = p])
    BY <1>0, <1>4, JudgeEffect
  <2>2. lock = g BY <2>1 DEF Base, LockInv
  <2>3. /\ \A b \in Clients : call'[b].pc # "repush"
        /\ \A h \in Gens : loop'[h].pc # "resched"
    BY <1>0, <2>1, <2>2 DEF Base, LockInv, Holding
  <2>4. Unique(queue') BY <1>0, <2>1, PushUnique
  <2>5. QED BY <2>3, <2>4 DEF KeysInv
<1>5. QED BY <1>0, <1>1, <1>2, <1>3, <1>4, QuietOrNot

\* One job per key, and a job in somebody's hands has the only entry of its
\* key: no Push of a call or of a loop fails or displaces another job.
THEOREM OneJobPerKeyHolds == Spec => []OneJobPerKey
<1>1. Init => KeysInv BY DEF Init, KeysInv, Unique
<1>2. Base /\ KeysInv => OneJobPerKey BY KeysUnique
<1>3. QED BY <1>1, <1>2, BaseInvariant, KeysStep, PTL DEF Spec

=============================================================================
