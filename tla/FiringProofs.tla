---------------------------- MODULE FiringProofs -----------------------------
(***************************************************************************)
(* Theorems about the jobs of Scheduler: the times at which they are       *)
(* executed, that none is lost, and that a parked job is a suspended one.  *)
(***************************************************************************)
EXTENDS SchedulerProofs

-----------------------------------------------------------------------------
(* Never early.                                                            *)

\* A loop that is about to execute a job has just judged it due, or goes on
\* with a job in hand.
LEMMA ExecStep ==
    ASSUME TypeInv, NEW g \in Gens, LoopStep(g) \/ TimerFire(g),
           loop'[g].pc \in {"dispatch", "exec"}
    PROVE  /\ now' = now
           /\ \/ loop[g].pc \in {"dispatch", "exec"} /\ loop'[g].entry = loop[g].entry
              \/ loop'[g].entry.priority <= now
<1> USE DEF At, LoopUnchanged, ExecUnchanged
<1>0. /\ loop \in [Gens -> LoopState] /\ NoEntry \in Entry \cup {NoEntry}
      /\ MaxInt64 \in 0..MaxInt64
  BY SchedulerAssumption DEF SchedulerAssumption, TypeInv, TypeOK
<1>1. CASE TimerFire(g)
  <2>1. now' = now BY <1>1 DEF TimerFire
  <2>2. QED BY <1>0, <1>1, <2>1, TimerFireType
<1>2. CASE ReadSize(g) \/ ReadHead(g)
  <2>1. ASSUME NEW d \in 0..MaxInt64, NEW pc \in {"head", "select"} PROVE ~Arm(g, pc, d)
    BY <1>0, <2>1, ArmType, LoopPCFacts
  <2>2. CASE ReadSize(g) BY <1>0, <2>1, <2>2 DEF ReadSize
  <2>3. CASE ReadHead(g)
    BY <1>0, <2>1, <2>3, SchedulerAssumption
       DEF ReadHead, Heads, Entry, TypeInv, TypeOK, SchedulerAssumption
  <2>4. QED BY <1>2, <2>2, <2>3
<1>3. CASE SelectTick(g) \/ SelectInterrupt(g) \/ SelectDone(g)
  <2>1. CASE SelectTick(g) BY <1>0, <2>1 DEF SelectTick, LoopState
  <2>2. CASE SelectInterrupt(g) BY <1>0, <2>2, ArmType, LoopPCFacts DEF SelectInterrupt
  <2>3. CASE SelectDone(g) BY <1>0, <2>3, ArmType, LoopPCFacts DEF SelectDone
  <2>4. QED BY <1>3, <2>1, <2>2, <2>3
<1>4. CASE FetchJob(g) BY <1>4, FetchEffect
<1>5. CASE ParkSuspended(g) \/ SkipOutdated(g) \/ PutBackEarly(g)
  <2>1. Hold(g, "size", NoEntry)
    BY <1>5 DEF ParkSuspended, SkipOutdated, PutBackEarly, Unlock
  <2>2. QED BY <1>0, <2>1, HoldType, LoopPCFacts
<1>6. CASE TakeDue(g)
  <2> DEFINE e == loop[g].entry
  <2>1. Hold(g, "dispatch", e) /\ now' = now /\ loop[g].pc = "resched"
    BY <1>6 DEF TakeDue, Unlock
  <2>2. e \in Entry BY <2>1 DEF TypeInv, HandsFull
  <2>3. ~(e.priority > now) BY <1>6 DEF TakeDue, IsDue, IsEarly
  <2>4. loop'[g].entry = e BY <1>0, <2>1, <2>2, HoldType, LoopPCFacts
  <2>5. e.priority \in Int /\ now \in Int BY <2>2 DEF Entry, TypeInv, TypeOK
  <2> HIDE DEF e
  <2>6. QED BY <2>1, <2>3, <2>4, <2>5
<1>7. CASE BlockingBegin(g)
  BY <1>0, <1>7, GoOnType, LoopPCFacts DEF BlockingBegin
<1>8. CASE BlockingEnd(g) \/ Spawn(g) \/ DispatchCancelled(g)
  <2>1. Hold(g, "size", NoEntry) BY <1>8 DEF BlockingEnd, Spawn, DispatchCancelled
  <2>2. QED BY <1>0, <2>1, HoldType, LoopPCFacts
<1>9. CASE \E w \in Workers : Dispatch(g, w)
  <2>1. Hold(g, "size", NoEntry) BY <1>9 DEF Dispatch
  <2>2. QED BY <1>0, <2>1, HoldType, LoopPCFacts
<1>10. QED BY <1>1, <1>2, <1>3, <1>4, <1>5, <1>6, <1>7, <1>8, <1>9 DEF LoopStep

\* Every other step leaves the loops with what they have, and time goes on.
LEMMA OtherStep ==
    ASSUME TypeInv, NotBegun, [Next]_vars,
           \A g \in Gens : ~LoopStep(g) /\ ~TimerFire(g)
    PROVE  /\ now' >= now
           /\ \A g \in Gens : \/ loop'[g] = loop[g]
                              \/ loop'[g].pc = "size"
<1>0. loop \in [Gens -> LoopState] /\ now \in Int BY DEF TypeInv, TypeOK
<1>1. CASE Tick BY <1>0, <1>1 DEF Tick
<1>2. CASE Start BY <1>0, <1>2 DEF Start, GoOn
<1>3. CASE Stop BY <1>0, <1>3 DEF Stop
<1>4. CASE JobReturns BY <1>0, <1>4 DEF JobReturns, ExecUnchanged
<1>5. CASE ReceiveMisfired BY <1>0, <1>5 DEF ReceiveMisfired
<1>6. ASSUME NEW c \in Clients, BeginCall(c) \/ FinishCall(c) PROVE UNCHANGED <<now, loop>>
  BY <1>6 DEF BeginCall, FinishCall, ScheduleJob, DeleteJob, PauseJob, ResumeJob, Clear,
              PushJob, RepushJob, NotifyLoop, Reset, CallUnchanged
<1>7. ASSUME NEW g \in Gens, CancelContext(g) \/ Watch(g) PROVE UNCHANGED <<now, loop>>
  BY <1>7 DEF CancelContext, Watch
<1>8. ASSUME NEW w \in Workers, WorkerStep(w) PROVE UNCHANGED <<now, loop>>
  BY <1>8 DEF WorkerStep, WorkerReturns, WorkerExits, ExecUnchanged
<1>9. CASE UNCHANGED vars BY <1>0, <1>9 DEF vars
<1>10. QED BY <1>0, <1>1, <1>2, <1>3, <1>4, <1>5, <1>6, <1>7, <1>8, <1>9 DEF Next

LEMMA EarlyStep == Base /\ NeverEarly /\ [Next]_vars => NeverEarly'
<1> SUFFICES ASSUME Base, NeverEarly, [Next]_vars,
                    NEW g \in Gens, loop'[g].pc \in {"dispatch", "exec"}
             PROVE  loop'[g].entry.priority <= now'
  BY DEF NeverEarly
<1>0. /\ TypeInv /\ NotBegun /\ now \in Int
      /\ loop[g].pc \in {"dispatch", "exec"} => /\ loop[g].entry.priority \in Int
                                                /\ loop[g].entry.priority <= now
  BY DEF Base, TypeInv, TypeOK, HandsFull, Entry, NeverEarly
<1>1. CASE LoopStep(g) \/ TimerFire(g) BY <1>0, <1>1, ExecStep
<1>2. ASSUME NEW h \in Gens, h # g, LoopStep(h) \/ TimerFire(h)
      PROVE  loop'[g].entry.priority <= now'
  <2>1. loop'[g] = loop[g] BY <1>0, <1>2, LoopStepLocal
  <2>2. now' = now
    BY <1>2 DEF LoopStep, TimerFire, ReadSize, ReadHead, SelectTick, SelectInterrupt,
                SelectDone, FetchJob, ParkSuspended, SkipOutdated, PutBackEarly, TakeDue,
                Unlock, BlockingBegin, BlockingEnd, Spawn, DispatchCancelled, Dispatch,
                LoopUnchanged, ExecUnchanged
  <2>3. QED BY <1>0, <2>1, <2>2
<1>3. CASE \A h \in Gens : ~LoopStep(h) /\ ~TimerFire(h)
  <2>1. loop'[g] = loop[g] /\ now' >= now BY <1>0, <1>3, OtherStep
  <2>2. now' \in Int BY <1>0, TypeStep DEF TypeInv, TypeOK
  <2>3. QED BY <1>0, <2>1, <2>2
<1>4. QED BY <1>1, <1>2, <1>3

\* No job is handed to its execution before its run time.
THEOREM NeverEarlyHolds == Spec => []NeverEarly
<1>1. Init => NeverEarly BY DEF Init, NeverEarly
<1>2. QED BY <1>1, BaseInvariant, EarlyStep, PTL DEF Spec

-----------------------------------------------------------------------------
(* Run times increase.                                                     *)

\* A job's run time is later than those it was executed for; a run-once job
\* that has not taken its run time from its trigger is parked and has never
\* been executed.
Sound(e) ==
    /\ e.priority > lastFired[Key(e)]
    /\ e.trigger \in Once => \/ expired[e.trigger]
                             \/ e.priority = MaxInt64 /\ lastFired[Key(e)] = 0

\* The same of a job that is about to be scheduled.
Fresh(e) ==
    /\ e.priority > 0
    /\ e.trigger \in Once => expired[e.trigger] \/ e.priority = MaxInt64

FiringInv ==
    /\ \A k \in JobKeys : lastFired[k] <= now
    /\ \A e \in queue : Sound(e)
    /\ \A c \in Clients : call[c].pc = "repush" => Sound(call[c].entry)
    /\ \A c \in Clients : call[c].pc = "push" => Fresh(call[c].entry)
    /\ \A g \in Gens : loop[g].pc = "resched" => Sound(loop[g].entry)

\* A trigger that has expired stays so.
LEMMA ConsumeOnce ==
    ASSUME NEW x \in [Triggers -> BOOLEAN], NEW t \in Triggers
    PROVE  /\ \A s \in Once : x[s] => Consume(x, t)[s]
           /\ t \in Once => Consume(x, t)[t]
BY TriggerAssumption DEF Consume, TriggerAssumption

\* The next run time is later, except that of a run-once trigger.
LEMMA NextIsLater ==
    ASSUME NEW t \in Triggers, NEW p \in 0..MaxTime
    PROVE  /\ NextFireTime(t, p) \in Nat /\ NextFireTime(t, p) >= p
           /\ t \notin Once => NextFireTime(t, p) > p
BY TriggerAssumption, SchedulerAssumption
   DEF NextFireTime, TriggerAssumption, SchedulerAssumption

\* An entry stays sound while its key's history and its trigger do.
LEMMA SoundKept ==
    ASSUME NEW e, Sound(e), lastFired'[Key(e)] = lastFired[Key(e)],
           \A s \in Once : expired[s] => expired'[s]
    PROVE  Sound(e)'
BY DEF Sound, Key

\* Steps that fire nothing: it is enough to look at the jobs that are new.
LEMMA FiringKept ==
    ASSUME FiringInv,
           UNCHANGED <<lastFired, now>>,
           \A s \in Once : expired[s] => expired'[s],
           \A e \in queue' : e \in queue \/ Sound(e)',
           \A c \in Clients :
              \/ call'[c] = call[c]
              \/ call'[c].pc \notin {"push", "repush"}
              \/ call'[c].pc = "repush" /\ Sound(call[c].entry)'
              \/ call'[c].pc = "push" /\ Fresh(call[c].entry)',
           \A g \in Gens :
              \/ loop'[g].pc # "resched"
              \/ loop[g].pc = "resched" /\ loop'[g].entry = loop[g].entry
              \/ Sound(loop[g].entry)'
    PROVE  FiringInv'
<1>1. \A e : Sound(e) => Sound(e)' BY SoundKept
<1>2. \A e : Fresh(e) => Fresh(e)' BY DEF Fresh
<1>3. \A k \in JobKeys : lastFired'[k] <= now' BY DEF FiringInv
<1>4. \A e \in queue' : Sound(e)' BY <1>1 DEF FiringInv
<1>5. ASSUME NEW c \in Clients
      PROVE  /\ call'[c].pc = "repush" => Sound(call[c].entry)'
             /\ call'[c].pc = "push" => Fresh(call[c].entry)'
  <2>1. CASE call'[c] = call[c]
    <3>1. ASSUME call[c].pc = "repush" PROVE \A e : e = call[c].entry => Sound(e)'
      BY <1>1, <3>1 DEF FiringInv
    <3>2. ASSUME call[c].pc = "push" PROVE \A e : e = call[c].entry => Fresh(e)'
      BY <1>2, <3>2 DEF FiringInv
    <3>3. QED BY <2>1, <3>1, <3>2 DEF Sound, Fresh, Key
  <2>2. QED BY <2>1
<1>6. ASSUME NEW g \in Gens, loop'[g].pc = "resched" PROVE Sound(loop[g].entry)'
  <2>1. CASE loop[g].pc = "resched" /\ loop'[g].entry = loop[g].entry
    <3>1. \A e : e = loop[g].entry => Sound(e)' BY <1>1, <2>1 DEF FiringInv
    <3>2. QED BY <2>1, <3>1 DEF Sound, Key
  <2>2. QED BY <1>6, <2>1
<1>7. QED BY <1>3, <1>4, <1>5, <1>6 DEF FiringInv

LEMMA CallFiring ==
    ASSUME Base, FiringInv, NEW c \in Clients, BeginCall(c) \/ FinishCall(c)
    PROVE  FiringInv'
<1> USE DEF Goto, CallUnchanged, CallState
<1>0. /\ TypeInv /\ call \in [Clients -> CallState] /\ expired \in [Triggers -> BOOLEAN]
      /\ queue \subseteq Entry /\ lastFired \in [JobKeys -> 0..MaxInt64]
      /\ now \in 1..MaxTime /\ now \in 0..MaxTime
      /\ MaxTime \in Nat /\ MaxInt64 \in Nat /\ MaxTime < MaxInt64
      /\ MaxInt64 \in 0..MaxInt64
  BY SchedulerAssumption DEF SchedulerAssumption, Base, TypeInv, TypeOK
<1>1. UNCHANGED loop /\ \A b \in Clients : b # c => call'[b] = call[b]
  BY <1>0, CallLock
<1>2. \A e \in Entry : /\ Key(e) \in JobKeys /\ e.trigger \in Triggers
                       /\ lastFired[Key(e)] \in Nat /\ lastFired[Key(e)] <= now
  BY <1>0, QueueAssumption DEF Key, Entry, QueueAssumption, FiringInv
<1>3. ASSUME NEW d \in Details, NEW t \in Triggers, ScheduleJob(c, d, t) PROVE FiringInv'
  <2> DEFINE p == FirstRunTime(d, t)
             f == [detail |-> d, trigger |-> t, priority |-> p]
  <2>1. /\ expired' = IF suspended[d] THEN expired ELSE Consume(expired, t)
        /\ call' = [call EXCEPT ![c] = [pc |-> "push", entry |-> f]]
        /\ UNCHANGED <<now, queue, lastFired>>
    BY <1>3 DEF ScheduleJob
  <2>2. p \in Nat /\ p > 0 /\ (suspended[d] => p = MaxInt64)
    BY <1>0, NextFireTimeType, NextIsLater DEF FirstRunTime
  <2> HIDE DEF p
  <2>3. \A s \in Once : expired[s] => expired'[s] BY <1>0, <2>1, ConsumeOnce
  <2>4. f.priority = p /\ f.trigger = t OBVIOUS
  <2>5. t \in Once => expired'[t] \/ p = MaxInt64 BY <1>0, <2>1, <2>2, ConsumeOnce
  <2> HIDE DEF f
  <2>6. call'[c].pc = "push" /\ call'[c].entry = f BY <1>0, <2>1
  <2>7. Fresh(call[c].entry)' BY <2>2, <2>4, <2>5, <2>6 DEF Fresh
  <2>8. QED BY <1>1, <2>1, <2>3, <2>6, <2>7, FiringKept
<1>4. ASSUME NEW k \in JobKeys, DeleteJob(c, k) PROVE FiringInv'
  <2>1. queue' \subseteq queue /\ UNCHANGED <<now, lastFired, expired>> BY <1>4 DEF DeleteJob
  <2>2. call'[c].pc = "notify" BY <1>0, <1>4 DEF DeleteJob
  <2>3. QED BY <1>1, <2>1, <2>2, FiringKept
<1>5. CASE Clear(c)
  <2>1. queue' = {} /\ UNCHANGED <<now, lastFired, expired>> BY <1>5 DEF Clear
  <2>2. call'[c].pc = "notify" BY <1>0, <1>5 DEF Clear
  <2>3. QED BY <1>1, <2>1, <2>2, FiringKept
<1>6. ASSUME NEW k \in JobKeys, PauseJob(c, k) PROVE FiringInv'
  <2>1. PICK e \in queue : /\ queue' = queue \ {e}
                           /\ Goto(c, "repush", [e EXCEPT !.priority = MaxInt64])
    BY <1>6 DEF PauseJob, WithKey
  <2> DEFINE f == [e EXCEPT !.priority = MaxInt64]
  <2>2. UNCHANGED <<now, lastFired, expired>> BY <1>6 DEF PauseJob
  <2>3. /\ e \in Entry /\ Sound(e)
        /\ f.priority = MaxInt64 /\ f.trigger = e.trigger /\ Key(f) = Key(e)
    BY <1>0, <2>1, EntryAt, KeyAt DEF FiringInv
  <2>4. call'[c].pc = "repush" /\ call'[c].entry = f BY <1>0, <2>1
  <2> HIDE DEF f
  <2>5. Sound(f)
    BY <1>0, <1>2, <2>3 DEF Sound
  <2>6. Sound(call[c].entry)' BY <2>2, <2>4, <2>5 DEF Sound, Key
  <2>7. QED BY <1>1, <2>1, <2>2, <2>4, <2>6, FiringKept
<1>7. ASSUME NEW k \in JobKeys, ResumeJob(c, k) PROVE FiringInv'
  <2>1. PICK e \in queue :
          /\ queue' = queue \ {e}
          /\ \/ /\ CanFire(expired, e.trigger)
                /\ expired' = Consume(expired, e.trigger)
                /\ Goto(c, "repush", [e EXCEPT !.priority = NextFireTime(e.trigger, now)])
             \/ UNCHANGED <<expired, call>>
    BY <1>7 DEF ResumeJob, WithKey
  <2>2. UNCHANGED <<now, lastFired>> BY <1>7 DEF ResumeJob
  <2>3. e \in Entry /\ e.trigger \in Triggers /\ Sound(e) BY <1>0, <1>2, <2>1 DEF FiringInv
  <2>4. CASE UNCHANGED <<expired, call>>
    BY <1>1, <2>1, <2>2, <2>4, FiringKept
  <2>5. CASE /\ CanFire(expired, e.trigger)
             /\ expired' = Consume(expired, e.trigger)
             /\ Goto(c, "repush", [e EXCEPT !.priority = NextFireTime(e.trigger, now)])
    <3> DEFINE p == NextFireTime(e.trigger, now)
               f == [e EXCEPT !.priority = p]
    <3>1. p \in 0..MaxInt64 /\ p >= now /\ (e.trigger \notin Once => p > now)
      BY <1>0, <2>3, NextFireTimeType, NextIsLater
    <3>2. call'[c].pc = "repush" /\ call'[c].entry = f BY <1>0, <2>5
    <3> HIDE DEF p
    <3>3. f.priority = p /\ f.trigger = e.trigger /\ Key(f) = Key(e)
      BY <2>3, <3>1, EntryAt, KeyAt
    <3> HIDE DEF f
    <3>4. \A s \in Once : expired[s] => expired'[s] BY <1>0, <2>3, <2>5, ConsumeOnce
    <3>5. e.trigger \in Once => expired'[e.trigger] BY <1>0, <2>3, <2>5, ConsumeOnce
    <3>6. p > lastFired[Key(e)]
      <4>1. CASE e.trigger \in Once
        <5>1. lastFired[Key(e)] = 0 BY <2>3, <2>5, <4>1 DEF CanFire, Sound
        <5>2. QED BY <1>0, <3>1, <5>1
      <4>2. CASE e.trigger \notin Once
        BY <1>0, <1>2, <2>3, <3>1, <4>2
      <4>3. QED BY <4>1, <4>2
    <3>7. Sound(call[c].entry)'
      BY <2>2, <3>2, <3>3, <3>5, <3>6 DEF Sound, Key
    <3>8. QED BY <1>1, <2>1, <2>2, <3>2, <3>4, <3>7, FiringKept
  <2>6. QED BY <2>1, <2>4, <2>5
<1>8. CASE PushJob(c)
  <2> DEFINE f == call[c].entry
  <2>1. call[c].pc = "push" /\ lock = NoOwner /\ UNCHANGED <<now, expired>> BY <1>8 DEF PushJob
  <2>2. f \in Entry /\ Fresh(f) BY <2>1 DEF Base, TypeInv, HandsFull, FiringInv
  <2>3. CASE CanPush(queue, f)
    <3>1. /\ queue' = Push(queue, f) /\ call'[c].pc = "notify"
          /\ lastFired' = [lastFired EXCEPT ![Key(f)] = 0]
      BY <1>0, <1>8, <2>3 DEF PushJob
    <3> HIDE DEF f
    <3>2. /\ \A b \in Clients : call'[b].pc # "repush"
          /\ \A g \in Gens : loop'[g].pc # "resched"
      BY <1>1, <2>1, <3>1, SchedulerAssumption
         DEF Base, LockInv, Holding, SchedulerAssumption
    <3>3. \A k \in JobKeys : lastFired'[k] <= now'
      BY <1>0, <2>1, <3>1 DEF FiringInv
    <3>4. ASSUME NEW e \in queue' PROVE Sound(e)'
      <4>1. CASE e = f
        <5>1. lastFired'[Key(f)] = 0 BY <1>0, <1>2, <2>2, <3>1
        <5>2. QED BY <2>1, <2>2, <4>1, <5>1 DEF Sound, Fresh, Key
      <4>2. CASE e # f
        <5>1. e \in queue /\ Key(e) # Key(f) BY <3>1, <4>2 DEF Push, WithKey
        <5>2. lastFired'[Key(e)] = lastFired[Key(e)] BY <1>0, <1>2, <3>1, <5>1
        <5>3. Sound(e) BY <5>1 DEF FiringInv
        <5>4. QED BY <2>1, <5>2, <5>3, SoundKept
      <4>3. QED BY <4>1, <4>2
    <3>5. ASSUME NEW b \in Clients, call'[b].pc = "push" PROVE Fresh(call[b].entry)'
      <4>1. call'[b] = call[b] BY <1>1, <3>1, <3>5
      <4>2. Fresh(call[b].entry) BY <3>5, <4>1 DEF FiringInv
      <4>3. QED BY <2>1, <4>1, <4>2 DEF Fresh
    <3>6. QED BY <3>2, <3>3, <3>4, <3>5 DEF FiringInv
  <2>4. CASE ~CanPush(queue, f)
    <3>1. UNCHANGED <<queue, lastFired>> /\ call'[c].pc = "idle"
      BY <1>0, <1>8, <2>4 DEF PushJob
    <3>2. QED BY <1>1, <2>1, <3>1, FiringKept
  <2>5. QED BY <2>3, <2>4
<1>9. CASE RepushJob(c)
  <2>1. PICK f : f = call[c].entry OBVIOUS
  <2>2. /\ call[c].pc = "repush" /\ UNCHANGED <<now, expired, lastFired>>
        /\ queue' = Push(queue, f) \/ queue' = queue
    BY <1>9, <2>1 DEF RepushJob
  <2>3. call'[c].pc \in {"notify", "idle"} BY <1>0, <1>9 DEF RepushJob
  <2>4. Sound(f) BY <2>1, <2>2 DEF FiringInv
  <2>5. Sound(f)' BY <2>2, <2>4, SoundKept
  <2>6. \A e \in queue' : e \in queue \/ Sound(e)' BY <2>2, <2>5 DEF Push
  <2>7. QED BY <1>1, <2>2, <2>3, <2>6, FiringKept
<1>10. CASE NotifyLoop(c) \/ Reset(c)
  <2>1. UNCHANGED <<now, queue, expired, lastFired>> BY <1>10 DEF NotifyLoop, Reset, jobVars
  <2>2. call'[c].pc \in {"reset", "idle"} BY <1>0, <1>10 DEF NotifyLoop, Reset
  <2>3. QED BY <1>1, <2>1, <2>2, FiringKept
<1>11. QED BY <1>3, <1>4, <1>5, <1>6, <1>7, <1>8, <1>9, <1>10 DEF BeginCall, FinishCall

\* Under a key that the queue does not have, PutBack adds the job.
LEMMA PutBackAdds ==
    ASSUME NEW e \in Entry, Key(e) \notin Keys(queue), NEW p \in 0..MaxInt64, PutBack(e, p)
    PROVE  queue' = queue \cup {[e EXCEPT !.priority = p]}
<1> DEFINE f == [e EXCEPT !.priority = p]
<1>1. Key(f) = Key(e) BY KeyAt
<1> HIDE DEF f
<1>2. CanPush(queue, f) BY <1>1 DEF CanPush
<1>3. WithKey(queue, Key(f)) = {} BY <1>1 DEF WithKey, Keys
<1>4. queue' = Push(queue, f) BY <1>2 DEF PutBack, f
<1>5. queue' = queue \cup {f} BY <1>3, <1>4 DEF Push
<1>6. QED BY <1>5 DEF f

\* Reschedule adds the job with a later run time, or it drops a run-once job
\* whose trigger has expired.
LEMMA RescheduleAdds ==
    ASSUME expired \in [Triggers -> BOOLEAN],
           NEW e \in Entry, Key(e) \notin Keys(queue), NEW p \in 0..MaxTime, Reschedule(e, p)
    PROVE  /\ \A s \in Once : expired[s] => expired'[s]
           /\ \/ queue' = queue
              \/ \E q \in 0..MaxInt64 :
                    /\ CanFire(expired, e.trigger)
                    /\ q >= p /\ (e.trigger \notin Once => q > p)
                    /\ e.trigger \in Once => expired'[e.trigger]
                    /\ queue' = queue \cup {[e EXCEPT !.priority = q]}
<1> DEFINE q == NextFireTime(e.trigger, p)
<1>0. e.trigger \in Triggers BY DEF Entry
<1>1. CASE CanFire(expired, e.trigger)
  <2>1. PutBack(e, q) /\ expired' = Consume(expired, e.trigger) BY <1>1 DEF Reschedule
  <2>2. q \in 0..MaxInt64 /\ q >= p /\ (e.trigger \notin Once => q > p)
    BY <1>0, NextFireTimeType, NextIsLater
  <2>3. /\ \A s \in Once : expired[s] => expired'[s]
        /\ e.trigger \in Once => expired'[e.trigger]
    BY <1>0, <2>1, ConsumeOnce
  <2> HIDE DEF q
  <2>4. queue' = queue \cup {[e EXCEPT !.priority = q]} BY <2>1, <2>2, PutBackAdds
  <2>5. QED BY <1>1, <2>2, <2>3, <2>4
<1>2. CASE ~CanFire(expired, e.trigger)
  BY <1>2 DEF Reschedule
<1>3. QED BY <1>1, <1>2

LEMMA JudgeFiring ==
    ASSUME Base, KeysInv, FiringInv, NEW g \in Gens, Judge(g)
    PROVE  FiringInv'
<1>0. /\ TypeInv /\ expired \in [Triggers -> BOOLEAN]
      /\ queue \subseteq Entry /\ lastFired \in [JobKeys -> 0..MaxInt64]
      /\ now \in 1..MaxTime /\ now \in 0..MaxTime
      /\ MaxTime \in Nat /\ MaxInt64 \in Nat /\ MaxTime < MaxInt64
      /\ MaxInt64 \in 0..MaxInt64 /\ OutdatedThreshold \in Nat
  BY SchedulerAssumption DEF SchedulerAssumption, Base, TypeInv, TypeOK
<1>1. /\ loop[g].pc = "resched" /\ UNCHANGED call
      /\ loop'[g].pc \in {"size", "dispatch"}
      /\ \A h \in Gens : h # g => loop'[h] = loop[h]
  BY <1>0, JudgeEffect
<1>2. /\ \A b \in Clients : call'[b].pc # "repush"
      /\ \A h \in Gens : loop'[h].pc # "resched"
  BY <1>1, SchedulerAssumption DEF Base, LockInv, Holding, SchedulerAssumption
<1>3. PICK e \in Entry : e = loop[g].entry
  BY <1>0, <1>1 DEF TypeInv, HandsFull
<1>4. /\ Sound(e) /\ Key(e) \notin Keys(queue)
      /\ Key(e) \in JobKeys /\ e.trigger \in Triggers /\ e.priority \in 0..MaxInt64
      /\ lastFired[Key(e)] \in Nat /\ lastFired[Key(e)] <= now
  BY <1>0, <1>1, <1>3, QueueAssumption DEF FiringInv, KeysInv, Entry, Key, QueueAssumption
<1>5. now' = now
  BY DEF Judge, ParkSuspended, SkipOutdated, PutBackEarly, TakeDue, Unlock, LoopUnchanged
<1>6. ASSUME UNCHANGED lastFired, \A s \in Once : expired[s] => expired'[s],
             \A f \in queue' : f \in queue \/ Sound(f)'
      PROVE  FiringInv'
  BY <1>1, <1>2, <1>5, <1>6, FiringKept
\* The job with another run time.
<1>7. ASSUME NEW p \in 0..MaxInt64, NEW f, f = [e EXCEPT !.priority = p]
      PROVE  f.priority = p /\ f.trigger = e.trigger /\ Key(f) = Key(e)
  BY <1>7, EntryAt, KeyAt
<1>8. CASE ParkSuspended(g)
  <2>1. UNCHANGED <<lastFired, expired>> /\ PutBack(e, MaxInt64) BY <1>3, <1>8 DEF ParkSuspended
  <2>2. PICK f : f = [e EXCEPT !.priority = MaxInt64] OBVIOUS
  <2>3. queue' = queue \cup {f} BY <1>0, <1>4, <2>1, <2>2, PutBackAdds
  <2>4. f.priority = MaxInt64 /\ f.trigger = e.trigger /\ Key(f) = Key(e)
    BY <1>0, <1>7, <2>2
  <2>5. Sound(f)' BY <1>0, <1>4, <2>1, <2>4 DEF Sound, Key
  <2>6. QED BY <1>6, <2>1, <2>3, <2>5
<1>9. CASE SkipOutdated(g)
  <2>1. UNCHANGED lastFired /\ Reschedule(e, now) /\ IsOutdated(e)
    BY <1>3, <1>9 DEF SkipOutdated
  <2>2. e.priority # MaxInt64 BY <1>0, <1>4, <2>1 DEF IsOutdated
  <2>3. /\ \A s \in Once : expired[s] => expired'[s]
        /\ \/ queue' = queue
           \/ \E q \in 0..MaxInt64 :
                 /\ CanFire(expired, e.trigger)
                 /\ q >= now /\ (e.trigger \notin Once => q > now)
                 /\ e.trigger \in Once => expired'[e.trigger]
                 /\ queue' = queue \cup {[e EXCEPT !.priority = q]}
    BY <1>0, <1>4, <2>1, RescheduleAdds
  <2>4. CASE queue' = queue BY <1>6, <2>1, <2>3, <2>4
  <2>5. ASSUME NEW q \in 0..MaxInt64, CanFire(expired, e.trigger),
               e.trigger \notin Once => q > now, NEW f, f = [e EXCEPT !.priority = q],
               queue' = queue \cup {f}
        PROVE  FiringInv'
    <3>1. e.trigger \notin Once BY <1>4, <2>2, <2>5 DEF Sound, CanFire
    <3>2. f.priority = q /\ f.trigger = e.trigger /\ Key(f) = Key(e) BY <1>7, <2>5
    <3>3. q > lastFired[Key(e)] BY <1>0, <1>4, <2>5, <3>1
    <3>4. Sound(f)' BY <2>1, <3>1, <3>2, <3>3 DEF Sound, Key
    <3>5. QED BY <1>6, <2>1, <2>3, <2>5, <3>4
  <2>6. QED BY <2>3, <2>4, <2>5
<1>10. CASE PutBackEarly(g)
  <2>1. UNCHANGED <<lastFired, expired>> /\ PutBack(e, e.priority)
    BY <1>3, <1>10 DEF PutBackEarly
  <2>2. PICK f : f = [e EXCEPT !.priority = e.priority] OBVIOUS
  <2>3. queue' = queue \cup {f} BY <1>4, <2>1, <2>2, PutBackAdds
  <2>4. f.priority = e.priority /\ f.trigger = e.trigger /\ Key(f) = Key(e)
    BY <1>4, <1>7, <2>2
  <2>5. Sound(f)' BY <1>4, <2>1, <2>4 DEF Sound, Key
  <2>6. QED BY <1>6, <2>1, <2>3, <2>5
<1>11. CASE TakeDue(g)
  <2>1. /\ Reschedule(e, e.priority) /\ IsDue(e)
        /\ lastFired' = [lastFired EXCEPT ![Key(e)] = e.priority]
    BY <1>3, <1>11 DEF TakeDue
  <2>2. e.priority <= now /\ e.priority \in 0..MaxTime /\ e.priority # MaxInt64
    BY <1>0, <1>4, <2>1 DEF IsDue, IsEarly
  <2>3. /\ \A s \in Once : expired[s] => expired'[s]
        /\ \/ queue' = queue
           \/ \E q \in 0..MaxInt64 :
                 /\ CanFire(expired, e.trigger)
                 /\ q >= e.priority /\ (e.trigger \notin Once => q > e.priority)
                 /\ e.trigger \in Once => expired'[e.trigger]
                 /\ queue' = queue \cup {[e EXCEPT !.priority = q]}
    BY <1>0, <1>4, <2>1, <2>2, RescheduleAdds
  <2>4. \A k \in JobKeys : lastFired'[k] <= now'
    BY <1>0, <1>4, <1>5, <2>1, <2>2 DEF FiringInv
  <2>5. ASSUME NEW f \in queue PROVE Sound(f)'
    <3>1. Key(f) # Key(e) /\ Key(f) \in JobKeys /\ Sound(f)
      BY <1>0, <1>4, QueueAssumption DEF Keys, Key, Entry, QueueAssumption, FiringInv
    <3>2. lastFired'[Key(f)] = lastFired[Key(f)] BY <1>0, <2>1, <3>1
    <3>3. QED BY <2>3, <3>1, <3>2, SoundKept
  <2>6. ASSUME NEW f \in queue', f \notin queue PROVE Sound(f)'
    <3>1. PICK q \in 0..MaxInt64 :
            /\ CanFire(expired, e.trigger) /\ (e.trigger \notin Once => q > e.priority)
            /\ f = [e EXCEPT !.priority = q]
      BY <2>3, <2>6
    <3>2. e.trigger \notin Once BY <1>4, <2>2, <3>1 DEF Sound, CanFire
    <3>3. f.priority = q /\ f.trigger = e.trigger /\ Key(f) = Key(e) BY <1>7, <3>1
    <3>4. lastFired'[Key(e)] = e.priority BY <1>0, <1>4, <2>1
    <3>5. QED BY <3>1, <3>2, <3>3, <3>4 DEF Sound, Key
  <2>7. ASSUME NEW b \in Clients, call'[b].pc = "push" PROVE Fresh(call[b].entry)'
    <3>1. call' = call /\ Fresh(call[b].entry) BY <1>1, <2>7 DEF FiringInv
    <3>2. QED BY <2>3, <3>1 DEF Fresh
  <2>8. QED BY <1>2, <2>4, <2>5, <2>6, <2>7 DEF FiringInv
<1>12. QED BY <1>8, <1>9, <1>10, <1>11 DEF Judge

LEMMA FiringStep == Base /\ KeysInv /\ FiringInv /\ [Next]_vars => FiringInv'
<1> SUFFICES ASSUME Base, KeysInv, FiringInv, [Next]_vars PROVE FiringInv' OBVIOUS
<1>0. TypeInv /\ NotBegun BY DEF Base
<1>1. CASE Quiet
  <2>1. /\ UNCHANGED <<expired, queue, lastFired, call>>
        /\ \A g \in Gens : loop'[g].pc = "resched" => /\ loop[g].pc = "resched"
                                                      /\ loop'[g].entry = loop[g].entry
    BY <1>1 DEF Quiet, jobVars
  <2>2. now' >= now /\ now \in Int /\ now' \in Int
    <3>1. now' = now \/ now' = now + 1
      BY DEF Next, Tick, Start, Stop, JobReturns, ReceiveMisfired, BeginCall, FinishCall,
             ScheduleJob, DeleteJob, PauseJob, ResumeJob, Clear, PushJob, RepushJob,
             NotifyLoop, Reset, CancelContext, Watch, WorkerStep, WorkerReturns, WorkerExits,
             LoopStep, TimerFire, ReadSize, ReadHead, SelectTick, SelectInterrupt,
             SelectDone, FetchJob, ParkSuspended, SkipOutdated, PutBackEarly, TakeDue,
             Unlock, BlockingBegin, BlockingEnd, Spawn, DispatchCancelled, Dispatch,
             LoopUnchanged, ExecUnchanged, CallUnchanged, vars
    <3>2. now \in Int BY <1>0 DEF TypeInv, TypeOK
    <3>3. QED BY <3>1, <3>2
  <2>3. \A k \in JobKeys : lastFired[k] \in Int
    BY <1>0 DEF TypeInv, TypeOK
  <2>4. \A k \in JobKeys : lastFired'[k] <= now'
    BY <2>1, <2>2, <2>3 DEF FiringInv
  <2>5. \A e : Sound(e) => Sound(e)' BY <2>1, SoundKept
  <2>6. \A e \in queue' : Sound(e)' BY <2>1, <2>5 DEF FiringInv
  <2>7. ASSUME NEW c \in Clients
        PROVE  /\ call'[c].pc = "repush" => Sound(call[c].entry)'
               /\ call'[c].pc = "push" => Fresh(call[c].entry)'
    BY <2>1 DEF FiringInv, Sound, Fresh, Key
  <2>8. ASSUME NEW g \in Gens, loop'[g].pc = "resched" PROVE Sound(loop[g].entry)'
    BY <2>1, <2>8 DEF FiringInv, Sound, Key
  <2>9. QED BY <2>4, <2>6, <2>7, <2>8 DEF FiringInv
<1>2. ASSUME NEW c \in Clients, BeginCall(c) \/ FinishCall(c) PROVE FiringInv'
  BY <1>2, CallFiring
<1>3. ASSUME NEW g \in Gens, FetchJob(g) PROVE FiringInv'
  <2>1. /\ UNCHANGED <<call, expired, lastFired>>
        /\ \A h \in Gens : h # g => loop'[h] = loop[h]
        /\ \/ queue' = queue /\ loop'[g].pc = "size"
           \/ \E e \in queue : queue' = queue \ {e} /\ loop'[g].entry = e
    BY <1>0, <1>3, FetchEffect
  <2>2. now' = now BY <1>3 DEF FetchJob, LoopUnchanged
  <2>3. \A e : Sound(e) => Sound(e)' BY <2>1, SoundKept
  <2>4. loop'[g].pc = "size" \/ \E e \in queue : loop'[g].entry = e BY <2>1
  <2>5. loop'[g].pc = "size" \/ Sound(loop[g].entry)'
    BY <2>3, <2>4 DEF FiringInv, Sound, Key
  <2>6. QED BY <2>1, <2>2, <2>5, FiringKept
<1>4. ASSUME NEW g \in Gens, Judge(g) PROVE FiringInv'
  BY <1>4, JudgeFiring
<1>5. QED BY <1>0, <1>1, <1>2, <1>3, <1>4, QuietOrNot

\* No run time comes again: between two executions of a job lies a call of its
\* trigger, whoever pauses, resumes, stops and starts in between.
THEOREM FireTimesIncreaseHolds == Spec => []FireTimesIncrease
<1>1. Init => FiringInv /\ KeysInv
  BY SchedulerAssumption DEF Init, FiringInv, KeysInv, Unique, SchedulerAssumption
<1>2. FiringInv => FireTimesIncrease BY DEF FiringInv, FireTimesIncrease, Sound, InHand
<1>3. QED BY <1>1, <1>2, BaseInvariant, KeysStep, FiringStep, PTL DEF Spec

-----------------------------------------------------------------------------
(* Jobs leave only on request.                                             *)

\* The reasons for which a key may leave the scheduler in one step.
Requested == \E c \in Clients : call[c].pc = "idle" /\ call'[c].pc = "notify"
HasExpired(k) ==
    \E e \in queue \cup InHand : Key(e) = k /\ e.trigger \in Once /\ expired[e.trigger]

\* A key is present in the queue, in the hands of a call or in those of a loop.
LEMMA PresentIs ==
    /\ \A k : k \in Present <=>
          \/ k \in Keys(queue)
          \/ \E c \in Clients : call[c].pc = "repush" /\ Key(call[c].entry) = k
          \/ \E g \in Gens : loop[g].pc = "resched" /\ Key(loop[g].entry) = k
    /\ \A k : k \in Present' <=>
          \/ k \in Keys(queue')
          \/ \E c \in Clients : call'[c].pc = "repush" /\ Key(call'[c].entry) = k
          \/ \E g \in Gens : loop'[g].pc = "resched" /\ Key(loop'[g].entry) = k
BY DEF Present, InHand, Keys, Key

\* Push loses no key, and adds that of its entry.
LEMMA PushKeys ==
    ASSUME NEW q, NEW e
    PROVE  Keys(Push(q, e)) = Keys(q) \cup {Key(e)}
BY DEF Keys, Push, WithKey

\* Without one entry a queue has all its other keys.
LEMMA RemoveKeys ==
    ASSUME NEW q, NEW e
    PROVE  Keys(q) \subseteq Keys(q \ {e}) \cup {Key(e)}
BY DEF Keys

\* A step that keeps the keys of the queue and every job in hand keeps all
\* that is present.
LEMMA PresentKept ==
    ASSUME Keys(queue) \subseteq Keys(queue'),
           \A c \in Clients : \/ call[c].pc # "repush"
                              \/ call'[c] = call[c]
                              \/ Key(call[c].entry) \in Keys(queue'),
           \A g \in Gens : \/ loop[g].pc # "resched"
                           \/ loop'[g].pc = "resched" /\ loop'[g].entry = loop[g].entry
                           \/ Key(loop[g].entry) \in Keys(queue')
    PROVE  Present \subseteq Present'
<1> SUFFICES ASSUME NEW k \in Present PROVE k \in Present' OBVIOUS
<1>1. CASE k \in Keys(queue) BY <1>1, PresentIs
<1>2. ASSUME NEW c \in Clients, call[c].pc = "repush", Key(call[c].entry) = k
      PROVE  k \in Present'
  <2>1. CASE call'[c] = call[c]
    <3>1. call'[c].pc = "repush" /\ Key(call'[c].entry) = k BY <1>2, <2>1
    <3>2. QED BY <3>1, PresentIs
  <2>2. CASE k \in Keys(queue') BY <2>2, PresentIs
  <2>3. QED BY <1>2, <2>1, <2>2
<1>3. ASSUME NEW g \in Gens, loop[g].pc = "resched", Key(loop[g].entry) = k
      PROVE  k \in Present'
  <2>1. CASE loop'[g].pc = "resched" /\ loop'[g].entry = loop[g].entry
    <3>1. Key(loop'[g].entry) = k BY <1>3, <2>1
    <3>2. QED BY <2>1, <3>1, PresentIs
  <2>2. CASE k \in Keys(queue') BY <2>2, PresentIs
  <2>3. QED BY <1>3, <2>1, <2>2
<1>4. QED BY <1>1, <1>2, <1>3, PresentIs

\* Reschedule keeps the job's key, or its trigger has expired.
LEMMA RescheduleKeeps ==
    ASSUME NEW e \in Entry, Key(e) \notin Keys(queue), NEW p \in 0..MaxTime, Reschedule(e, p)
    PROVE  /\ Keys(queue) \subseteq Keys(queue')
           /\ \/ Key(e) \in Keys(queue')
              \/ e.trigger \in Once /\ expired[e.trigger]
<1>1. CASE CanFire(expired, e.trigger)
  <2> DEFINE q == NextFireTime(e.trigger, p)
  <2>1. q \in 0..MaxInt64 BY NextFireTimeType DEF Entry
  <2>2. PutBack(e, q) BY <1>1 DEF Reschedule
  <2> HIDE DEF q
  <2>3. PICK f : f = [e EXCEPT !.priority = q] OBVIOUS
  <2>4. queue' = queue \cup {f} /\ Key(f) = Key(e) BY <2>1, <2>2, <2>3, PutBackAdds, KeyAt
  <2>5. QED BY <2>4 DEF Keys
<1>2. CASE ~CanFire(expired, e.trigger)
  BY <1>2 DEF Reschedule, CanFire
<1>3. QED BY <1>1, <1>2

LEMMA CallPresence ==
    ASSUME Base, KeysInv, NEW c \in Clients, BeginCall(c) \/ FinishCall(c),
           NEW k \in Present, k \notin Present'
    PROVE  Requested \/ HasExpired(k)
<1> USE DEF Goto, CallUnchanged, CallState, Idle
<1>0. /\ call \in [Clients -> CallState] /\ queue \subseteq Entry
      /\ UNCHANGED loop /\ \A b \in Clients : b # c => call'[b] = call[b]
      /\ MaxInt64 \in 0..MaxInt64 /\ now \in 0..MaxTime
  BY CallLock, SchedulerAssumption DEF Base, TypeInv, TypeOK, SchedulerAssumption
<1>1. ~(Present \subseteq Present') OBVIOUS
<1>2. ASSUME Keys(queue) \subseteq Keys(queue'),
             \/ call[c].pc # "repush"
             \/ Key(call[c].entry) \in Keys(queue')
      PROVE  FALSE
  BY <1>0, <1>1, <1>2, PresentKept
\* An entry taken out of the queue, to be pushed back with another run time.
<1>3. ASSUME lock = NoOwner, NEW e \in queue, queue' = queue \ {e}, NEW p \in 0..MaxInt64,
             Goto(c, "repush", [e EXCEPT !.priority = p])
      PROVE  FALSE
  <2>1. PICK f : f = [e EXCEPT !.priority = p] OBVIOUS
  <2>2. Key(f) = Key(e) BY <1>0, <2>1, KeyAt
  <2>3. call'[c].pc = "repush" /\ call'[c].entry = f BY <1>0, <1>3, <2>1
  <2>4. Key(e) \in Present' BY <2>2, <2>3, PresentIs
  <2>5. Keys(queue) \subseteq Keys(queue') \cup {Key(e)} BY <1>3, RemoveKeys
  <2>6. InHand = {} BY <1>3, HandsOfHolder DEF Base
  <2>7. k \in Keys(queue) BY <2>6 DEF Present
  <2>8. QED BY <2>4, <2>5, <2>7, PresentIs
<1>4. ASSUME NEW d \in Details, NEW t \in Triggers, ScheduleJob(c, d, t) PROVE FALSE
  BY <1>2, <1>4 DEF ScheduleJob
<1>5. ASSUME \/ \E j \in JobKeys : DeleteJob(c, j)
             \/ Clear(c)
      PROVE  Requested
  BY <1>0, <1>5 DEF DeleteJob, Clear, Requested
<1>6. ASSUME NEW j \in JobKeys, PauseJob(c, j) PROVE FALSE
  BY <1>0, <1>3, <1>6 DEF PauseJob, WithKey
<1>7. ASSUME NEW j \in JobKeys, ResumeJob(c, j) PROVE HasExpired(k)
  <2>1. PICK e \in queue :
          /\ queue' = queue \ {e}
          /\ \/ CanFire(expired, e.trigger)
                /\ Goto(c, "repush", [e EXCEPT !.priority = NextFireTime(e.trigger, now)])
             \/ ~CanFire(expired, e.trigger) /\ UNCHANGED call
    BY <1>7 DEF ResumeJob, WithKey
  <2>2. lock = NoOwner BY <1>7 DEF ResumeJob
  <2>3. NextFireTime(e.trigger, now) \in 0..MaxInt64
    BY <1>0, NextFireTimeType DEF Entry
  <2>4. ~CanFire(expired, e.trigger) BY <1>3, <2>1, <2>2, <2>3
  <2>5. k \in Keys(queue) BY <2>2, HandsOfHolder DEF Base, Present
  <2>6. k \notin Keys(queue') BY PresentIs
  <2>7. k = Key(e) BY <2>1, <2>5, <2>6, RemoveKeys
  <2>8. QED BY <2>4, <2>7 DEF HasExpired, CanFire
<1>8. CASE PushJob(c)
  <2>1. queue' = queue \/ queue' = Push(queue, call[c].entry) BY <1>8 DEF PushJob
  <2>2. Keys(queue) \subseteq Keys(queue') BY <2>1, PushKeys
  <2>3. QED BY <1>2, <1>8, <2>2 DEF PushJob
<1>9. CASE RepushJob(c)
  <2>1. CanPush(queue, call[c].entry) BY <1>9 DEF RepushJob, KeysInv, CanPush
  <2>2. queue' = Push(queue, call[c].entry) BY <1>9, <2>1 DEF RepushJob
  <2>3. QED BY <1>2, <2>2, PushKeys
<1>10. CASE NotifyLoop(c) \/ Reset(c)
  BY <1>2, <1>10 DEF NotifyLoop, Reset, jobVars
<1>11. QED BY <1>4, <1>5, <1>6, <1>7, <1>8, <1>9, <1>10 DEF BeginCall, FinishCall

LEMMA PresenceStep ==
    ASSUME Base, KeysInv, [Next]_vars, NEW k \in Present, k \notin Present'
    PROVE  Requested \/ HasExpired(k)
<1>0. /\ TypeInv /\ NotBegun
      /\ Clients \cap Gens = {} /\ NoOwner \notin Clients \cup Gens
  BY SchedulerAssumption DEF SchedulerAssumption, Base
<1>1. ~(Present \subseteq Present') OBVIOUS
<1>2. CASE Quiet
  BY <1>1, <1>2, PresentKept DEF Quiet, jobVars
<1>3. ASSUME NEW c \in Clients, BeginCall(c) \/ FinishCall(c)
      PROVE  Requested \/ HasExpired(k)
  BY <1>3, CallPresence
<1>4. ASSUME NEW g \in Gens, FetchJob(g) PROVE FALSE
  <2>1. CASE queue' = queue /\ loop'[g].pc = "size"
    <3>1. lock = NoOwner BY <1>4 DEF FetchJob
    <3>2. InHand = {} BY <3>1, HandsOfHolder DEF Base
    <3>3. QED BY <2>1, <3>2, PresentIs DEF Present
  <2>2. ASSUME NEW e \in queue, queue' = queue \ {e}, loop'[g].pc = "resched",
               loop'[g].entry = e
        PROVE  FALSE
    <3>1. InHand = {} BY <1>4, HandsOfHolder DEF Base, FetchJob
    <3>2. k \in Keys(queue) BY <3>1 DEF Present
    <3>3. Key(loop'[g].entry) = Key(e) BY <2>2
    <3>4. Key(e) \in Present' BY <2>2, <3>3, PresentIs
    <3>5. QED BY <2>2, <3>2, <3>4, RemoveKeys, PresentIs
  <2>3. QED BY <1>0, <1>4, <2>1, <2>2, FetchEffect
<1>5. ASSUME NEW g \in Gens, Judge(g) PROVE HasExpired(k)
  <2>1. /\ loop[g].pc = "resched" /\ UNCHANGED call
        /\ \A h \in Gens : h # g => loop'[h] = loop[h]
    BY <1>0, <1>5, JudgeEffect
  <2>2. PICK e \in Entry : e = loop[g].entry BY <1>0, <2>1 DEF TypeInv, HandsFull
  <2>3. /\ Key(e) \notin Keys(queue) /\ e.priority \in 0..MaxInt64
        /\ now \in 0..MaxTime /\ MaxInt64 \in 0..MaxInt64 /\ MaxTime \in Nat /\ now \in Nat
    BY <1>0, <2>1, <2>2, SchedulerAssumption
       DEF KeysInv, Entry, TypeInv, TypeOK, SchedulerAssumption
  <2>4. InHand = {e}
    BY <2>1, <2>2, HandsOfHolder DEF Base, LockInv
  <2>5. ASSUME Keys(queue) \subseteq Keys(queue'), Key(e) \in Keys(queue') PROVE FALSE
    BY <1>1, <2>1, <2>2, <2>5, PresentKept
  <2>6. ASSUME NEW p \in 0..MaxInt64, PutBack(e, p) PROVE FALSE
    <3>1. PICK f : f = [e EXCEPT !.priority = p] OBVIOUS
    <3>2. queue' = queue \cup {f} /\ Key(f) = Key(e) BY <2>3, <2>6, <3>1, PutBackAdds, KeyAt
    <3>3. QED BY <2>5, <3>2 DEF Keys
  <2>7. ASSUME NEW p \in 0..MaxTime, Reschedule(e, p) PROVE HasExpired(k)
    <3>1. /\ Keys(queue) \subseteq Keys(queue')
          /\ e.trigger \in Once /\ expired[e.trigger]
      BY <2>3, <2>5, <2>7, RescheduleKeeps
    <3>2. k = Key(e) BY <2>4, <3>1, PresentIs DEF Present
    <3>3. QED BY <2>4, <3>1, <3>2 DEF HasExpired
  <2>8. CASE ParkSuspended(g) BY <2>2, <2>3, <2>6, <2>8 DEF ParkSuspended
  <2>9. CASE SkipOutdated(g) BY <2>2, <2>3, <2>7, <2>9 DEF SkipOutdated
  <2>10. CASE PutBackEarly(g) BY <2>2, <2>3, <2>6, <2>10 DEF PutBackEarly
  <2>11. CASE TakeDue(g)
    <3>1. Reschedule(e, e.priority) /\ IsDue(e) BY <2>2, <2>11 DEF TakeDue
    <3>2. e.priority \in 0..MaxTime BY <2>3, <3>1 DEF IsDue, IsEarly
    <3>3. QED BY <2>7, <3>1, <3>2
  <2>12. QED BY <1>5, <2>8, <2>9, <2>10, <2>11 DEF Judge
<1>6. QED BY <1>0, <1>2, <1>3, <1>4, <1>5, QuietOrNot

\* No job is lost: whatever calls, loops and restarts do at the same time, a
\* key that was present is present after any step that does not delete it,
\* clear the queue or find its RunOnceTrigger expired.
THEOREM JobsLeaveOnlyOnRequestHolds == Spec => JobsLeaveOnlyOnRequest
<1>1. Init => KeysInv BY DEF Init, KeysInv, Unique
<1>2. Base /\ KeysInv /\ [Next]_vars
        => [\A k \in Present \ Present' :
              \/ \E c \in Clients : call[c].pc = "idle" /\ call'[c].pc = "notify"
              \/ \E e \in queue \cup InHand :
                    Key(e) = k /\ e.trigger \in Once /\ expired[e.trigger]]_vars
  BY PresenceStep DEF Requested, HasExpired
<1>3. QED BY <1>1, <1>2, BaseInvariant, KeysStep, PTL DEF Spec, JobsLeaveOnlyOnRequest

-----------------------------------------------------------------------------
(* Parked exactly if suspended.                                            *)

\* opts.Suspended of a job's JobDetail and its run time say the same.
Parked(e) == suspended[e.detail] <=> e.priority = MaxInt64

\* ParkedIffSuspended in the middle of a call too, for every job that a call
\* or a loop holds.
ParkInv ==
    /\ \A e \in queue : Parked(e)
    /\ \A c \in Clients : call[c].pc \in {"push", "repush"} => Parked(call[c].entry)
    /\ \A g \in Gens : loop[g].pc = "resched" => Parked(loop[g].entry)

\* Steps that leave the flags alone: it is enough to look at the jobs that
\* are new.
LEMMA ParkKept ==
    ASSUME ParkInv,
           UNCHANGED suspended,
           \A e \in queue' : e \in queue \/ Parked(e),
           \A c \in Clients :
              \/ call'[c] = call[c]
              \/ call'[c].pc \notin {"push", "repush"}
              \/ Parked(call'[c].entry),
           \A g \in Gens :
              \/ loop'[g].pc # "resched"
              \/ loop[g].pc = "resched" /\ loop'[g].entry = loop[g].entry
              \/ Parked(loop'[g].entry)
    PROVE  ParkInv'
<1>1. \A e \in queue' : Parked(e)' BY DEF ParkInv, Parked
<1>2. ASSUME NEW c \in Clients, call'[c].pc \in {"push", "repush"}
      PROVE  Parked(call[c].entry)'
  BY <1>2 DEF ParkInv, Parked
<1>3. ASSUME NEW g \in Gens, loop'[g].pc = "resched" PROVE Parked(loop[g].entry)'
  BY <1>3 DEF ParkInv, Parked
<1>4. QED BY <1>1, <1>2, <1>3 DEF ParkInv

\* A new flag concerns one JobDetail: the other jobs of the queue have other
\* keys, and nobody else has a job in hand.
LEMMA FlagChange ==
    ASSUME Base, KeysInv, ParkInv, lock = NoOwner, UNCHANGED loop,
           NEW c \in Clients, \A b \in Clients : b = c, call[c].pc = "idle",
           NEW e \in queue, queue' = queue \ {e},
           NEW b \in BOOLEAN, suspended' = [suspended EXCEPT ![e.detail] = b],
           call'[c].pc \notin {"push", "repush"} \/ Parked(call[c].entry)'
    PROVE  ParkInv'
<1>1. queue \subseteq Entry /\ suspended \in [Details -> BOOLEAN]
  BY DEF Base, TypeInv, TypeOK
<1>2. ASSUME NEW f \in queue' PROVE Parked(f)'
  <2>1. Key(f) # Key(e) /\ f \in queue BY <1>2 DEF KeysInv, Unique
  <2>2. f.detail # e.detail BY <2>1 DEF Key
  <2>3. suspended'[f.detail] = suspended[f.detail] BY <1>1, <2>1, <2>2 DEF Entry
  <2>4. QED BY <2>1, <2>3 DEF ParkInv, Parked
<1>3. \A g \in Gens : loop'[g].pc # "resched"
  BY SchedulerAssumption DEF Base, LockInv, SchedulerAssumption
<1>4. QED BY <1>2, <1>3 DEF ParkInv

LEMMA CallPark ==
    ASSUME Base, KeysInv, ParkInv, NEW c \in Clients, \A b \in Clients : b = c,
           BeginCall(c) \/ FinishCall(c)
    PROVE  ParkInv'
<1> USE DEF Goto, CallUnchanged, CallState, Idle
<1>0. /\ call \in [Clients -> CallState] /\ queue \subseteq Entry
      /\ suspended \in [Details -> BOOLEAN]
      /\ UNCHANGED loop
      /\ MaxInt64 \in 0..MaxInt64 /\ now \in 0..MaxTime
  BY CallLock, SchedulerAssumption DEF Base, TypeInv, TypeOK, SchedulerAssumption
<1>1. ASSUME NEW d \in Details, NEW t \in Triggers, ScheduleJob(c, d, t) PROVE ParkInv'
  <2> DEFINE p == FirstRunTime(d, t)
  <2>1. suspended[d] <=> p = MaxInt64 BY <1>0, NextFireTimeType DEF FirstRunTime
  <2>2. /\ call' = [call EXCEPT ![c] =
                     [pc |-> "push", entry |-> [detail |-> d, trigger |-> t, priority |-> p]]]
        /\ UNCHANGED <<queue, suspended>>
    BY <1>1 DEF ScheduleJob
  <2> HIDE DEF p
  <2>3. Parked(call'[c].entry) BY <1>0, <2>1, <2>2 DEF Parked
  <2>4. QED BY <1>0, <2>2, <2>3, ParkKept
<1>2. ASSUME NEW j \in JobKeys, DeleteJob(c, j) PROVE ParkInv'
  <2>1. /\ queue' \subseteq queue /\ call'[c].pc = "notify" /\ UNCHANGED suspended
    BY <1>0, <1>2 DEF DeleteJob
  <2>2. QED BY <1>0, <2>1, ParkKept
<1>3. CASE Clear(c)
  <2>1. queue' = {} /\ call'[c].pc = "notify" /\ UNCHANGED suspended BY <1>0, <1>3 DEF Clear
  <2>2. QED BY <1>0, <2>1, ParkKept
<1>4. ASSUME NEW j \in JobKeys, PauseJob(c, j) PROVE ParkInv'
  <2>1. PICK e \in queue : /\ queue' = queue \ {e}
                           /\ suspended' = [suspended EXCEPT ![e.detail] = TRUE]
                           /\ Goto(c, "repush", [e EXCEPT !.priority = MaxInt64])
    BY <1>4 DEF PauseJob, WithKey
  <2>2. PICK f : f = [e EXCEPT !.priority = MaxInt64] OBVIOUS
  <2>3. f.priority = MaxInt64 /\ f.detail = e.detail BY <1>0, <2>2, EntryAt
  <2>4. call'[c].entry = f BY <1>0, <2>1, <2>2
  <2>5. suspended'[e.detail] = TRUE BY <1>0, <2>1 DEF Entry
  <2>6. Parked(call[c].entry)' BY <2>3, <2>4, <2>5 DEF Parked
  <2>7. lock = NoOwner /\ call[c].pc = "idle" BY <1>4 DEF PauseJob
  <2>8. QED BY <1>0, <2>1, <2>6, <2>7, FlagChange
<1>5. ASSUME NEW j \in JobKeys, ResumeJob(c, j) PROVE ParkInv'
  <2>1. PICK e \in queue :
          /\ queue' = queue \ {e}
          /\ suspended' = [suspended EXCEPT ![e.detail] = FALSE]
          /\ \/ Goto(c, "repush", [e EXCEPT !.priority = NextFireTime(e.trigger, now)])
             \/ UNCHANGED call
    BY <1>5 DEF ResumeJob, WithKey
  <2>2. lock = NoOwner /\ call[c].pc = "idle" BY <1>5 DEF ResumeJob
  <2>3. suspended'[e.detail] = FALSE BY <1>0, <2>1 DEF Entry
  <2>4. CASE UNCHANGED call
    BY <1>0, <2>1, <2>2, <2>4, FlagChange
  <2>5. CASE Goto(c, "repush", [e EXCEPT !.priority = NextFireTime(e.trigger, now)])
    <3>1. PICK p : p = NextFireTime(e.trigger, now) OBVIOUS
    <3>2. p \in 0..MaxInt64 /\ p # MaxInt64
      BY <1>0, <3>1, NextFireTimeType, SchedulerAssumption DEF Entry, SchedulerAssumption
    <3>3. PICK f : f = [e EXCEPT !.priority = p] OBVIOUS
    <3>4. f.priority = p /\ f.detail = e.detail BY <1>0, <3>2, <3>3, EntryAt
    <3>5. call'[c].entry = f BY <1>0, <2>5, <3>1, <3>3
    <3>6. Parked(call[c].entry)' BY <2>3, <3>2, <3>4, <3>5 DEF Parked
    <3>7. QED BY <1>0, <2>1, <2>2, <3>6, FlagChange
  <2>6. QED BY <2>1, <2>4, <2>5
<1>6. CASE PushJob(c) \/ RepushJob(c)
  <2>1. /\ call[c].pc \in {"push", "repush"} /\ UNCHANGED suspended
        /\ queue' = queue \/ queue' = Push(queue, call[c].entry)
        /\ call'[c].pc \in {"notify", "idle"}
    BY <1>0, <1>6 DEF PushJob, RepushJob
  <2>2. \A e \in queue' : e \in queue \/ Parked(e)
    BY <2>1 DEF ParkInv, Push
  <2>3. QED BY <1>0, <2>1, <2>2, ParkKept
<1>7. CASE NotifyLoop(c) \/ Reset(c)
  <2>1. UNCHANGED <<queue, suspended>> BY <1>7 DEF NotifyLoop, Reset, jobVars
  <2>2. call'[c].pc \in {"reset", "idle"} BY <1>0, <1>7 DEF NotifyLoop, Reset
  <2>3. QED BY <1>0, <2>1, <2>2, ParkKept
<1>8. QED BY <1>1, <1>2, <1>3, <1>4, <1>5, <1>6, <1>7 DEF BeginCall, FinishCall

LEMMA JudgePark ==
    ASSUME Base, KeysInv, ParkInv, NEW g \in Gens, Judge(g)
    PROVE  ParkInv'
<1>0. TypeInv BY DEF Base
<1>1. /\ loop[g].pc = "resched" /\ loop'[g].pc # "resched" /\ UNCHANGED <<call, suspended>>
      /\ \A h \in Gens : h # g => loop'[h] = loop[h]
  BY <1>0, JudgeEffect
<1>2. PICK e \in Entry : e = loop[g].entry BY <1>0, <1>1 DEF TypeInv, HandsFull
<1>3. /\ Key(e) \notin Keys(queue) /\ e.priority \in 0..MaxInt64 /\ Parked(e)
      /\ now \in 0..MaxTime /\ now \in Nat /\ MaxInt64 \in 0..MaxInt64 /\ MaxTime \in Nat
      /\ MaxInt64 \in Nat /\ e.trigger \in Triggers
  BY <1>0, <1>1, <1>2, SchedulerAssumption
     DEF KeysInv, ParkInv, Entry, TypeInv, TypeOK, SchedulerAssumption
<1>4. ASSUME NEW p \in 0..MaxInt64, PutBack(e, p), suspended[e.detail] <=> p = MaxInt64
      PROVE  ParkInv'
  <2>1. PICK f : f = [e EXCEPT !.priority = p] OBVIOUS
  <2>2. queue' = queue \cup {f} BY <1>3, <1>4, <2>1, PutBackAdds
  <2>3. Parked(f) BY <1>4, <2>1, EntryAt DEF Parked
  <2>4. QED BY <1>1, <2>2, <2>3, ParkKept
<1>5. ASSUME NEW p \in 0..MaxTime, Reschedule(e, p), ~suspended[e.detail] PROVE ParkInv'
  <2>1. CASE CanFire(expired, e.trigger)
    <3>1. PICK q : q = NextFireTime(e.trigger, p) OBVIOUS
    <3>2. q \in 0..MaxInt64 /\ q # MaxInt64 BY <1>3, <3>1, NextFireTimeType
    <3>3. PutBack(e, q) BY <1>5, <2>1, <3>1 DEF Reschedule
    <3>4. QED BY <1>4, <1>5, <3>2, <3>3
  <2>2. CASE ~CanFire(expired, e.trigger)
    <3>1. queue' = queue BY <1>5, <2>2 DEF Reschedule
    <3>2. QED BY <1>1, <3>1, ParkKept
  <2>3. QED BY <2>1, <2>2
<1>6. CASE ParkSuspended(g)
  BY <1>2, <1>3, <1>4, <1>6 DEF ParkSuspended, IsSuspended
<1>7. CASE SkipOutdated(g)
  BY <1>2, <1>3, <1>5, <1>7 DEF SkipOutdated, IsOutdated, IsSuspended
<1>8. CASE PutBackEarly(g)
  BY <1>2, <1>3, <1>4, <1>8 DEF PutBackEarly, Parked
<1>9. CASE TakeDue(g)
  <2>1. Reschedule(e, e.priority) /\ IsDue(e) BY <1>2, <1>9 DEF TakeDue
  <2>2. e.priority \in 0..MaxTime /\ ~suspended[e.detail]
    BY <1>3, <2>1 DEF IsDue, IsEarly, IsSuspended
  <2>3. QED BY <1>5, <2>1, <2>2
<1>10. QED BY <1>6, <1>7, <1>8, <1>9 DEF Judge

LEMMA ParkStep ==
    ASSUME \A b, c \in Clients : b = c, Base, KeysInv, ParkInv, [Next]_vars
    PROVE  ParkInv'
<1>0. TypeInv /\ NotBegun BY DEF Base
<1>1. CASE Quiet BY <1>1, ParkKept DEF Quiet, jobVars
<1>2. ASSUME NEW c \in Clients, BeginCall(c) \/ FinishCall(c) PROVE ParkInv'
  BY <1>2, CallPark
<1>3. ASSUME NEW g \in Gens, FetchJob(g) PROVE ParkInv'
  <2>1. /\ UNCHANGED <<call, suspended>>
        /\ \A h \in Gens : h # g => loop'[h] = loop[h]
        /\ \/ queue' = queue /\ loop'[g].pc = "size"
           \/ \E e \in queue : queue' = queue \ {e} /\ loop'[g].entry = e
    BY <1>0, <1>3, FetchEffect
  <2>2. loop'[g].pc = "size" \/ Parked(loop'[g].entry) BY <2>1 DEF ParkInv
  <2>3. queue' \subseteq queue BY <2>1
  <2>4. QED BY <2>1, <2>2, <2>3, ParkKept
<1>4. ASSUME NEW g \in Gens, Judge(g) PROVE ParkInv'
  BY <1>4, JudgePark
<1>5. QED BY <1>0, <1>1, <1>2, <1>3, <1>4, QuietOrNot

\* With a single client, a job is parked at MaxInt64 exactly if its JobDetail
\* is suspended: the loop's pushes and the calls never disagree with the flag.
THEOREM ParkedIffSuspendedHolds ==
    ASSUME \A b, c \in Clients : b = c
    PROVE  Spec => []ParkedIffSuspended
<1>1. Init => KeysInv /\ ParkInv BY DEF Init, KeysInv, Unique, ParkInv
<1>2. Base /\ KeysInv /\ ParkInv /\ [Next]_vars => ParkInv' BY ParkStep
<1>3. ParkInv => ParkedIffSuspended BY DEF ParkInv, ParkedIffSuspended, Parked, InHand
<1>4. QED BY <1>1, <1>2, <1>3, BaseInvariant, KeysStep, PTL DEF Spec

=============================================================================
