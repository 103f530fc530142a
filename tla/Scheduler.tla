----------------------------- MODULE Scheduler ------------------------------
(***************************************************************************)
(* StdScheduler (quartz/scheduler.go): the goroutines that call its API,   *)
(* the execution loop with its timer and interrupt channel, the workers,   *)
(* the goroutines that run jobs, and the watchers that wait for a run's    *)
(* context to end.                                                         *)
(*                                                                         *)
(* Every Start begins a generation: a context, a watcher, a loop and, with *)
(* a worker limit, a pool of workers. Stop does not wait for them, so two  *)
(* generations may be alive at once, sharing the queue, the two channels   *)
(* and the WaitGroup.                                                      *)
(*                                                                         *)
(* Reads of the clock, of a flag and of the queue are separate steps       *)
(* wherever another goroutine can act between them. queueLocker is held    *)
(* over several steps; the loop's Size and Head do not take it.            *)
(***************************************************************************)
EXTENDS JobQueue, Trigger

CONSTANTS Clients,            \* goroutines that call the API
          MaxStarts,          \* bound: successful calls of Start
          MaxTime,            \* bound: the last instant of a behaviour
          MaxInt64,           \* math.MaxInt64: the run time of a suspended job
          Modes,              \* ways of execution NewStdScheduler may be given
          WorkerLimit,        \* opts.WorkerLimit, in mode "workers"
          OutdatedThreshold,  \* opts.OutdatedThreshold
          MisfiredCap,        \* capacity of opts.MisfiredChan, 0 if it is nil
          NoEntry,            \* a call or a loop that holds no job
          NoOwner             \* queueLocker is free

Gens == 1..MaxStarts
Workers == Gens \X (1..WorkerLimit)

\* No run time reaches MaxInt64 except that of a suspended job: a run time
\* is at most a clock reading or an earlier run time, plus a period.
SchedulerAssumption ==
    /\ MaxStarts \in Nat /\ MaxTime \in Nat \ {0} /\ MaxInt64 \in Nat
    /\ WorkerLimit \in Nat /\ OutdatedThreshold \in Nat /\ MisfiredCap \in Nat
    /\ Modes \subseteq {"blocking", "workers", "goroutines"}
    /\ MaxTime < MaxInt64
    /\ \A t \in Triggers : MaxTime + Period[t] < MaxInt64
    /\ Clients \cap Gens = {} /\ NoOwner \notin Clients \cup Gens
    /\ NoEntry \notin [detail: Details, trigger: Triggers, priority: 0..MaxInt64]
ASSUME SchedulerAssumption

VARIABLES
    now,        \* NowNano()
    mode,       \* opts.BlockingExecution and opts.WorkerLimit
    suspended,  \* opts.Suspended of every JobDetail
    expired,    \* Expired of every RunOnceTrigger
    queue,      \* the entries of the JobQueue
    lock,       \* who holds queueLocker
    interrupt,  \* whether the interrupt channel (capacity 1) holds a token
    started,    \* sched.started
    gen,        \* how often Start has begun a run: the run cancel belongs to
    done,       \* whether a generation's context is done
    watcher,    \* whether a generation's watcher is still waiting
    loop,       \* a generation's loop: pc, timer deadline, tick, job in hand
    worker,     \* the workers of every generation
    spawned,    \* goroutines executing a job (no worker limit)
    wg,         \* the WaitGroup's counter
    misfired,   \* jobs in MisfiredChan
    call,       \* what each client is doing: pc and the entry it will push
    lastFired   \* history: the last run time at which a key's job was fired

jobVars == <<suspended, expired, queue, lastFired>>
runVars == <<started, gen, done, watcher>>
execVars == <<worker, spawned, wg>>
vars == <<now, mode, jobVars, lock, interrupt, runVars, loop, execVars,
          misfired, call>>

Entry == [detail: Details, trigger: Triggers, priority: 0..MaxInt64]

CallPCs == {"idle", "push", "repush", "notify", "reset"}

\* Where a call holds queueLocker.
Holding == {"repush", "notify", "reset"}

LoopPCs == {"off", "size", "head", "select", "fetch", "resched", "dispatch",
            "exec", "exited"}

CallState == [pc: CallPCs, entry: Entry \cup {NoEntry}]
LoopState == [pc: LoopPCs, deadline: 0..MaxInt64, tick: BOOLEAN,
              entry: Entry \cup {NoEntry}]

\* NewStdScheduler, before any Start. A JobDetail may be created suspended.
Init ==
    /\ now = 1
    /\ mode \in Modes
    /\ suspended \in [Details -> BOOLEAN]
    /\ expired = [t \in Triggers |-> FALSE]
    /\ queue = {}
    /\ lock = NoOwner
    /\ interrupt = FALSE
    /\ started = FALSE
    /\ gen = 0
    /\ done = [g \in Gens |-> FALSE]
    /\ watcher = [g \in Gens |-> FALSE]
    /\ loop = [g \in Gens |-> [pc |-> "off", deadline |-> MaxInt64,
                               tick |-> FALSE, entry |-> NoEntry]]
    /\ worker = [w \in Workers |-> "off"]
    /\ spawned = 0
    /\ wg = 0
    /\ misfired = 0
    /\ call = [c \in Clients |-> [pc |-> "idle", entry |-> NoEntry]]
    /\ lastFired = [k \in JobKeys |-> 0]

Tick ==
    /\ now < MaxTime
    /\ now' = now + 1
    /\ UNCHANGED <<mode, jobVars, lock, interrupt, runVars, loop, execVars,
                   misfired, call>>

(***************************************************************************)
(* API calls. Each takes queueLocker (lock' = c), changes the queue and    *)
(* notifies the loop before it releases the lock. No call begins at the    *)
(* horizon MaxTime. A call that returns an error without changing anything *)
(* is not a step.                                                          *)
(***************************************************************************)
Idle(c) == call[c].pc = "idle" /\ now < MaxTime

Goto(c, pc, e) == call' = [call EXCEPT ![c] = [pc |-> pc, entry |-> e]]

CallUnchanged == UNCHANGED <<now, mode, runVars, loop, execVars, misfired>>

\* Entries that a call or a loop has taken out of the queue to push back.
InHand == {call[c].entry : c \in {c \in Clients : call[c].pc = "repush"}}
            \cup {loop[g].entry : g \in {g \in Gens : loop[g].pc = "resched"}}

\* Entries that a ScheduleJob is about to push.
Incoming == {call[c].entry : c \in {c \in Clients : call[c].pc = "push"}}

\* A caller gives every job its own RunOnceTrigger: its Expired field is not
\* synchronised.
Free(t) == t \in Once =>
               \A e \in queue \cup InHand \cup Incoming : e.trigger # t

\* Mutant of FirstRunTime: opts.Suspended is ignored.
RunTimeOfTrigger(d, t) == NextFireTime(t, now)

FirstRunTime(d, t) == IF suspended[d] THEN MaxInt64 ELSE NextFireTime(t, now)

\* ScheduleJob reads opts.Suspended and calls NextFireTime before it takes
\* queueLocker.
ScheduleJob(c, d, t) ==
    /\ Idle(c) /\ Free(t)
    /\ suspended[d] \/ CanFire(expired, t)
    /\ expired' = IF suspended[d] THEN expired ELSE Consume(expired, t)
    /\ Goto(c, "push", [detail |-> d, trigger |-> t, priority |-> FirstRunTime(d, t)])
    /\ CallUnchanged
    /\ UNCHANGED <<suspended, queue, lastFired, lock, interrupt>>

PushJob(c) ==
    LET e == call[c].entry IN
    /\ call[c].pc = "push" /\ lock = NoOwner
    /\ IF CanPush(queue, e)
       THEN /\ queue' = Push(queue, e)
            /\ lastFired' = [lastFired EXCEPT ![Key(e)] = 0]
            /\ lock' = c
            /\ Goto(c, "notify", NoEntry)
       ELSE /\ UNCHANGED <<queue, lastFired, lock>>
            /\ Goto(c, "idle", NoEntry)
    /\ CallUnchanged
    /\ UNCHANGED <<suspended, expired, interrupt>>

DeleteJob(c, k) ==
    /\ Idle(c) /\ lock = NoOwner
    /\ k \in Keys(queue)
    /\ queue' = queue \ WithKey(queue, k)
    /\ lock' = c
    /\ Goto(c, "notify", NoEntry)
    /\ CallUnchanged
    /\ UNCHANGED <<suspended, expired, lastFired, interrupt>>

Clear(c) ==
    /\ Idle(c) /\ lock = NoOwner
    /\ queue' = {}
    /\ lock' = c
    /\ Goto(c, "notify", NoEntry)
    /\ CallUnchanged
    /\ UNCHANGED <<suspended, expired, lastFired, interrupt>>

PauseJob(c, k) ==
    /\ Idle(c) /\ lock = NoOwner
    /\ \E e \in WithKey(queue, k) :
          /\ ~suspended[e.detail]
          /\ queue' = queue \ {e}
          /\ suspended' = [suspended EXCEPT ![e.detail] = TRUE]
          /\ Goto(c, "repush", [e EXCEPT !.priority = MaxInt64])
    /\ lock' = c
    /\ CallUnchanged
    /\ UNCHANGED <<expired, lastFired, interrupt>>

\* A trigger that cannot fire ends the call with the job removed.
ResumeJob(c, k) ==
    /\ Idle(c) /\ lock = NoOwner
    /\ \E e \in WithKey(queue, k) :
          /\ suspended[e.detail]
          /\ queue' = queue \ {e}
          /\ suspended' = [suspended EXCEPT ![e.detail] = FALSE]
          /\ IF CanFire(expired, e.trigger)
             THEN /\ expired' = Consume(expired, e.trigger)
                  /\ Goto(c, "repush", [e EXCEPT !.priority =
                                            NextFireTime(e.trigger, now)])
                  /\ lock' = c
             ELSE UNCHANGED <<expired, call, lock>>
    /\ CallUnchanged
    /\ UNCHANGED <<lastFired, interrupt>>

\* The Push of PauseJob and ResumeJob.
RepushJob(c) ==
    LET e == call[c].entry IN
    /\ call[c].pc = "repush"
    /\ IF CanPush(queue, e)
       THEN /\ queue' = Push(queue, e)
            /\ Goto(c, "notify", NoEntry)
            /\ UNCHANGED lock
       ELSE /\ lock' = NoOwner
            /\ Goto(c, "idle", NoEntry)
            /\ UNCHANGED queue
    /\ CallUnchanged
    /\ UNCHANGED <<suspended, expired, lastFired, interrupt>>

\* Mutant of NotifyLoop: the call does not wake the loop.
NotifyNobody(c) ==
    /\ call[c].pc = "notify"
    /\ lock' = NoOwner
    /\ Goto(c, "idle", NoEntry)
    /\ CallUnchanged
    /\ UNCHANGED <<jobVars, interrupt>>

\* Mutant of NotifyLoop: an early return that keeps queueLocker.
NotifyOrReturn(c) ==
    /\ call[c].pc = "notify"
    /\ Goto(c, IF started THEN "reset" ELSE "idle", NoEntry)
    /\ CallUnchanged
    /\ UNCHANGED <<jobVars, interrupt, lock>>

\* if sched.IsStarted(), and the deferred Unlock if it is not.
NotifyLoop(c) ==
    /\ call[c].pc = "notify"
    /\ lock' = IF started THEN lock ELSE NoOwner
    /\ Goto(c, IF started THEN "reset" ELSE "idle", NoEntry)
    /\ CallUnchanged
    /\ UNCHANGED <<jobVars, interrupt>>

\* sched.Reset() and the deferred Unlock. The send does not wait.
Reset(c) ==
    /\ call[c].pc = "reset"
    /\ interrupt' = TRUE
    /\ lock' = NoOwner
    /\ Goto(c, "idle", NoEntry)
    /\ CallUnchanged
    /\ UNCHANGED jobVars

(***************************************************************************)
(* Start, Stop and the end of a run. sched.mtx makes each one a step.      *)
(***************************************************************************)
At(g, pc) == loop[g].pc = pc

\* The loop goes on; it goes on with its timer set; with that job in hand.
GoOn(g, pc) == loop' = [loop EXCEPT ![g].pc = pc]
Arm(g, pc, d) == loop' = [loop EXCEPT ![g].pc = pc, ![g].deadline = d]
Hold(g, pc, e) == loop' = [loop EXCEPT ![g].pc = pc, ![g].entry = e]

\* Mutant of WgAdd: every run starts a count of its own.
WgSet(n) == wg' = n
WgAdd(n) == wg' = wg + n

Start ==
    /\ ~started /\ gen < MaxStarts /\ now < MaxTime
    /\ started' = TRUE
    /\ gen' = gen + 1
    /\ watcher' = [watcher EXCEPT ![gen + 1] = TRUE]
    /\ GoOn(gen + 1, "size")
    /\ worker' = IF mode = "workers"
                 THEN [w \in Workers |-> IF w[1] = gen + 1 THEN "idle" ELSE worker[w]]
                 ELSE worker
    /\ WgAdd(1 + (IF mode = "workers" THEN WorkerLimit ELSE 0))
    /\ UNCHANGED <<now, mode, jobVars, lock, interrupt, done, spawned,
                   misfired, call>>

\* The body of Stop once it has seen that the scheduler is started: cancel
\* is that of the newest run.
EndRun ==
    /\ started' = FALSE
    /\ done' = [done EXCEPT ![gen] = TRUE]

Stop ==
    /\ started /\ EndRun
    /\ UNCHANGED <<now, mode, jobVars, lock, interrupt, gen, watcher, loop,
                   execVars, misfired, call>>

\* The application cancels the context it gave to Start.
CancelContext(g) ==
    /\ g <= gen /\ ~done[g]
    /\ done' = [done EXCEPT ![g] = TRUE]
    /\ UNCHANGED <<now, mode, jobVars, lock, interrupt, started, gen, watcher,
                   loop, execVars, misfired, call>>

\* go func() { <-ctx.Done(); sched.Stop() }()
Watch(g) ==
    /\ watcher[g] /\ done[g]
    /\ watcher' = [watcher EXCEPT ![g] = FALSE]
    /\ IF started THEN EndRun ELSE UNCHANGED <<started, done>>
    /\ UNCHANGED <<now, mode, jobVars, lock, interrupt, gen, loop, execVars,
                   misfired, call>>

(***************************************************************************)
(* The execution loop of generation g. timer.Stop and timer.Reset do not   *)
(* drain timer.C (the module's go directive is below 1.23), so a tick may  *)
(* be left over from an earlier deadline.                                  *)
(***************************************************************************)
LoopUnchanged == UNCHANGED <<now, mode, runVars, call>>

\* The timer's goroutine sends to timer.C, which has capacity 1: at any time
\* if the loop has woken on a tick that was left over.
TimerFire(g) ==
    /\ loop[g].pc # "off" /\ loop[g].deadline <= now
    /\ loop' = [loop EXCEPT ![g].tick = TRUE, ![g].deadline = MaxInt64]
    /\ LoopUnchanged
    /\ UNCHANGED <<jobVars, lock, interrupt, execVars, misfired>>

\* queue.Size(), and timer.Reset(maxTimerDuration) on an empty queue.
ReadSize(g) ==
    /\ At(g, "size")
    /\ Arm(g, IF queue = {} THEN "select" ELSE "head", MaxInt64)
    /\ LoopUnchanged
    /\ UNCHANGED <<jobVars, lock, interrupt, execVars, misfired>>

\* calculateNextTick: the queue may have become empty since ReadSize, and
\* then the duration is 0.
ReadHead(g) ==
    /\ At(g, "head")
    /\ \E d \in IF queue = {} THEN {now}
                ELSE {IF e.priority > now THEN e.priority ELSE now : e \in Heads(queue)} :
          Arm(g, "select", d)
    /\ LoopUnchanged
    /\ UNCHANGED <<jobVars, lock, interrupt, execVars, misfired>>

SelectTick(g) ==
    /\ At(g, "select") /\ loop[g].tick
    /\ loop' = [loop EXCEPT ![g].pc = "fetch", ![g].tick = FALSE]
    /\ LoopUnchanged
    /\ UNCHANGED <<jobVars, lock, interrupt, execVars, misfired>>

SelectInterrupt(g) ==
    /\ At(g, "select") /\ interrupt
    /\ interrupt' = FALSE
    /\ Arm(g, "size", MaxInt64)
    /\ LoopUnchanged
    /\ UNCHANGED <<jobVars, lock, execVars, misfired>>

SelectDone(g) ==
    /\ At(g, "select") /\ done[g]
    /\ Arm(g, "exited", MaxInt64)
    /\ WgAdd(-1)
    /\ LoopUnchanged
    /\ UNCHANGED <<jobVars, lock, interrupt, worker, spawned, misfired>>

\* fetchAndReschedule: take queueLocker and Pop.
FetchJob(g) ==
    /\ At(g, "fetch") /\ lock = NoOwner
    /\ IF queue = {}
       THEN GoOn(g, "size") /\ UNCHANGED <<queue, lock>>
       ELSE \E e \in Heads(queue) :
               /\ queue' = queue \ {e}
               /\ lock' = g
               /\ Hold(g, "resched", e)
    /\ LoopUnchanged
    /\ UNCHANGED <<suspended, expired, lastFired, interrupt, execVars, misfired>>

\* validateJob: the four things a fetched job may be.
IsSuspended(e) == suspended[e.detail]
IsOutdated(e) == ~IsSuspended(e) /\ e.priority < now - OutdatedThreshold

\* Mutant of IsEarly: validateJob trusts the timer.
NeverTooEarly(e) == FALSE
IsEarly(e) == ~IsSuspended(e) /\ e.priority > now
IsDue(e) == ~IsSuspended(e) /\ ~IsOutdated(e) /\ ~IsEarly(e)

\* Mutant of PutBack: only a job with a run time is pushed again.
PutBackTimed(e, p) ==
    IF p < MaxInt64
    THEN queue' = Push(queue, [e EXCEPT !.priority = p]) /\ interrupt' = TRUE
    ELSE UNCHANGED <<queue, interrupt>>

\* Push the job with its next run time; Reset if that succeeds.
PutBack(e, p) ==
    LET f == [e EXCEPT !.priority = p]
    IN  IF CanPush(queue, f)
        THEN queue' = Push(queue, f) /\ interrupt' = TRUE
        ELSE UNCHANGED <<queue, interrupt>>

\* Mutant of Reschedule: the next run time is the previous one.
RescheduleAt(e, prev) == PutBack(e, prev) /\ UNCHANGED expired

\* A job whose trigger has expired leaves the execution loop.
Reschedule(e, prev) ==
    IF CanFire(expired, e.trigger)
    THEN /\ PutBack(e, NextFireTime(e.trigger, prev))
         /\ expired' = Consume(expired, e.trigger)
    ELSE UNCHANGED <<queue, interrupt, expired>>

\* The deferred Unlock; the loop goes on with the job, or without one.
Unlock(g, pc, e) ==
    /\ At(g, "resched")
    /\ lock' = NoOwner
    /\ Hold(g, pc, e)
    /\ LoopUnchanged
    /\ UNCHANGED <<suspended, execVars>>

ParkSuspended(g) ==
    /\ Unlock(g, "size", NoEntry)
    /\ IsSuspended(loop[g].entry)
    /\ PutBack(loop[g].entry, MaxInt64)
    /\ UNCHANGED <<expired, lastFired, misfired>>

\* Mutant of AfterSend: the channel takes every job.
AfterAnySend == misfired + 1

\* The send to MisfiredChan does not wait: a full channel loses the job.
AfterSend == IF misfired < MisfiredCap THEN misfired + 1 ELSE misfired

SkipOutdated(g) ==
    /\ Unlock(g, "size", NoEntry)
    /\ IsOutdated(loop[g].entry)
    /\ misfired' = AfterSend
    /\ Reschedule(loop[g].entry, now)
    /\ UNCHANGED lastFired

PutBackEarly(g) ==
    /\ Unlock(g, "size", NoEntry)
    /\ IsEarly(loop[g].entry)
    /\ PutBack(loop[g].entry, loop[g].entry.priority)
    /\ UNCHANGED <<expired, lastFired, misfired>>

TakeDue(g) ==
    LET e == loop[g].entry IN
    /\ Unlock(g, "dispatch", e)
    /\ IsDue(e)
    /\ Reschedule(e, e.priority)
    /\ lastFired' = [lastFired EXCEPT ![Key(e)] = e.priority]
    /\ UNCHANGED misfired

(***************************************************************************)
(* Execution. A job's Execute is any finite time in "exec", "busy" or      *)
(* spawned. The dispatch channel is unbuffered and belongs to the          *)
(* scheduler: a worker of any generation that still waits may receive.     *)
(***************************************************************************)
ExecUnchanged == UNCHANGED <<now, mode, jobVars, lock, interrupt, runVars,
                             misfired, call>>

BlockingBegin(g) ==
    /\ At(g, "dispatch") /\ mode = "blocking"
    /\ GoOn(g, "exec")
    /\ ExecUnchanged /\ UNCHANGED execVars

BlockingEnd(g) ==
    /\ At(g, "exec")
    /\ Hold(g, "size", NoEntry)
    /\ ExecUnchanged /\ UNCHANGED execVars

Spawn(g) ==
    /\ At(g, "dispatch") /\ mode = "goroutines"
    /\ spawned' = spawned + 1
    /\ WgAdd(1)
    /\ Hold(g, "size", NoEntry)
    /\ ExecUnchanged /\ UNCHANGED worker

Dispatch(g, w) ==
    /\ At(g, "dispatch") /\ mode = "workers"
    /\ worker[w] = "idle"
    /\ worker' = [worker EXCEPT ![w] = "busy"]
    /\ Hold(g, "size", NoEntry)
    /\ ExecUnchanged /\ UNCHANGED <<spawned, wg>>

\* Mutant of DispatchCancelled: the send does not watch the context.
DispatchInsists(g) == FALSE /\ UNCHANGED vars

\* The job has been rescheduled and is not executed.
DispatchCancelled(g) ==
    /\ At(g, "dispatch") /\ mode = "workers" /\ done[g]
    /\ Hold(g, "size", NoEntry)
    /\ ExecUnchanged /\ UNCHANGED execVars

WorkerReturns(w) ==
    /\ worker[w] = "busy"
    /\ worker' = [worker EXCEPT ![w] = "idle"]
    /\ ExecUnchanged /\ UNCHANGED <<loop, spawned, wg>>

WorkerExits(w) ==
    /\ worker[w] = "idle" /\ done[w[1]]
    /\ worker' = [worker EXCEPT ![w] = "exited"]
    /\ WgAdd(-1)
    /\ ExecUnchanged /\ UNCHANGED <<loop, spawned>>

JobReturns ==
    /\ spawned > 0
    /\ spawned' = spawned - 1
    /\ WgAdd(-1)
    /\ ExecUnchanged /\ UNCHANGED <<loop, worker>>

\* The application receives from MisfiredChan.
ReceiveMisfired ==
    /\ misfired > 0
    /\ misfired' = misfired - 1
    /\ UNCHANGED <<now, mode, jobVars, lock, interrupt, runVars, loop,
                   execVars, call>>

-----------------------------------------------------------------------------
BeginCall(c) ==
    \/ \E d \in Details, t \in Triggers : ScheduleJob(c, d, t)
    \/ \E k \in JobKeys : DeleteJob(c, k) \/ PauseJob(c, k) \/ ResumeJob(c, k)
    \/ Clear(c)

FinishCall(c) == PushJob(c) \/ RepushJob(c) \/ NotifyLoop(c) \/ Reset(c)

LoopStep(g) ==
    \/ ReadSize(g) \/ ReadHead(g)
    \/ SelectTick(g) \/ SelectInterrupt(g) \/ SelectDone(g)
    \/ FetchJob(g)
    \/ ParkSuspended(g) \/ SkipOutdated(g) \/ PutBackEarly(g) \/ TakeDue(g)
    \/ BlockingBegin(g) \/ BlockingEnd(g) \/ Spawn(g) \/ DispatchCancelled(g)
    \/ \E w \in Workers : Dispatch(g, w)

WorkerStep(w) == WorkerReturns(w) \/ WorkerExits(w)

Next ==
    \/ Tick \/ Start \/ Stop \/ JobReturns \/ ReceiveMisfired
    \/ \E c \in Clients : BeginCall(c) \/ FinishCall(c)
    \/ \E g \in Gens : \/ CancelContext(g) \/ Watch(g)
                       \/ TimerFire(g) \/ LoopStep(g)
    \/ \E w \in Workers : WorkerStep(w)

Spec == Init /\ [][Next]_vars

\* Goroutines are scheduled, timers fire, time passes and jobs return. A
\* select chooses among its ready cases at random, so a loop that comes back
\* to it again and again with its context done leaves in the end. Nothing
\* makes an application begin a call, cancel, stop or receive.
Fairness ==
    /\ WF_vars(Tick) /\ WF_vars(JobReturns)
    /\ \A c \in Clients : WF_vars(FinishCall(c))
    /\ \A g \in Gens : /\ WF_vars(TimerFire(g)) /\ WF_vars(Watch(g))
                       /\ WF_vars(LoopStep(g)) /\ SF_vars(SelectDone(g))
    /\ \A w \in Workers : WF_vars(WorkerStep(w))

FairSpec == Spec /\ Fairness

-----------------------------------------------------------------------------
(***************************************************************************)
(* Properties.                                                             *)
(***************************************************************************)
\* Every variable has its type; a token, a tick and a counter stay in range.
TypeOK ==
    /\ now \in 1..MaxTime
    /\ mode \in Modes
    /\ suspended \in [Details -> BOOLEAN]
    /\ expired \in [Triggers -> BOOLEAN]
    /\ queue \subseteq Entry
    /\ lock \in {NoOwner} \cup Clients \cup Gens
    /\ interrupt \in BOOLEAN
    /\ started \in BOOLEAN
    /\ gen \in 0..MaxStarts
    /\ done \in [Gens -> BOOLEAN]
    /\ watcher \in [Gens -> BOOLEAN]
    /\ loop \in [Gens -> LoopState]
    /\ worker \in [Workers -> {"off", "idle", "busy", "exited"}]
    /\ spawned \in Nat
    /\ wg \in Int
    /\ misfired \in 0..MisfiredCap
    /\ call \in [Clients -> CallState]
    /\ lastFired \in [JobKeys -> 0..MaxInt64]

\* queueLocker covers the whole of every read-modify-write of the queue: a
\* job in the hands of a call or of a loop belongs to the one holder of the
\* lock, and no other job has its key, so that pushing it back cannot fail
\* with ErrJobAlreadyExists and lose the job, or displace another one.
OneJobPerKey ==
    /\ \A e, f \in queue : Key(e) = Key(f) => e = f
    /\ \A e, f \in InHand : e = f
    /\ \A e \in InHand : Key(e) \notin Keys(queue)

\* One firing of a trigger executes a job at most once: whatever pauses,
\* resumptions, ticks left in a timer and restarts come between, a queued
\* job's run time is later than every run time it was executed for.
FireTimesIncrease ==
    \A e \in queue \cup InHand : e.priority > lastFired[Key(e)]

\* No job is executed before its run time, although the loop may wake on a
\* tick left over from a deadline that no longer holds, or fetch a job other
\* than the one it set the timer for.
NeverEarly ==
    \A g \in Gens : loop[g].pc \in {"dispatch", "exec"} => loop[g].entry.priority <= now

\* A waiting loop never sleeps past the head of the queue: if it does, an
\* interrupt, a tick or the call that has just changed the queue is about to
\* wake it. (A loop whose context is done will exit; two generations steal
\* each other's interrupts, hence MaxStarts = 1 in the run.)
NoMissedWakeup ==
    \A g \in Gens :
        /\ loop[g].pc = "select" /\ ~done[g]
        /\ ~interrupt /\ ~loop[g].tick /\ loop[g].deadline > now
        /\ \A c \in Clients : call[c].pc \notin Holding
        => \A e \in queue : loop[g].deadline <= e.priority

\* Outside calls a job is parked at MaxInt64 exactly if it is suspended. It
\* holds with a single client: ScheduleJob reads the flag without the lock.
ParkedIffSuspended ==
    (\A c \in Clients : call[c].pc = "idle")
        => \A e \in queue \cup InHand : suspended[e.detail] <=> e.priority = MaxInt64

\* Wait returns (the counter is zero) only when no loop, worker or job is
\* left of any run, and Done is never called too often.
WaitMeansQuiet ==
    wg = Cardinality({g \in Gens : loop[g].pc \notin {"off", "exited"}})
         + Cardinality({w \in Workers : worker[w] \in {"idle", "busy"}})
         + spawned

\* The keys of all jobs that are scheduled, those in somebody's hands too.
Present == Keys(queue) \cup {Key(e) : e \in InHand}

\* A job leaves the scheduler only because a call deleted it or cleared the
\* queue, or because its RunOnceTrigger has expired.
JobsLeaveOnlyOnRequest ==
    [][\A k \in Present \ Present' :
          \/ \E c \in Clients : call[c].pc = "idle" /\ call'[c].pc = "notify"
          \/ \E e \in queue \cup InHand :
                Key(e) = k /\ e.trigger \in Once /\ expired[e.trigger]]_vars

\* A run ends by a call of Stop or because its own context is done.
RunsUntilStopped == [][started /\ ~started' => watcher' = watcher \/ done[gen]]_vars

\* ResumeJob keeps the job it resumes.
ResumeKeepsJob == [][\A c \in Clients, k \in JobKeys : ResumeJob(c, k) => k \in Present']_vars

\* BlockingExecution serialises all executions, WorkerLimit bounds them.
ConcurrencyLimit ==
    /\ mode = "blocking" => Cardinality({g \in Gens : At(g, "exec")}) <= 1
    /\ mode = "workers" => Cardinality({w \in Workers : worker[w] = "busy"}) <= WorkerLimit

\* While a run goes on, every job that is due is handled: executed, skipped
\* as outdated or rescheduled, or a call takes it away.
IsQueued(k, p) == \E e \in queue : Key(e) = k /\ e.priority = p
DueJobsAreHandled ==
    \A k \in JobKeys, p \in 1..MaxTime :
        started /\ IsQueued(k, p) /\ p <= now ~> ~started \/ ~IsQueued(k, p)

\* Every call returns: the lock is always released again.
CallsReturn == \A c \in Clients : call[c].pc # "idle" ~> call[c].pc = "idle"

\* Once the contexts of all runs are done, the counter Wait waits for drops
\* to zero: no loop and no worker is stuck in the dispatch of a job.
StopReleasesWait == (gen = MaxStarts /\ \A g \in Gens : done[g]) ~> wg = 0

=============================================================================
