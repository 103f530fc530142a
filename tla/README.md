# A TLA+ model of go-quartz

go-quartz is a job scheduling library: an application registers jobs with
triggers, and a scheduler executes each job when its trigger fires. This
directory holds the TLA+ modules that model it, the TLC configurations that
model-check them, and the theorems about them that TLAPS checks.

Contents: [Inventory](#inventory) · [Modules](#modules) · [From the code to the
model](#from-the-code-to-the-model) · [Runs](#runs) · [Fairness](#fairness) ·
[Disagreements](#where-code-and-documentation-disagree) · [Theorems](#theorems) ·
[Not modelled](#what-is-not-modelled) · [Plan](#plan)

## Inventory

| component | state | operations | what is hard | what makes it correct |
|---|---|---|---|---|
| `StdScheduler` API (`quartz/scheduler.go`) | `queue`, `queueLocker`, `interrupt` channel (capacity 1), `opts.Suspended` of each job | `ScheduleJob`, `DeleteJob`, `PauseJob`, `ResumeJob`, `Clear`, `Reset`, two queries | many callers; a flag and the clock read before the lock; a wakeup that is dropped if the channel is full | a job is never lost, doubled or left without a wakeup; every call returns |
| execution loop | the position of a goroutine, its `time.Timer`, the job it has popped | `Size`, `Head`, the select, `Pop`, `validateJob`, `Push` | it reads the queue without the lock; stale timer ticks; pop and push are two steps | due jobs are executed, none early, none twice for one firing |
| life cycle | `started`, `cancel`, `wg`, one context and one watcher for each run | `Start`, `Stop`, `Wait`, the end of a context | a restart while the previous run is still leaving | a run ends when it is told to; `Wait` returns when, and only when, all is quiet |
| dispatch and workers | `dispatch` channel (unbuffered), workers, goroutines of jobs | blocking execution, a worker pool, a goroutine per job; retries | a stop while the loop waits for a worker | a stop releases everybody; the limits on concurrency hold |
| `jobQueue` (`quartz/queue.go`) | a slice in heap order, a mutex | the eight operations of `JobQueue` | `heap.Remove` at an index found in a copy | the contract of the interface |
| triggers (`quartz/trigger.go`) | `Expired` of a `RunOnceTrigger` | `NextFireTime` | it is consumed when it is asked, not when the job runs | a run time follows the previous one |
| cron (`quartz/cron.go`, `quartz/csm.go`, `internal/csm`) | the fields of an expression; the nodes of a date while `NextFireTime` runs | parse an expression, find the next matching instant | month lengths, `L`, `W`, `#`, carries between the fields, clocks that change | the next fire time is the least instant that the expression names |
| jobs (`job`) | running flag, mutex, status and result of a job object | `Execute` | concurrent executions of one object, retries, panics | at most one execution of an isolated job; a flag that is always lowered |
| file system queue (`examples/queue`) | a directory shared by processes | the operations of `JobQueue` | a process that dies between `Pop` and `Push`; a lock that is not shared; no interrupt from another process | what is scheduled is neither doubled nor lost, and somebody wakes for it |
| matchers (`matcher`), `JobDetail`, `JobKey`, errors, loggers | none, or constant | predicates and accessors | | |

How they interact. Callers and the loops share the queue. A caller takes
`queueLocker`, changes the queue and, still holding the lock, calls `Reset`,
which puts a token into the interrupt channel unless one is there. The loop
sleeps in a select on its timer, the interrupt channel and its context; after a
tick it takes `queueLocker`, pops the first job, judges it (suspended, outdated,
early or due), asks the trigger for the next run time, pushes the job back,
calls `Reset`, releases the lock and executes the job if it was due. `Start`
creates a context, a watcher goroutine that calls `Stop` when the context is
done, the workers and the loop; `Stop` cancels the context and does not wait.

A job is executed by `executeWithRetries`, in the loop, in a worker or in a
goroutine of its own, which calls `Job.Execute`, waits for the retry interval or
the end of the context, and recovers from a panic. Schedulers of several
processes may share a queue and, if the application gives them one that works across
processes, a `queueLocker` (`WithQueue`); each has its own interrupt channel, so that a change made by one wakes no other, and the comment
on `Reset` asks whoever runs them to call it by hand when that matters.

The behaviours a test hardly reaches are listed with their lines under
`hazards` in `PROJECT.json`.

## Modules

| module | models | lines of Go |
|---|---|---|
| `Trigger` | `SimpleTrigger` and `RunOnceTrigger` as operators | `trigger.go` |
| `JobQueue` | what each queue operation does to a set of entries, as operators | `queue.go`, interface |
| `AbstractQueue` | the contract of `JobQueue` as a state machine | `queue.go` 33-87 |
| `HeapQueue` | the in-memory queue: a slice kept by the loops of `container/heap`, all eight operations | `queue.go` 89-253 |
| `Scheduler` | `StdScheduler`: callers, loops, timers, workers, watchers, contexts | `scheduler.go` |
| `Execution` | `executeWithRetries` and the four kinds of job, executed by any number of goroutines | `scheduler.go` 665-696, `job/*.go` |
| `FileQueue` | the queue of the example on a directory, as operators | `examples/queue/file_system.go` |
| `Cluster` | processes with one loop and a pool of workers each, on a shared directory | `scheduler.go`, `file_system.go` |
| `Calendar` | dates as package `time` gives them to the cron code | external, `internal/csm/util.go` |
| `CronParser` | from the tokens of an expression to its fields | `cron.go` 113-450, `util.go` |
| `CronStateMachine` | the nodes of a date and how they move on | `internal/csm`, `csm.go` |
| `CronMeaning` | what an expression names, as the readme says, without fields or nodes | `README.md`, the examples of `cron.go` |
| `CronTrigger` | a trigger that is created and asked for one fire time after another | `cron.go` 19-111, `csm.go` |
| `MCScheduler`, `MCHeapQueue`, `MCCluster`, `MCCron` | instances for TLC | |
| `SchedulerProofs`, `FiringProofs`, `WaitProofs` | theorems on `Scheduler` | |
| `ExecutionProofs`, `ClusterProofs` | theorems on `Execution` and `Cluster` | |
| `HeapQueueProofs` | theorems on `HeapQueue` | |
| `CronMachineProofs` | lemmas on `Calendar` and `CronStateMachine` | |
| `CronProofs` | theorems on `CronParser` and `CronTrigger` | |

`Scheduler` extends `JobQueue` and `Trigger`. It uses the queue as a set; that
the heap behaves like that set is what `HeapQueue` is there for: it instantiates
`AbstractQueue` with `queue <- Contents` and `ret <- Result`, and both go by the
operators of `JobQueue`. `op` and `ret` are the latest operation and its result, so
that, say, a `Pop` of a late job cannot pass as its `Remove`.

`Cluster` extends `Execution` and `FileQueue`: the workers of a process are
workers of `Execution`, and a process that stops or dies takes the contexts, flags
and mutexes of its objects with it. `Scheduler` and `Cluster` model the same loop
at two grains. `Scheduler` has every position of it among the goroutines of one
process; `Cluster` keeps the positions that another process can tell apart and
adds what only a shared queue brings.

`CronTrigger` extends `CronStateMachine`, which is the code, and `CronMeaning`,
which is the reference the code is checked against. The two have in common the
dates of `Calendar` and, from `CronParser`, the tokens and the numbers that stand for
names; `CronMeaning` has the bounds of the readme's table (years from 1970 on, without an
end) and uses no list or field that the parser makes.

The `map` of `PROJECT.json` names the lines each definition stands for.

## From the code to the model

**Generations.** Every successful `Start` begins a generation `g`: `loop[g]`,
`watcher[g]`, `done[g]` (its context) and the workers `<<g, 1>>, <<g, 2>>, ...`.
What belongs to the scheduler and not to a run is a single variable: `queue`,
`lock`, `interrupt`, `started`, `wg`. `gen` is the run `sched.cancel` belongs to.

**Steps.** A step of the model is a stretch of code in which no other goroutine
can observe or disturb anything. The positions between the steps:

| `call[c].pc` | the caller is |
|---|---|
| `push` | in `ScheduleJob`, with the run time computed and `queueLocker` not yet taken |
| `repush` | in `PauseJob` or `ResumeJob`, between `Remove` and `Push`, holding the lock |
| `notify` | past its change of the queue, before `IsStarted`, holding the lock |
| `reset` | past `IsStarted`, before the send to the channel, holding the lock |

| `loop[g].pc` | the loop is |
|---|---|
| `size`, `head` | before `queue.Size`, before `queue.Head` and the reset of the timer |
| `select` | waiting |
| `fetch` | past a tick, before `queueLocker.Lock` and `Pop` |
| `resched` | holding the lock and the popped job, before `validateJob` and `Push` |
| `dispatch`, `exec` | past the unlock with a due job; in a blocking execution |

The send of `Reset` and the deferred `Unlock` are one step: a goroutine that
sees the token between the two does nothing that it could not do after the
`Unlock`. `Start` and `Stop` are one step each because `sched.mtx` covers their
bodies and the goroutines that `Start` creates touch nothing of it before.

**Time.** `now` is the reading of `NowNano`, in abstract units, and ends at
`MaxTime`. A timer has a `deadline` (`MaxInt64` when it is stopped or set to the
maximum duration) and a `tick` that waits in `timer.C`. The `go` directive of
`go.mod` is 1.21, so `Stop` and `Reset` leave a tick in the channel; the model
does the same, and the timer may fire while its loop is anywhere. The time
between reading the clock in `calculateNextTick` and `timer.Reset` is taken as
zero: the real deadline is later than the modelled one by that delay.

**Jobs.** A `JobDetail` is a model value with a key and a constant `Replace`
flag; `suspended` is its mutable flag, which outlives the job's stay in the
queue as it does in the code. A trigger is a model value with a `Period`
(the interval or the delay). `lastFired` is a history variable and not part of
the code: the last run time for which a key's job was taken for execution, reset
when the key is scheduled anew.

**Executions.** In `Scheduler` an execution is a step that takes any finite time.
`Execution` opens it up: `exec[w].pc` is `call` before `Job.Execute`, `lock` before
the mutex of a `CurlJob`, `work` in the function, the command or the request,
`report` between the recording of the result and the return (the callback is
there), `wait` in the select between two attempts. `running` is the flag of
an isolated job; `mutex` that of a curl job, which is held during the request,
while a function or a shell job takes its own only to record the result, which is
one step here. `result[o]` names the worker whose status and result the object holds.
A panic ends the execution and lowers the flag (the `Store` is deferred); the mutex
of a curl job is not released by a defer, and `Lost` is the owner of one
whose holder has panicked. The outcome of the work is any of success, error and panic.

**The heap.** An operation of `jobQueue` holds `jq.mtx` from its first line to its
last. What `container/heap` does meanwhile is a loop: `up` moves an element towards the
root, `down` away from it. A round of a loop is a step (`Up`, `Down`), `loop` says
which loop is on and `at` how far it has come; `"idle"` means that the mutex is free, and
only then does an operation begin. `heap.Remove` swaps the element with the last one
(`leaving` is 1 from then on: the loops leave the last one alone), lets the other sink, lets it
rise if it did not sink (`from` tells), and drops the last one; a `Push` that replaces a
job goes on with `heap.Push` from there. The loops are external code, modelled from
their source in the standard library; `Less`, `Swap`, `Push` and `Pop` of
`priorityQueue` are the repository's. Callers see nothing of the loops, and the mapping
says so: `Contents` is the set of the elements without the one that leaves and with
the one that is pushed, `Result` what the operation under way is going to return. So
the first step of an operation is the step of `AbstractQueue`, and the rest stutters.

**Cluster.** `files` is a function from the run times that name files to the
scheduled jobs in them. A member of `Jobs` is what one call of `ScheduleJob` has put
into the queue: `Push` looks neither at the key nor at `Replace`, and neither does
the model's `ScheduleJob`, so that any number of jobs may have one key. It begins, as
the code does, by asking the trigger and only then takes the locker; `asked` is the
instant of the question.

`locker[p]` says whose `queueLocker` process `p` has. `Lockers` are the assignments to
be considered: one for all, or a `sync.Mutex{}` of each process's own, which is what the
example has (`file_system.go` 47). A process holds its locker from `Pop` to the end of
`fetchAndReschedule`, that is while its loop is at `found` or `resched`. `Pop` is two
steps. `FindJob` is a tick, the `Lock` and `findHead`, which reads the directory and the
file; `RemoveFound` is `os.Remove`, which removes the file of that name, whatever it
holds by then, and `RemoveFails` its error when another process was faster. With one
locker nothing comes between; without, everything may. The tick and the `Lock` are one
step: between the two a loop holds nothing and looks at nothing, and waiting at `select`
it is as able to let the others act. The other critical sections are single steps, the scan
of `Remove` among them, and `ReadDir` and `ReadFile` in `findHead`: a file that goes away
between these two is an error, which is there anyway (`FindFails`, `ReadFails`).

`Size` and `Head`, which are read without the lock, are
one step: what comes between them shows as an error (`ReadFails`, possible at any
time) or as a head that is no longer there, which any read can be. A stale tick is
possible at every select. `Crash` kills a process at any step; its locker is
taken to be released, as a shared one would be by its expiry. `Restart`
begins it anew, on the directory as it is. A crash, and the end of a stopped loop,
puts the other processes into `owed` until `Reset` is called on them by hand, as
the comment on `Reset` asks. `ObjectsOf` are the job objects that a process may
execute for a file: one, if its queue looks the job up, or any of many, if it makes
a new one on each `Pop` as the example's `unmarshal` does. An isolated job excludes
executions of one object only: with a queue that makes a new object each time it
isolates nothing, and the instance for TLC has one object for each process and key.

**Cron.** The tokens of an expression are records whose `is` says what the
parser tells apart by characters and regular expressions; literals are numbers or
names. A field's sorted slice is a set. `v[i]` is the value of node `i` and the
record `c` what a `CronStateMachine` never changes. As in the code, a day may
exceed its month and an hour its day in `v`: `time.Date` then decides which
instant is meant. Package `time` is external and its rules are in `Calendar` and in
`TimeOf` (a reading of the clock that the clocks skip, or show twice, goes by the
offset that is looked up first). A location has two offsets and the instants
between which the second is in force. Instants are seconds. `NextFireTime` is
one action with a disjunct for each of its three outcomes; a loop or a recursion
without a bound is a recursive function.

**Assumptions** (named in the modules, evaluated by TLC on every run):
`TriggerAssumption`: a simple trigger has a positive interval. `QueueAssumption`:
every `JobDetail` has a key. `SchedulerAssumption`: no run time reaches
`MaxInt64` except that of a suspended job (no overflow), and the identifiers of
callers and generations differ. `ExecutionAssumption` and `ClusterAssumption`:
special values are no worker or job, each worker has a process, objects belong to processes
and keys, intervals are positive, and no scheduled job is in two files of the directory that
the processes find (each file of it is a call of its own; the keys may be equal).
`PrioritiesAssumption`: run times are integers. `CalendarAssumption`: the epoch is a
year. `CasesAssumption`: an expression is a sequence of tokens of the kinds above. The guard `Free` says that an application gives
each job a `RunOnceTrigger` of its own, since its `Expired` field is not
synchronised. A call that returns an error and changes nothing is not a step.
Errors of a custom queue other than the documented ones are not modelled.

## Runs

`d1` may be replaced, `d1b` has the key of `d1` and may not, `d2` has another
key. All scheduler runs use three instants, `OutdatedThreshold = 0` (so that a
job is outdated one unit after its time) and one worker per run where there are
workers. Calls and `Start` begin before the last instant, so that the loop gets
to act on them. Deadlock is not checked there, because a behaviour may end: at the
horizon, stopped, with an empty queue. `CallsReturn` and `StopReleasesWait`
exclude the deadlocks that would matter. In `heap_queue` deadlock is checked: every
operation ends, and another can begin.

| run | instance | what it checks |
|---|---|---|
| `one_loop` | 1 caller, `d1` and `d2`, both kinds of trigger, 1 start | `TypeOK`, `OneJobPerKey`, `FireTimesIncrease`, `NeverEarly`, `NoMissedWakeup`, `ParkedIffSuspended`, `JobsLeaveOnlyOnRequest` |
| `two_callers` | 2 callers, `d1` and `d1b` on one key, 1 start | `OneJobPerKey`, `FireTimesIncrease`, `NoMissedWakeup`, `JobsLeaveOnlyOnRequest` |
| `every_mode` | 1 caller, 1 job, each of the three ways of execution, fairness | `WaitMeansQuiet`, `DueJobsAreHandled`, `CallsReturn`, `StopReleasesWait` |
| `restarts` | 1 caller, 1 job, 2 starts, blocking execution, a listener for misfired jobs | `OneJobPerKey`, `FireTimesIncrease`, `NeverEarly`, `WaitMeansQuiet` |
| `heap_queue` | 6 keys, 3 priorities, symmetric in the replaceable jobs | `HeapOrdered`, `ImplementsQueue` |
| `cron_next` | 111 expressions and the 5 predefined ones in UTC, from 1 to 42 starts each; 4 expressions in New York and Berlin around the changes of 2025; 14 wrong ones, 4 that only the parser takes and 6 that only the readme does | `TypeOK`, `FiresNext`, `ExpiresAtTheEnd`, `DepartsFromReadmeOnlySo` |
| `cluster` | process `p` with two workers and `q` with one, a locker for both or one each, two scheduled jobs of one key, an isolated curl job in `p` and a plain one in `q`, one crash, stop, deletion or late call | `ClusterTypeOK`, `DoubledOnlySo`, `RunTimesIncrease`, `LostOnlySo`, `SomeoneWillLook`, `MutualExclusion`, `FlagMeansInside`, `MutexMeansWork`, `OwnResult` |
| `stale_watcher`, `stolen_interrupt`, `overlapping_runs`, `resume_expired` | 2 starts, or 1 for the last | one property each, violated: see below |
| `cron_half_hourly` | one expression in New York | `ExpiresAtTheEnd`, violated: see below |

What the properties say:

* `OneJobPerKey`: the queue has one entry for a key; a job taken out by
  a call or a loop that will push it back is the only one in anybody's hands, and
  the queue has no entry under its key. So that `Push` cannot fail.
* `FireTimesIncrease`: the run time of a job is later than every run time it
  was executed for, whatever pauses, resumptions, misfires, stale ticks and
  restarts come in between: one firing, one execution.
* `NeverEarly`: a job handed to its execution has reached its run time. The
  timer does not guarantee it: the loop may wake on a stale tick, or fetch another
  job than the one it had seen.
* `NoMissedWakeup`: a waiting loop has a deadline no later than the first job, or
  else a token, a tick or a caller that is about to send is there to wake it.
  It is the invariant behind the loop's reads without the lock and the
  lossy channel. It needs a single run (see `stolen_interrupt`).
* `ParkedIffSuspended`: outside calls, a job is at `MaxInt64` exactly if it is
  suspended. Only for one caller: with two, `ScheduleJob` may push a run time it
  computed before another caller paused that very `JobDetail`, and the loop
  then parks the job when its time comes.
* `JobsLeaveOnlyOnRequest`: a job leaves the scheduler in a step of `DeleteJob`
  or `Clear`, or when its run-once trigger has expired, and in no other way.
* `WaitMeansQuiet`: the `WaitGroup` counts exactly the loops, the workers
  and the goroutines of jobs that are there.
* `DueJobsAreHandled`: in a run that goes on, a job that is due does not stay in
  the queue as it is. `CallsReturn`: every call returns. `StopReleasesWait`: when
  all contexts are done, the `WaitGroup` comes to zero.
* `HeapOrdered`, `ImplementsQueue`: heap order after every operation, and the
  contract of the interface, results and errors included.
* `FiresNext`: a fire time is later than the previous one, the expression names it,
  and it names no instant between the two. The definition looks at whole days and at the
  times of day, never at fields or nodes, so that a carry, a month length, a `W`
  or a `#` gone wrong shows.
* `ExpiresAtTheEnd`: `ErrTriggerExpired`, which makes the job leave the scheduler
  for good, comes only when the expression names nothing later.
* `DepartsFromReadmeOnlySo`: `NewCronTrigger` and the readme agree on which expressions
  there are, but for the departures that the property names (`Tolerated`, `Beyond`;
  [below](#what-the-parser-takes)). The run has expressions with each of them.
* `DoubledOnlySo`: what one call of `ScheduleJob` has put into the queue is in one file,
  or in the hands of one loop and in no file. It becomes two only without a shared locker,
  and only when a `Pop` returns a job that another process has taken already because a new
  file of the same name was there to remove. Under a shared locker the property is that it
  never happens.
* `RunTimesIncrease`: with a shared locker, no run time of a scheduled job is taken twice
  or out of order, by whichever process, through crashes, restarts, misfires and stale reads.
* `LostOnlySo`: a scheduled job leaves the cluster by a deletion, by the death of the
  process that held it between `Pop` and `Push`, or under a file of the same
  name. The second and the third are losses that the code accepts; with a shared locker
  there is no fourth. Without one, the file that a `Pop` removes may hold another job
  than the one it returns, and that other job is lost.
* `SomeoneWillLook`: while some process serves, there is for each file a loop that is
  on its way to the queue, has a token or is owed a `Reset`, or has a timer that ends
  at the file's time (or at the retry of a failed read). It is the safety form
  of "no job is forgotten", and what `Reset` by hand is needed for. A loop at `dispatch`
  counts as on its way, as it is unless all its workers wait for the mutex that a curl
  job has lost in a panic.
* `MutualExclusion`, `FlagMeansInside`: at most one goroutine is inside an isolated
  job, and its flag is up exactly while one is, whatever retries, panics and is stopped.
* `MutexMeansWork`: the mutex of a curl job is held exactly during its request,
  unless it was lost in a panic. `OwnResult`: the callback of an isolated job sees the
  result of its own execution.

Why the bounds are enough. Two runs are needed for everything that goes wrong
at a restart, and a third adds no new kind of sharing. With three instants a job
is scheduled, runs, is rescheduled, becomes due again, early or outdated.
Two keys give the loop a head that is not the job it will pop; two
callers and two `JobDetail`s on one key give every race on a key.
Six keys make `heap.Remove` move an element that has to rise, which needs two
branches of unlike priorities; with five it never happens.

`cluster` begins on a directory with one file, as an earlier run left it. It has period 1, threshold 0, retry interval 1, one retry and two instants:
a job is executed at the first, is due again at the second while its first
execution may still be on its way, in the same process or in the other, and is early
or outdated for a loop that comes late. `MaxEvents = 1` allows one crash, stop,
deletion or late call (a `ScheduleJob` that gets the locker at a later instant than that
at which it asked its trigger) in a behaviour; restarts and other schedulings are not
counted. Two scheduled jobs let a file be written over, and one be taken while the other
takes its name, which is what doubles and loses jobs without a shared locker. Two
workers in one process race on the isolated job, and the worker of the other
shows that a crash clears only the objects of its own process. Workers `w1` and
`w2` are symmetric. Two reductions keep the run small. `MCView` leaves out what no step
and no property of the instance depends on: a result that no callback is reading, the time
and the job of a loop that has pushed its job back and waits for a worker, the history of a
name that is not in use, and all of it without a shared locker, where `RunTimesIncrease`
says nothing. `MCBound` leaves out states in which executions of both processes
are in progress (they share no object, and a worker at a mutex does not count), and,
without a shared locker, those after an execution that fails: executions touch neither
files nor lockers.

`cron_next` begins each sequence at every start and asks for fire times until
the end of 2025, which takes in the leap day, two ends of year and every carry; an
expression that names another year ends in `expired`. `EpochYear = 2024` only
keeps instants within TLC's 32-bit integers. The expressions and the starts
are those for which the code does what its readme says; what was left out, and
why, is under [Cron expressions that do not fire
next](#cron-expressions-that-do-not-fire-next).

Every property of a passing run has a mutant in `PROJECT.json`: a definition
changed as a plausible bug would change it (a dropped guard, a reset that is
missing, a job overwritten where it stands in the heap), for which the run must fail. The
operators of the mutants stand before the definitions they replace.

## Fairness

`FairSpec` gives weak fairness to the steps that the Go runtime drives: time, the
timer, a loop, a worker, a watcher, a call once it has begun, and the return
of a job. Nothing is assumed of the application: it need not begin calls, stop,
cancel or receive from `MisfiredChan`. `SelectDone` has strong fairness: a select
chooses among the ready cases uniformly at random, so a loop that comes back to it
again and again with its context done takes that case in the end, although
it is not enabled continuously. Jobs are assumed to return; a job that blocks for
ever blocks a blocking scheduler by design. With time ending at `MaxTime`,
liveness is about the instants before it.

`Execution`, `Cluster` and `CronTrigger` have no fairness: what must eventually
happen there depends on crashes and on whoever calls `Reset`, which the code
does not control. `SomeoneWillLook` says instead that nothing is waited for in vain.

## Where code and documentation disagree

Five runs exhibit a behaviour that contradicts a comment of the code. Each is in
`PROJECT.json` under `findings` with the lines.

* `stale_watcher`: the watcher of a stopped run calls `Stop` late and ends the
  next run (`scheduler.go` 362).
* `stolen_interrupt`: the loop of a stopped run takes the interrupt meant for
  the next loop, which then sleeps past a due job (570).
* `overlapping_runs`: after `Stop` and `Start` two blocking executions overlap
  (646).
* `resume_expired`: `ResumeJob` of a paused run-once job removes it (500).

* `cron_half_hourly`: `0 0/30 * * * ?` in New York expires on the night in which
  summer time begins (`cron.go` 97). After 01:30 EST the first iteration finds 02:00
  and the second 02:30; neither exists, and `time.Date` takes them for 01:00 and 01:30
  EST, which are not later. The job is then dropped by the loop. So it is with
  every expression that names two or more times of the hour that is skipped.

The first three take a restart without waiting for the previous run to leave;
calling `Wait` between `Stop` and `Start` avoids the last two of them.

### Cron expressions that do not fire next

While `cron_next` was being written, `FiresNext` failed for the following, each of
which was traced to the line given. The run leaves them out; a change of the code
should take them in.

1. A day that some months lack, found from a start inside the month: `findForward`
   checks no date (`fn_find_forward.go`). `0 0 10 31 * ?` from 2024-01-31 23:00
   fires on 2024-03-02, the "31st of February"; likewise lists such as
   `5,31`, and the 31st in April.
2. A wildcard day with restricted months: `0 0 10 * 4 *` from 2024-04-30 23:00 fires
   on 2024-05-01.
3. The hour node goes up to 59 (`csm.go` 23): with a restricted day, `0 0 * 15 * ?`
   also fires on the 16th at 00:00.
4. `#5`: `getDayInMonth` does not reset the day when it skips a month
   (`day_node.go` 240-243). `2#5` from 2023-12-29 fires on 2024-04-29 and not
   in January; with restricted years or months the call may not return.
5. `15W` and `LW` asked on the day itself before the time of day skip that day.
6. `L-28` and above, in months that have not so many days.
7. Values that a list has against the readme ([below](#what-the-parser-takes)): the minutes
   of `1,99` reach 99, which `time.Date` takes for 39 minutes past the next hour, and from
   then on `Reset`, which looks for the first value past 59, does not find the 1 again.
8. Several weekdays with restricted months: `0 0 10 * 2,4 MON-FRI` from
   2025-02-28 10:00 fires on 2025-04-03 and not on 04-01.
9. Starts inside the first hour of summer time, and expressions that name several
   times of the hour that the clocks show twice: a reading counts as past although
   one of its instants is to come.

### What the parser takes

The readme has a table of the fields with the values and the characters that each
allows. `CronMeaning` says which tokens are well-formed by it (`WellFormed`), and
`DepartsFromReadmeOnlySo` where the parser departs from it.

It accepts more:

1. a plain value of a list that the field does not allow, such as `1,99` in the minutes or
   `0,32` in the days of the month: the plain values of a list are translated but not
   compared with the bounds (`cron.go` 355);
2. `?` in any field (`cron.go` 246-249), where the table has it for the two day fields.

It accepts less:

3. years after 3940, where the table says `1970-`, except as plain values of a list (237);
4. an increment greater than the greatest value of the field, such as `0/60` in the
   minutes (439); the table says nothing of increments;
5. `#` with more than 5, which no month has (342).

Everything else the two judge alike: this is checked on each kind of wrong expression and
proved for every expression.

### The shared directory

`DoubledOnlySo`, `LostOnlySo` and `RunTimesIncrease` name behaviours of the example worth
knowing. Two jobs with one run time share a file and one is lost, as do two
paused ones (`MaxInt64`). A process that dies, or stops, between taking a due job and
handing it to a worker skips that firing, and executions of different processes may begin
out of the order of their run times. The `queueLocker` of the example is a `sync.Mutex{}`
of the process (`file_system.go` 47): run by two processes at once on one directory, a `Pop`
of one interleaves with those of the other, jobs are doubled and lost, and a run time may be
taken twice. The mutex of the queue is the process's own as well. The test `Size() == 0` of
`main` (63) is made without any lock, so that two processes that begin at once may both
schedule `job1`, and `Push` writes both. Each is then a scheduled job of its own; that the
key is executed twice as often is not excluded by any property, because neither `Push` nor
a comment says that it should be.

## Theorems

For every number of callers, runs, workers, jobs, keys and triggers, every
horizon, period, priority and expression that satisfy the assumptions, and under the
hypotheses named in the last column:

| theorem | property | module | hypothesis |
|---|---|---|---|
| `TypeCorrect` | `TypeOK` | `SchedulerProofs` | |
| `OneJobPerKeyHolds` | `OneJobPerKey` | `SchedulerProofs` | |
| `NeverEarlyHolds` | `NeverEarly` | `FiringProofs` | |
| `FireTimesIncreaseHolds` | `FireTimesIncrease` | `FiringProofs` | |
| `JobsLeaveOnlyOnRequestHolds` | `JobsLeaveOnlyOnRequest` | `FiringProofs` | |
| `ParkedIffSuspendedHolds` | `ParkedIffSuspended` | `FiringProofs` | one caller |
| `WaitMeansQuietHolds` | `WaitMeansQuiet` | `WaitProofs` | |
| `NoMissedWakeupHolds` | `NoMissedWakeup` | `WaitProofs` | one `Start` |
| `HeapOrderedHolds` | `HeapOrdered` | `HeapQueueProofs` | |
| `ImplementsQueueHolds` | `ImplementsQueue` | `HeapQueueProofs` | |
| `DepartsFromReadmeOnlySoHolds` | `DepartsFromReadmeOnlySo` | `CronProofs` | |
| `ParsedFieldsMeanWhatTheyName` | the fields have the numbers that the expression names | `CronProofs` | an expression within the parser's bounds |
| `FiresNextHolds` | `FiresNext` | `CronProofs` | regular expressions in UTC |
| `NeverExpires` | `ExpiresAtTheEnd`, and no `ErrTriggerExpired` at all | `CronProofs` | regular expressions in UTC |
| `TypeOKHolds` | `TypeOK` | `CronProofs` | regular expressions in UTC |
| `IsolatedJobsExclude` | `MutualExclusion`, of `ExecSpec` | `ExecutionProofs` | |
| `IsolatedFlagIsExact` | `FlagMeansInside`, of `ExecSpec` | `ExecutionProofs` | |
| `ClusterTypes` | `ClusterTypeOK` | `ClusterProofs` | |
| `JobsAreDoubledOnlySo` | `DoubledOnlySo` | `ClusterProofs` | |
| `RunTimesAreTakenOnce` | `RunTimesIncrease` | `ClusterProofs` | |
| `JobsAreLostOnlySo` | `LostOnlySo` | `ClusterProofs` | |
| `NoFileIsForgotten` | `SomeoneWillLook` | `ClusterProofs` | |
| `IsolatedJobsExcludeInCluster` | `MutualExclusion` | `ClusterProofs` | |
| `IsolatedFlagIsExactInCluster` | `FlagMeansInside` | `ClusterProofs` | |
| `CurlMutexIsExactInCluster` | `MutexMeansWork` | `ClusterProofs` | |
| `IsolatedCallbacksSeeTheirResultInCluster` | `OwnResult` | `ClusterProofs` | |

The hypotheses are those without which the property is false: two callers can
leave a paused job with a run time, two runs share the interrupt channel (the run
`stolen_interrupt`), and outside the parser's bounds the list `1,99` has a value that no
minute has. The instances that check these properties satisfy them. `RunTimesIncrease`
has its condition, a shared locker, in its own statement.

An expression is *regular* (`Regular`) if it is within the parser's bounds, its months and years are
wildcards, each of its day fields is a wildcard or a token of plain values (a
value, a range, a step, a list of them), no 29th, 30th or 31st among the days, and it
restricts its hours if it restricts its days. Seconds, minutes and hours are whatever the
parser accepts. `0 0/5 * * * ?`, `0 30 9-17 ? * MON-FRI` and `0 0 10 1,15 * ?` are
regular, and so are 20 of the 148 cases of `cron_next`. Most of the conditions are there because `FiresNext` is false without
them: on the 29th to the 31st (number 1 of the list), on a wildcard day or several weekdays
with restricted months (2 and 8), on a restricted day with a wildcard hour (3), and in
locations whose clocks change (9). That years are wildcards, and that `L`, `W` and `#` are
left out altogether, is where the proof stops; TLC checks those. The other hypotheses are that
sequences start in year 0 or later and end before the last year of the nodes.

In `Scheduler` the inductive invariants are layered, each proved on top of the one before.

1. `TypeInv` adds `HandsFull` to `TypeOK`: whoever is about to push, judge or
   execute a job has one. Without it nothing is known of the run time of a job
   in hand.
2. `NotBegun`: a generation above `gen` has no loop and its context is not done.
   It is why `Start` disturbs no loop that holds a job.
3. `LockInv`: the caller or loop at a position inside a critical section is the
   holder of `queueLocker`, and nobody else is. `Base` is the three together.
   `QuietOrNot` then splits the steps once for all proofs: quiet ones, calls,
   `FetchJob` and the four outcomes of `validateJob`.
4. `KeysInv` states `OneJobPerKey` holder by holder. A removal leaves no entry
   under the key (`RemoveUnique`), a push keeps entries apart (`PushUnique`), and
   by `LockInv` nobody else has a job in hand when either happens.
5. `FiringInv` strengthens `FireTimesIncrease`: no job was executed for a
   run time in the future, and a run-once job that still has its trigger is
   parked and was never executed. The second part is what makes a delay of zero
   harmless: without it, resuming such a job at the instant it last ran, or taking
   it for execution with an unexpired trigger, would repeat a run time.

`NeverEarly` is inductive relative to `Base`.

`JobsLeaveOnlyOnRequest` speaks of keys that are in the queue or in somebody's hands
(`Present`). Each step is shown to keep them but for the steps it names; `KeysInv` is
what makes a push back succeed, and a job that is removed under one key leave alone
those under others. `ParkInv` extends `ParkedIffSuspended` to the jobs that calls and the
loop hold in the middle of a call; with one caller nobody else changes the flag meanwhile.

`WaitMeansQuiet` needs `NotHired`: the workers of a run that has not begun are off, so
that `Start` adds as many workers to the set as it adds to `wg`. The rest is
cardinalities: a step of a loop or a worker adds or removes one element of
`Running` or `Employed`. `NoMissedWakeup` is inductive relative to `KeysInv` and
`StopMeansDone` (a call that finds the scheduler stopped and sends no token leaves no
loop waiting that is not to exit): a call that changes the queue holds the lock until it has
sent, the loop that judges a job goes on to read the queue, and a loop that falls
asleep has set its timer for the head it has just read, or a caller holds the lock.

In `HeapQueue` the inductive invariant is `HeapInv`: types, no two elements with
one key, what an operation on its way has come from (`OnItsWay`), and
heap order with one exception, `InOrderButOne`. While an element rises,
`OrderedBelow` says that only it may precede its parent, and that its children are not
before its parent; while one sinks, `OrderedAbove` says the same of its
children. Each round moves the exception, and where a loop stops there is
none left. When `down` has not moved the element, its place is above its
children, and `up` may begin there: that is the case of `heap.Remove` that tests hardly
reach. That the root is least (`RootIsLeast`) takes induction on indices; it is done on
the least element of a set of numbers (`LeastNumber`, from `WFMin` of the library).
For `ImplementsQueue`, the rounds of the loops leave `Contents` and `Result` as
they are (`LoopsStutter`), and the first step of each operation is the abstract one:
a pop takes the root, a removal the element with the key, and `Contents` has as many
elements as the slice because no two have one key (`ElementsCount`).

In `CronProofs` the first argument follows the parser. For each kind of token the field is
in error exactly when the token is not one the parser takes (`Taken`, by the bounds of
`buildCronField`), and within the bounds (`TokenInBound`) its values are those that `CronMeaning` says the token selects (`RangeField`, `StepField`, `ListField`,
`DayOfMonthField`, `DayOfWeekField`). `BuiltFields` puts the seven together and `Judged`
carries the result through the states of a trigger: `NewCronTrigger` judges an
expression once, and `NextFireTime` does not change the judgement. A second argument compares
what the parser takes with the readme, literal by literal, span by span, item by item and
token by token (`LiteralsAgree` to `TokensAgree`): the five departures above make up
the difference, and nothing else.

`FiresNextHolds` has three parts. The calendar first: `MonthOf` finds the month of every
day, so that dates and days stand for each other (`MonthOfIs`, `DateOf`, `DayIs`). Then the
machine, for any lists in bounds (`Plain`). A recursive function says nothing to the
prover until it is shown which values it is defined on, so each is unfolded:
`overflowFrom` into the carries node by node (`OverflowFromIs`), from the top down, and the
loop of `next()` by induction on the days left in the month (`NextValidDateIs`). Each carry is
shown to do what it is for: to go to the first day allowed in the next month
(`Carry4Is`), to the next day (`Carry3Is`), the next hour (`Carry2Is`), the next minute
(`Carry1Is`), all below at their least. `FindForwardIs` puts them together by which node
is the topmost that is not valid, and `OutcomeIsNext` concludes that no reading of the
clock that the nodes allow lies between. The hour node, which counts to 59,
is why the theorem asks for hours: an hour past 23 is the midnight that follows
(`HourPastTheLast`), which is right when the next day is allowed. Last, the trigger:
the nodes of a regular expression allow what it names (`MachineIs`, from
`BuiltFields`), and the first iteration of `NextTriggerTime` is enough (`FirstIsRight`).

In `Execution` the invariant `IInv` is the four properties with the types and
`RetriesLeft` (whoever waits has a retry left, without which the counter could
pass `MaxRetries`). None of the four is inductive alone: mutual exclusion needs the
exact flag, which needs mutual exclusion when one worker lowers it.

In `Cluster` two invariants are proved side by side. `ExecInv` is `IInv` of
`Execution` with `OwnObjects` (a worker holds an object of its own process), which is
why forgetting a process disturbs no execution of another; the steps of workers
are cited from `ExecutionProofs`. `QueueInv` joins types and `HandsFull` (who
is at `found`, `resched` or `dispatch` has a job and its time), which hold with any lockers,
with four facts that need a shared one: `OneHolder` (one process holds the locker),
`FoundStays` (the file that a loop has found is still there, with the same job in it),
`Fresh` (a job in a file or in hand has a run time later than its
`lastFired`, and `lastFired` is not in the future) and `Placed` (a job is in one place).
`Fresh` gives `RunTimesIncrease`. `DoubledOnlySo` is proved step by step: with any lockers, the
only step that puts a job into a second place is a `RemoveFound` that finds another job in the
file, and by `FoundStays` that step does not exist under a shared locker.
`SomeoneWillLook` is inductive relative to `QueueInv`, with any lockers: a push is
followed by a token, the end of a process by debts, and a loop that goes to sleep
has just seen the least file. `LostOnlySo` is proved by going through the steps that
change `files` or a hand.

Only model-checked: of cron, the expressions that are not regular and the locations
other than UTC. For them `FiresNext` and `ExpiresAtTheEnd` hold from some starts and not from others
(see the [list above](#cron-expressions-that-do-not-fire-next)), so that a theorem would need the
starts in its hypothesis; and `getDayInMonth` is not defined everywhere (number 4). Also
everything about liveness (`DueJobsAreHandled`, `CallsReturn`, `StopReleasesWait`), which
is beyond the prover, and the five runs with a violation.

## What is not modelled

* A custom queue whose `Push` fails, so that the popped job is gone (line 757 of
  `scheduler.go`); `JobMetadata`, which only adds a value to a context; `GetJobKeys`
  and `GetScheduledJob`, which read under the lock.
* In `Cluster`: pausing and resuming, whose effects on one scheduler are in
  `Scheduler`, and whose file name collision is described above; `Clear` of the file
  queue, which removes the directory itself; failures of single writes.
* The characters inside a token of a cron expression; nanoseconds; more than two
  changes of a location's clocks; years beyond the range of an `int64` of
  nanoseconds (2262).
* HTTP requests and shell commands, which are I/O: what is left of them is that they
  succeed, fail or panic.
* Loggers, descriptions and wording of errors; the example programs apart from their
  use of the file queue; the string operators of the matchers.

## Plan

1. `FiresNextHolds` for expressions that restrict years or months with a single day,
   where the carry can run past the last year and the trigger expires; for `L`.
2. That `Cluster` with a single process does what `Scheduler` does to its queue, as a
   refinement.
