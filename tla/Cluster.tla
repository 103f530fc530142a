------------------------------ MODULE Cluster -------------------------------
(***************************************************************************)
(* Schedulers in several processes that share a job queue, the directory   *)
(* of FileQueue (README.md, "Distributed mode"; the comment on Reset,      *)
(* quartz/scheduler.go). Each process runs one execution loop and a pool   *)
(* of workers, the workers of Execution.                                   *)
(*                                                                         *)
(* The queueLocker given to WithQueue may be one for all processes, or a   *)
(* sync.Mutex of each process's own, as in the example: then Pop's reading *)
(* and removing of a file interleave with what other processes do.         *)
(*                                                                         *)
(* A member of Jobs is a scheduled job, what one call of ScheduleJob has   *)
(* put into the queue. Several may have the same key.                      *)
(*                                                                         *)
(* A process may be stopped, or die at any step and be started anew. The   *)
(* interrupt channel is the process's own: a change made by one scheduler  *)
(* wakes no other. Whoever runs the cluster calls Reset on the others when *)
(* a process has ended. Clocks of the processes agree.                     *)
(***************************************************************************)
EXTENDS Execution, FileQueue

CONSTANTS Processes,
          Host,               \* the process that each worker belongs to
          Lockers,            \* ways to give each process a queueLocker
          Jobs,               \* scheduled jobs; bound: how many are in use at once
          KeyOf,              \* the key of each
          Period,             \* interval of the jobs' SimpleTriggers
          OutdatedThreshold,  \* opts.OutdatedThreshold
          RetryInterval,      \* opts.RetryInterval of the schedulers
          InitialFiles,       \* the directory as an earlier run left it
          NoJob,              \* a loop that holds no job
          MaxTime,            \* bound: the last instant of a behaviour
          MaxEvents           \* bound: deletions, late calls, processes stopped or killed

Keys == {KeyOf[j] : j \in Jobs}

ClusterAssumption ==
    /\ Host \in [Workers -> Processes]
    /\ Lockers \subseteq [Processes -> Processes]
    /\ Objects \subseteq Processes \X Keys \X Nat
    /\ NoJob \notin Jobs
    /\ Period \in Nat \ {0} /\ OutdatedThreshold \in Nat
    /\ RetryInterval \in Nat \ {0} /\ MaxTime \in Nat \ {0} /\ MaxEvents \in Nat
    /\ DOMAIN InitialFiles \subseteq 1..MaxTime
    /\ \A t \in DOMAIN InitialFiles : InitialFiles[t] \in Jobs
    /\ \A t, u \in DOMAIN InitialFiles : InitialFiles[t] = InitialFiles[u] => t = u
ASSUME ClusterAssumption

VARIABLES
    locker,     \* whose queueLocker each process has; never changes
    now,        \* NowNano()
    files,      \* the directory
    loop,       \* each process's loop: pc, timer, run time and job it has read
    interrupt,  \* the processes whose interrupt channel holds a token
    owed,       \* the processes on which Reset has still to be called
    events,     \* those that MaxEvents bounds, so far
    lastFired   \* history: the run time at which a job was last taken to be executed

vars == <<execVars, locker, now, files, loop, interrupt, owed, events, lastFired>>

\* A timer that is not to expire before the last instant.
Never == MaxTime + 1

Times == 1..(MaxTime + Period)

LoopPCs == {"down", "read", "select", "found", "resched", "dispatch"}

Down == [pc |-> "down", deadline |-> Never, time |-> 0, job |-> NoJob]

ClusterTypeOK ==
    /\ ExecTypeOK
    /\ locker \in Lockers
    /\ now \in 1..MaxTime
    /\ DOMAIN files \subseteq Times /\ \A t \in DOMAIN files : files[t] \in Jobs
    /\ loop \in [Processes -> [pc: LoopPCs, deadline: 1..Never,
                               time: Times \cup {0}, job: Jobs \cup {NoJob}]]
    /\ interrupt \subseteq Processes /\ owed \subseteq Processes
    /\ events \in 0..MaxEvents
    /\ lastFired \in [Jobs -> Times \cup {0}]

WorkersOf(p) == {w \in Workers : Host[w] = p}

\* What a process may execute for a job: the object it knows, if the queue
\* looks it up, or one of many, if the queue makes a new one of a file.
ObjectsOf(p, j) == {o \in Objects : o[1] = p /\ o[2] = KeyOf[j]}

At(p, pc) == loop[p].pc = pc
GoOn(p, pc) == loop' = [loop EXCEPT ![p] = [Down EXCEPT !.pc = pc]]

\* timer.Reset. A timer that the loop does not wait for is left out.
Arm(p, at) == loop' = [loop EXCEPT ![p].pc = "select",
                                   ![p].deadline = IF at <= MaxTime THEN at ELSE Never]

\* A time that has passed is now; what fails is retried, and not after the
\* last instant.
NotBefore(t) == IF t > now THEN t ELSE now
RetryAfter(t) == IF t + RetryInterval <= MaxTime THEN t + RetryInterval ELSE MaxTime

\* A process holds its queueLocker from Pop to the end of fetchAndReschedule.
\* The other critical sections are single steps.
Holds(p) == loop[p].pc \in {"found", "resched"}

\* Mutant of LockerFree: Pop looks for the head before it takes the locker.
LockerFreeToLook(p) == \A q \in Processes : locker[q] = locker[p] => ~At(q, "resched")

LockerFree(p) == \A q \in Processes : locker[q] = locker[p] => ~Holds(q)

Stopped(p) == WorkersOf(p) \subseteq cancelled

QueueUnchanged == UNCHANGED <<files, lastFired>>
OthersUnchanged == UNCHANGED <<locker, now, owed, events>>

Tick ==
    /\ now < MaxTime
    /\ now' = now + 1
    /\ QueueUnchanged
    /\ UNCHANGED <<execVars, locker, loop, interrupt, owed, events>>

(***************************************************************************)
(* The execution loop.                                                     *)
(***************************************************************************)
\* Size and Head, which do not take queueLocker. Size counts the files, and
\* findHead reads the directory and then a file: another process may have
\* removed the file, or the last one, and an error is retried after
\* RetryInterval (or at the last instant).
ReadQueue(p) ==
    /\ At(p, "read")
    /\ \/ Size(files) = 0 /\ Arm(p, Never)
       \/ \E t \in HeadTimes(files) : Arm(p, NotBefore(t))
    /\ QueueUnchanged /\ OthersUnchanged
    /\ UNCHANGED <<execVars, interrupt>>

ReadFails(p) ==
    /\ At(p, "read")
    /\ Arm(p, RetryAfter(now))
    /\ QueueUnchanged /\ OthersUnchanged
    /\ UNCHANGED <<execVars, interrupt>>

SelectInterrupt(p) ==
    /\ At(p, "select") /\ p \in interrupt
    /\ interrupt' = interrupt \ {p}
    /\ GoOn(p, "read")
    /\ QueueUnchanged /\ OthersUnchanged
    /\ UNCHANGED execVars

\* A process ends, and whoever runs the cluster wakes the others.
EndProcess(p) ==
    /\ loop' = [loop EXCEPT ![p] = Down]
    /\ interrupt' = interrupt \ {p}
    /\ owed' = {q \in Processes \ {p} : ~At(q, "down")}

SelectDone(p) ==
    /\ At(p, "select") /\ Stopped(p)
    /\ EndProcess(p)
    /\ QueueUnchanged
    /\ UNCHANGED <<execVars, locker, now, events>>

\* The timer ticks, fetchAndReschedule takes queueLocker, and Pop looks for
\* the head (ReadDir and ReadFile are one step). The timer's channel is not
\* drained (go 1.21): a tick of an earlier deadline may wake the loop at any
\* time.
FindJob(p) ==
    /\ At(p, "select") /\ LockerFree(p)
    /\ \E t \in HeadTimes(files) :
          loop' = [loop EXCEPT ![p].pc = "found", ![p].time = t, ![p].job = files[t]]
    /\ QueueUnchanged /\ OthersUnchanged
    /\ UNCHANGED <<execVars, interrupt>>

\* There is no head, or it went away before it could be read.
FindFails(p) ==
    /\ At(p, "select") /\ LockerFree(p)
    /\ GoOn(p, "read")
    /\ QueueUnchanged /\ OthersUnchanged
    /\ UNCHANGED <<execVars, interrupt>>

\* Pop removes the file of that name, whatever it holds by now.
RemoveFound(p) ==
    /\ At(p, "found") /\ loop[p].time \in DOMAIN files
    /\ files' = Without(files, loop[p].time)
    /\ loop' = [loop EXCEPT ![p].pc = "resched"]
    /\ OthersUnchanged
    /\ UNCHANGED <<execVars, interrupt, lastFired>>

\* Another process has removed it.
RemoveFails(p) ==
    /\ At(p, "found") /\ loop[p].time \notin DOMAIN files
    /\ GoOn(p, "read")
    /\ QueueUnchanged /\ OthersUnchanged
    /\ UNCHANGED <<execVars, interrupt>>

\* Mutant of PutBack: only a job that is to be executed is pushed back.
PutBackFired(p, time, pc) ==
    /\ files' = IF pc = "dispatch" THEN Push(files, time, loop[p].job) ELSE files
    /\ interrupt' = interrupt \cup {p}
    /\ IF pc = "dispatch" THEN loop' = [loop EXCEPT ![p].pc = pc] ELSE GoOn(p, pc)
    /\ OthersUnchanged
    /\ UNCHANGED execVars

\* Push, Reset and the release of queueLocker.
PutBack(p, time, pc) ==
    /\ files' = Push(files, time, loop[p].job)
    /\ interrupt' = interrupt \cup {p}
    /\ IF pc = "dispatch" THEN loop' = [loop EXCEPT ![p].pc = pc] ELSE GoOn(p, pc)
    /\ OthersUnchanged
    /\ UNCHANGED execVars

SkipOutdated(p) ==
    /\ At(p, "resched") /\ loop[p].time < now - OutdatedThreshold
    /\ PutBack(p, now + Period, "read")
    /\ UNCHANGED lastFired

PutBackEarly(p) ==
    /\ At(p, "resched") /\ loop[p].time > now
    /\ PutBack(p, loop[p].time, "read")
    /\ UNCHANGED lastFired

\* Mutant of TakeDue: the next run time is the job's own.
TakeDueAgain(p) ==
    /\ At(p, "resched") /\ loop[p].time \in (now - OutdatedThreshold)..now
    /\ PutBack(p, loop[p].time, "dispatch")
    /\ lastFired' = [lastFired EXCEPT ![loop[p].job] = loop[p].time]

TakeDue(p) ==
    /\ At(p, "resched") /\ loop[p].time \in (now - OutdatedThreshold)..now
    /\ PutBack(p, loop[p].time + Period, "dispatch")
    /\ lastFired' = [lastFired EXCEPT ![loop[p].job] = loop[p].time]

\* A worker of the process receives the job.
Dispatch(p) ==
    /\ At(p, "dispatch")
    /\ \E w \in WorkersOf(p), o \in ObjectsOf(p, loop[p].job) : Begin(w, o)
    /\ GoOn(p, "read")
    /\ QueueUnchanged /\ OthersUnchanged
    /\ UNCHANGED interrupt

\* No worker takes the job before the scheduler is stopped. The loop goes on
\* to its select and may still fetch jobs there.
DispatchCancelled(p) ==
    /\ At(p, "dispatch") /\ Stopped(p)
    /\ GoOn(p, "read")
    /\ QueueUnchanged /\ OthersUnchanged
    /\ UNCHANGED <<execVars, interrupt>>

LoopStep(p) ==
    \/ ReadQueue(p) \/ ReadFails(p)
    \/ SelectInterrupt(p) \/ SelectDone(p)
    \/ FindJob(p) \/ FindFails(p) \/ RemoveFound(p) \/ RemoveFails(p)
    \/ SkipOutdated(p) \/ PutBackEarly(p) \/ TakeDue(p)
    \/ Dispatch(p) \/ DispatchCancelled(p)

(***************************************************************************)
(* The application and those who run it.                                   *)
(***************************************************************************)
Serving(p) == ~At(p, "down") /\ ~Stopped(p)

InHand(p, j) == At(p, "resched") /\ loop[p].job = j
Present(j) == HasJob(files, j) \/ \E p \in Processes : InHand(p, j)

\* A name for the next scheduled job of a key; it does not enable the call.
Unused(j) == ~HasJob(files, j) /\ \A p \in Processes : Holds(p) => loop[p].job # j

CountIf(counted) ==
    /\ counted => events < MaxEvents
    /\ events' = IF counted THEN events + 1 ELSE events

\* Mutant of ScheduleJob: without Reset.
ScheduleSilently(p, key) ==
    /\ Serving(p) /\ LockerFree(p)
    /\ \E j \in {k \in Jobs : KeyOf[k] = key /\ Unused(k)}, asked \in 1..now :
          /\ CountIf(asked < now)
          /\ files' = Push(files, asked + Period, j)
          /\ lastFired' = [lastFired EXCEPT ![j] = 0]
    /\ UNCHANGED <<execVars, locker, now, loop, interrupt, owed>>

\* ScheduleJob. The trigger was asked for the run time before the locker was
\* taken. That the queue has a job of this key already does not matter.
ScheduleJob(p, key) ==
    /\ Serving(p) /\ LockerFree(p)
    /\ \E j \in {k \in Jobs : KeyOf[k] = key /\ Unused(k)}, asked \in 1..now :
          /\ CountIf(asked < now)
          /\ files' = Push(files, asked + Period, j)
          /\ lastFired' = [lastFired EXCEPT ![j] = 0]
    /\ interrupt' = interrupt \cup {p}
    /\ UNCHANGED <<execVars, locker, now, loop, owed>>

\* DeleteJob, of some job with the key (the scan of Remove is one step).
DeleteJob(p, key) ==
    /\ Serving(p) /\ LockerFree(p) /\ events < MaxEvents
    /\ \E t \in DOMAIN files : KeyOf[files[t]] = key /\ files' = Without(files, t)
    /\ interrupt' = interrupt \cup {p}
    /\ events' = events + 1
    /\ UNCHANGED <<execVars, locker, now, loop, owed, lastFired>>

Stop(p) ==
    /\ Serving(p) /\ events < MaxEvents
    /\ Cancel(WorkersOf(p))
    /\ events' = events + 1
    /\ QueueUnchanged
    /\ UNCHANGED <<locker, now, loop, interrupt, owed>>

\* The executions and objects of a process vanish with it.
ForgetProcess(p) ==
    /\ exec' = [w \in Workers |-> IF Host[w] = p THEN Idle ELSE exec[w]]
    /\ running' = [o \in Objects |-> o[1] # p /\ running[o]]
    /\ mutex' = [o \in Objects |-> IF o[1] = p THEN Nobody ELSE mutex[o]]
    /\ result' = [o \in Objects |-> IF o[1] = p THEN Nobody ELSE result[o]]
    /\ cancelled' = cancelled \ WorkersOf(p)

\* The process dies; a shared locker is released by its expiry.
Crash(p) ==
    /\ ~At(p, "down") /\ events < MaxEvents
    /\ ForgetProcess(p)
    /\ EndProcess(p)
    /\ events' = events + 1
    /\ QueueUnchanged
    /\ UNCHANGED <<locker, now>>

Restart(p) ==
    /\ At(p, "down") /\ \A w \in WorkersOf(p) : exec[w].pc = "idle"
    /\ ForgetProcess(p)
    /\ loop' = [loop EXCEPT ![p].pc = "read"]
    /\ QueueUnchanged /\ OthersUnchanged
    /\ UNCHANGED interrupt

\* Reset, called by hand.
Reset(p) ==
    /\ p \in owed
    /\ owed' = owed \ {p}
    /\ interrupt' = interrupt \cup {p}
    /\ QueueUnchanged
    /\ UNCHANGED <<execVars, locker, now, loop, events>>

\* A step of a worker does not wait for any scheduler.
Execute(w) ==
    /\ WorkerStep(w)
    /\ UNCHANGED <<locker, now, files, loop, interrupt, owed, events, lastFired>>

Init ==
    /\ ExecInit
    /\ locker \in Lockers
    /\ now = 1
    /\ files = InitialFiles
    /\ loop = [p \in Processes |-> [Down EXCEPT !.pc = "read"]]
    /\ interrupt = {} /\ owed = {} /\ events = 0
    /\ lastFired = [j \in Jobs |-> 0]

Next ==
    \/ Tick
    \/ \E p \in Processes :
          \/ LoopStep(p)
          \/ \E key \in Keys : ScheduleJob(p, key) \/ DeleteJob(p, key)
          \/ Stop(p) \/ Crash(p) \/ Restart(p) \/ Reset(p)
    \/ \E w \in Workers : Execute(w)

Spec == Init /\ [][Next]_vars

(***************************************************************************)
(* Properties.                                                             *)
(***************************************************************************)
\* The processes share a queueLocker, which the example's do not.
OneLocker == \A p, q \in Processes : locker[p] = locker[q]

\* A scheduled job is in one file, or in the hands of one loop and in no file.
InOnePlace(j) ==
    /\ \A t, u \in DOMAIN files : files[t] = j /\ files[u] = j => t = u
    /\ \A p, q \in Processes : InHand(p, j) /\ InHand(q, j) => p = q
    /\ \A p \in Processes : InHand(p, j) => ~HasJob(files, j)

\* Pop returns a job, and the file that it removes holds another by then.
RemovesAnother(p) ==
    At(p, "found") /\ At(p, "resched")' /\ files[loop[p].time] # loop[p].job

\* What one call of ScheduleJob has put into the queue is never in two
\* places, through the races of several processes for one file, crashes and
\* misfires. Only without a shared locker does it become two: Pop returns a
\* job that another process has taken already, and removes a file that has
\* been written under the same name since.
DoubledOnlySo ==
    [][\A j \in Jobs : InOnePlace(j) /\ ~InOnePlace(j)' =>
          ~OneLocker /\ \E p \in Processes : RemovesAnother(p) /\ loop[p].job = j]_vars

\* With a shared locker no run time of a scheduled job is taken twice, or
\* after a later one, by whichever process, through crashes, restarts,
\* deletions and misfires.
RunTimesIncrease ==
    [][OneLocker => \A p \in Processes :
          At(p, "resched") /\ At(p, "dispatch")' => loop[p].time > lastFired[loop[p].job]]_vars

\* A scheduled job leaves the cluster only by a deletion, by the death of the
\* process that was rescheduling it, or under a file written for the same
\* instant. With a shared locker there is no fourth way; without, the file
\* that Pop removes may hold another job than the one that it returns.
LostOnlySo ==
    [][\A j \in Jobs : Present(j) /\ ~Present(j)' =>
          \/ \E p \in Processes : DeleteJob(p, KeyOf[j])
          \/ \E p \in Processes : InHand(p, j) /\ At(p, "down")'
          \/ \E t \in DOMAIN files \cap DOMAIN files' : files[t] = j /\ files'[t] # j
          \/ ~OneLocker /\ \E p \in Processes :
                RemovesAnother(p) /\ files[loop[p].time] = j]_vars

\* While some process serves, a file is never forgotten: some loop is about
\* to read the queue, will be woken in time, or has just failed to read it.
\* A change sends its interrupt in one process only, and those who do not
\* know of it may wait for ever if that process dies, until Reset is called.
SomeoneWillLook ==
    (\E p \in Processes : Serving(p)) =>
        \A t \in DOMAIN files : t <= MaxTime =>
            \E p \in Processes :
                \/ loop[p].pc \in {"read", "found", "resched", "dispatch"}
                \/ p \in interrupt \cup owed
                \/ loop[p].deadline <= RetryAfter(NotBefore(t))

=============================================================================
