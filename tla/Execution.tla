----------------------------- MODULE Execution ------------------------------
(***************************************************************************)
(* Executions of jobs: executeWithRetries (quartz/scheduler.go) with the   *)
(* jobs of package job that it calls. A worker is a goroutine that runs    *)
(* one execution at a time; a job object may be executed by several at     *)
(* once, unless it is an isolatedJob.                                      *)
(*                                                                         *)
(* Function and shell jobs take their mutex to record a result, when the   *)
(* work is done; a curl job holds it during the request. All release it    *)
(* before the callback. The isolated job's flag is raised by the wrapper   *)
(* before the work and lowered by a deferred Store after the callback, on  *)
(* a panic too; the curl job's mutex is not released by a panic.           *)
(***************************************************************************)
EXTENDS Integers

CONSTANTS Workers,      \* goroutines that execute jobs
          Objects,      \* job objects
          Isolated,     \* those wrapped by NewIsolatedJob
          Curl,         \* those that are (or wrap) a CurlJob
          MaxRetries,   \* opts.MaxRetries
          Nobody,       \* a free mutex, an object without a result, no object
          Lost          \* owner of a mutex that no goroutine will release

ExecutionAssumption ==
    /\ Isolated \subseteq Objects
    /\ Curl \subseteq Objects
    /\ MaxRetries \in Nat
    /\ Nobody \notin Objects \cup Workers
    /\ Lost \notin Workers \cup {Nobody}
ASSUME ExecutionAssumption

VARIABLES
    exec,       \* what each worker does: pc, object, retries so far, err = nil
    running,    \* isRunning of every object
    mutex,      \* mtx of every curl job
    result,     \* whose status and result an object holds
    cancelled   \* the workers whose context is done

execVars == <<exec, running, mutex, result, cancelled>>

PCs == {"idle", "call", "lock", "work", "report", "wait"}

Idle == [pc |-> "idle", object |-> Nobody, retry |-> 0, ok |-> FALSE]

ExecTypeOK ==
    /\ exec \in [Workers -> [pc: PCs, object: Objects \cup {Nobody},
                             retry: 0..MaxRetries, ok: BOOLEAN]]
    /\ running \in [Objects -> BOOLEAN]
    /\ mutex \in [Objects -> Workers \cup {Nobody, Lost}]
    /\ result \in [Objects -> Workers \cup {Nobody}]
    /\ cancelled \subseteq Workers
    /\ \A w \in Workers : exec[w].object = Nobody <=> exec[w].pc = "idle"

ExecInit ==
    /\ exec = [w \in Workers |-> Idle]
    /\ running = [o \in Objects |-> FALSE]
    /\ mutex = [o \in Objects |-> Nobody]
    /\ result = [o \in Objects |-> Nobody]
    /\ cancelled = {}

\* executeWithRetries begins.
Begin(w, o) ==
    /\ exec[w].pc = "idle"
    /\ exec' = [exec EXCEPT ![w] = [Idle EXCEPT !.pc = "call", !.object = o]]
    /\ UNCHANGED <<running, mutex, result, cancelled>>

Object(w) == exec[w].object

\* Mutant of AfterError: one retry too many.
AfterErrorOnceMore(w) ==
    exec' = [exec EXCEPT ![w] = IF @.retry <= MaxRetries
                                THEN [@ EXCEPT !.pc = "wait"] ELSE Idle]

\* After an error: wait for RetryInterval, unless the retries are used up.
AfterError(w) ==
    exec' = [exec EXCEPT ![w] = IF @.retry < MaxRetries
                                THEN [@ EXCEPT !.pc = "wait"] ELSE Idle]

\* The isolated job's deferred Store(false).
Lower(w) == running' = [running EXCEPT ![Object(w)] = FALSE]

\* Mutant of Enter: the flag is written and not looked at.
EnterAnyway(w) ==
    /\ exec[w].pc = "call"
    /\ running' = [running EXCEPT ![Object(w)] = Object(w) \in Isolated]
    /\ exec' = [exec EXCEPT ![w].pc = IF Object(w) \in Curl THEN "lock" ELSE "work"]
    /\ UNCHANGED <<mutex, result, cancelled>>

\* isRunning.Swap(true) finds it false, or the job is not isolated.
Enter(w) ==
    /\ exec[w].pc = "call"
    /\ ~running[Object(w)]
    /\ running' = [running EXCEPT ![Object(w)] = Object(w) \in Isolated]
    /\ exec' = [exec EXCEPT ![w].pc = IF Object(w) \in Curl THEN "lock" ELSE "work"]
    /\ UNCHANGED <<mutex, result, cancelled>>

\* "job is running": an error like any other, which is retried.
Refuse(w) ==
    /\ exec[w].pc = "call"
    /\ running[Object(w)]
    /\ AfterError(w)
    /\ UNCHANGED <<running, mutex, result, cancelled>>

\* A curl job takes its mutex and sends its request.
Acquire(w) ==
    /\ exec[w].pc = "lock"
    /\ mutex[Object(w)] = Nobody
    /\ mutex' = [mutex EXCEPT ![Object(w)] = w]
    /\ exec' = [exec EXCEPT ![w].pc = "work"]
    /\ UNCHANGED <<running, result, cancelled>>

\* Mutant of Record: an error returns before the mutex is released.
RecordLocked(w, ok) ==
    /\ exec[w].pc = "work"
    /\ result' = [result EXCEPT ![Object(w)] = w]
    /\ mutex' = [mutex EXCEPT ![Object(w)] = IF ok THEN Nobody ELSE @]
    /\ exec' = [exec EXCEPT ![w] = [@ EXCEPT !.pc = "report", !.ok = ok]]
    /\ UNCHANGED <<running, cancelled>>

\* The work returns, its result is recorded and the mutex is released.
Record(w, ok) ==
    /\ exec[w].pc = "work"
    /\ result' = [result EXCEPT ![Object(w)] = w]
    /\ mutex' = [mutex EXCEPT ![Object(w)] = Nobody]
    /\ exec' = [exec EXCEPT ![w] = [@ EXCEPT !.pc = "report", !.ok = ok]]
    /\ UNCHANGED <<running, cancelled>>

\* The work panics: executeWithRetries recovers and ends.
PanicInWork(w) ==
    /\ exec[w].pc = "work"
    /\ Lower(w)
    /\ mutex' = [mutex EXCEPT ![Object(w)] = IF Object(w) \in Curl THEN Lost ELSE @]
    /\ exec' = [exec EXCEPT ![w] = Idle]
    /\ UNCHANGED <<result, cancelled>>

PanicInCallback(w) ==
    /\ exec[w].pc = "report"
    /\ Lower(w)
    /\ exec' = [exec EXCEPT ![w] = Idle]
    /\ UNCHANGED <<mutex, result, cancelled>>

\* Mutant of Return: the flag is lowered after a success only.
ReturnRaised(w) ==
    /\ exec[w].pc = "report"
    /\ IF exec[w].ok THEN Lower(w) /\ exec' = [exec EXCEPT ![w] = Idle]
                     ELSE UNCHANGED running /\ AfterError(w)
    /\ UNCHANGED <<mutex, result, cancelled>>

\* The callback has returned, and so does Execute.
Return(w) ==
    /\ exec[w].pc = "report"
    /\ Lower(w)
    /\ IF exec[w].ok THEN exec' = [exec EXCEPT ![w] = Idle] ELSE AfterError(w)
    /\ UNCHANGED <<mutex, result, cancelled>>

\* The select of the retry loop: either case, if both are ready.
Retry(w) ==
    /\ exec[w].pc = "wait"
    /\ exec' = [exec EXCEPT ![w].pc = "call", ![w].retry = @ + 1]
    /\ UNCHANGED <<running, mutex, result, cancelled>>

GiveUp(w) ==
    /\ exec[w].pc = "wait" /\ w \in cancelled
    /\ exec' = [exec EXCEPT ![w] = Idle]
    /\ UNCHANGED <<running, mutex, result, cancelled>>

\* The context of some executions ends: their scheduler is stopped.
Cancel(ws) ==
    /\ cancelled' = cancelled \cup ws
    /\ UNCHANGED <<exec, running, mutex, result>>

WorkerStep(w) ==
    \/ Enter(w) \/ Refuse(w) \/ Acquire(w)
    \/ \E ok \in BOOLEAN : Record(w, ok)
    \/ PanicInWork(w) \/ PanicInCallback(w)
    \/ Return(w)
    \/ Retry(w) \/ GiveUp(w)

ExecNext ==
    \/ \E w \in Workers, o \in Objects : Begin(w, o)
    \/ \E w \in Workers : WorkerStep(w)
    \/ \E ws \in SUBSET Workers : Cancel(ws)

ExecSpec == ExecInit /\ [][ExecNext]_execVars

(***************************************************************************)
(* Properties.                                                             *)
(***************************************************************************)
Inside(w) == exec[w].pc \in {"lock", "work", "report"}

\* NewIsolatedJob: "ensures that only one instance of the job's Execute
\* method can be called at a time". At most one worker is inside an isolated
\* job, whichever of the others retries, panics or is stopped.
MutualExclusion ==
    \A v, w \in Workers :
        Inside(v) /\ Inside(w) /\ Object(v) = Object(w) /\ Object(v) \in Isolated => v = w

\* The flag of an isolated job is up exactly while a worker is inside: one
\* left up by an error or a panic would refuse every later execution.
FlagMeansInside ==
    \A o \in Objects :
        running[o] <=> o \in Isolated /\ \E w \in Workers : Inside(w) /\ Object(w) = o

\* A curl job's mutex is held exactly during its request, unless a panic of
\* the HTTP client has left it locked for ever.
MutexMeansWork ==
    \A o \in Curl, w \in Workers :
        mutex[o] = w <=> exec[w].pc = "work" /\ Object(w) = o

\* The callback of an isolated job reads the result of its own execution.
\* Without isolation another execution may have replaced it.
OwnResult ==
    \A w \in Workers :
        exec[w].pc = "report" /\ Object(w) \in Isolated => result[Object(w)] = w

=============================================================================
