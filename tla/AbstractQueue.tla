--------------------------- MODULE AbstractQueue ----------------------------
(***************************************************************************)
(* What a JobQueue promises (the comments of the JobQueue interface,       *)
(* quartz/queue.go): a set of jobs with at most one job per key, from      *)
(* which Head and Pop take a job with the least priority. An operation is  *)
(* atomic; `op' is the latest one and `ret' is what it returned.           *)
(***************************************************************************)
EXTENDS JobQueue

CONSTANTS Priorities,   \* the run times jobs may have
          Selections    \* the sets of keys that matchers may select

Job == [detail: Details, priority: Priorities]

VARIABLES queue, op, ret

qvars == <<queue, op, ret>>

Return(err, jobs, n) == [err |-> err, jobs |-> jobs, n |-> n]
Ok(jobs) == Return("nil", jobs, 0)
Fail(err) == Return(err, {}, 0)

Init == queue = {} /\ op = <<"New">> /\ ret = Ok({})

PushJob(e) ==
    IF CanPush(queue, e)
    THEN queue' = Push(queue, e) /\ ret' = Ok({})
    ELSE ret' = Fail("ErrJobAlreadyExists") /\ UNCHANGED queue

PopJob ==
    IF queue = {}
    THEN ret' = Fail("ErrQueueEmpty") /\ UNCHANGED queue
    ELSE \E e \in Heads(queue) : queue' = queue \ {e} /\ ret' = Ok({e})

HeadJob ==
    /\ IF queue = {} THEN ret' = Fail("ErrQueueEmpty")
                     ELSE \E e \in Heads(queue) : ret' = Ok({e})
    /\ UNCHANGED queue

GetJob(k) ==
    /\ ret' = IF k \in Keys(queue) THEN Ok(WithKey(queue, k))
                                   ELSE Fail("ErrJobNotFound")
    /\ UNCHANGED queue

RemoveJob(k) ==
    /\ ret' = IF k \in Keys(queue) THEN Ok(WithKey(queue, k))
                                   ELSE Fail("ErrJobNotFound")
    /\ queue' = queue \ WithKey(queue, k)

\* Matchers are predicates on jobs, all of which must hold: here, that the
\* job's key belongs to a set.
ScheduledJobs(keys) ==
    /\ ret' = Ok({e \in queue : Key(e) \in keys})
    /\ UNCHANGED queue

QueueSize == ret' = Return("nil", {}, Cardinality(queue)) /\ UNCHANGED queue

ClearJobs == queue' = {} /\ ret' = Ok({})

Next ==
    \/ \E e \in Job : PushJob(e) /\ op' = <<"Push", e>>
    \/ PopJob /\ op' = <<"Pop">>
    \/ HeadJob /\ op' = <<"Head">>
    \/ \E k \in JobKeys : GetJob(k) /\ op' = <<"Get", k>>
    \/ \E k \in JobKeys : RemoveJob(k) /\ op' = <<"Remove", k>>
    \/ \E keys \in Selections : ScheduledJobs(keys) /\ op' = <<"ScheduledJobs", keys>>
    \/ QueueSize /\ op' = <<"Size">>
    \/ ClearJobs /\ op' = <<"Clear">>

Spec == Init /\ [][Next]_qvars

=============================================================================
