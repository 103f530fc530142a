----------------------------- MODULE HeapQueue ------------------------------
(***************************************************************************)
(* jobQueue (quartz/queue.go): the slice `delegate' kept in heap order by  *)
(* container/heap. Indices count from 1, so the parent of j is j \div 2.   *)
(* Every operation holds jq.mtx from its first line to its last. What      *)
(* container/heap does meanwhile is a loop, up or down the tree, whose     *)
(* rounds are steps of this module: no operation begins before the loop    *)
(* has ended. It implements AbstractQueue with the set of the slice's      *)
(* elements as its queue.                                                  *)
(***************************************************************************)
EXTENDS JobQueue, SequencesExt

CONSTANTS Priorities,   \* the run times jobs may have
          Selections    \* the sets of keys that matchers may select

ASSUME PrioritiesAssumption == Priorities \subseteq Int

Job == [detail: Details, priority: Priorities]

VARIABLES delegate,
          op, ret,   \* the latest operation and what it returned
          loop,      \* "up", "down", "out" (about to drop the last element)
                     \* or "idle" (jq.mtx is free)
          at,        \* the index the loop has come to
          from,      \* where the loop of down started
          leaving    \* 1 while the last element waits to be dropped, else 0

loopvars == <<loop, at, from, leaving>>
hvars == <<delegate, op, ret, loopvars>>

Return(err, jobs, n) == [err |-> err, jobs |-> jobs, n |-> n]
Ok(jobs) == Return("nil", jobs, 0)
Fail(err) == Return(err, {}, 0)
Pending == Return("pending", {}, 0)   \* the operation is on its way

-----------------------------------------------------------------------------
(* container/heap over priorityQueue's Len, Less, Swap, Push and Pop.      *)

\* Mutant of Less: the latest job first.
More(h, i, j) == h[i].priority > h[j].priority
Less(h, i, j) == h[i].priority < h[j].priority

Swap(h, i, j) == [h EXCEPT ![i] = h[j], ![j] = h[i]]

Parent(j) == j \div 2

\* The elements that count as the heap are the first of the slice.
heapSize == Len(delegate) - leaving

FirstChild(i) ==
    IF 2 * i < heapSize /\ Less(delegate, 2 * i + 1, 2 * i) THEN 2 * i + 1 ELSE 2 * i

\* heap.Push: the element goes to the end and moves up.
HeapPush(h, e) ==
    /\ delegate' = Append(h, e)
    /\ loop' = "up" /\ at' = Len(h) + 1 /\ from' = 0 /\ leaving' = 0
    /\ ret' = Pending

\* heap.Remove: the last element takes the place of element i. It moves down,
\* or up if it cannot.
HeapRemove(i) ==
    /\ delegate' = Swap(delegate, i, Len(delegate))
    /\ loop' = IF i = Len(delegate) THEN "out" ELSE "down"
    /\ at' = i /\ from' = i /\ leaving' = 1
    /\ ret' = Pending

\* heap.Pop.
HeapPop == HeapRemove(1)

Rises == at > 1 /\ Less(delegate, at, Parent(at))
Sinks == 2 * at <= heapSize /\ Less(delegate, FirstChild(at), at)

\* A round of up, and of down.
Up ==
    /\ loop = "up" /\ Rises
    /\ delegate' = Swap(delegate, at, Parent(at))
    /\ at' = Parent(at)
    /\ UNCHANGED <<op, ret, loop, from, leaving>>

Down ==
    /\ loop = "down" /\ Sinks
    /\ delegate' = Swap(delegate, at, FirstChild(at))
    /\ at' = FirstChild(at)
    /\ UNCHANGED <<op, ret, loop, from, leaving>>

Finish(r) == ret' = r /\ loop' = "idle" /\ at' = 0 /\ from' = 0 /\ leaving' = 0

UpEnds ==
    /\ loop = "up" /\ ~Rises
    /\ IF leaving = 1 THEN loop' = "out" /\ UNCHANGED <<ret, at, from, leaving>>
                      ELSE Finish(Ok({}))
    /\ UNCHANGED <<delegate, op>>

\* heap.Pop does not look whether the element moved.
DownEnds ==
    /\ loop = "down" /\ ~Sinks
    /\ loop' = IF at = from /\ op # <<"Pop">> THEN "up" ELSE "out"
    /\ UNCHANGED <<delegate, op, ret, at, from, leaving>>

\* priorityQueue.Pop drops the last element. What was pushed in its place
\* follows.
DropLast ==
    /\ loop = "out"
    /\ IF op[1] = "Push"
       THEN HeapPush(Front(delegate), op[2])
       ELSE delegate' = Front(delegate) /\ Finish(Ok({Last(delegate)}))
    /\ UNCHANGED op

-----------------------------------------------------------------------------
\* The positions at which the loops over the slice find the key.
Positions(k) == {i \in DOMAIN delegate : Key(delegate[i]) = k}
First(I) == CHOOSE i \in I : \A j \in I : i <= j

\* An operation that returns without a move in the heap.
Answer(r) == ret' = r /\ UNCHANGED <<delegate, loopvars>>

Init ==
    /\ delegate = <<>> /\ op = <<"New">> /\ ret = Ok({})
    /\ loop = "idle" /\ at = 0 /\ from = 0 /\ leaving = 0

\* Mutant of PushJob: a job to replace is overwritten where it stands.
PushInPlace(e) ==
    LET I == Positions(Key(e)) IN
    CASE I # {} /\ e.detail \notin Replace -> Answer(Fail("ErrJobAlreadyExists"))
      [] I # {} /\ e.detail \in Replace ->
            /\ delegate' = [delegate EXCEPT ![First(I)] = e]
            /\ ret' = Ok({}) /\ UNCHANGED loopvars
      [] I = {} -> HeapPush(delegate, e)

PushJob(e) ==
    LET I == Positions(Key(e)) IN
    CASE I # {} /\ e.detail \notin Replace -> Answer(Fail("ErrJobAlreadyExists"))
      [] I # {} /\ e.detail \in Replace -> HeapRemove(First(I))
      [] I = {} -> HeapPush(delegate, e)

PopJob == IF delegate = <<>> THEN Answer(Fail("ErrQueueEmpty")) ELSE HeapPop

HeadJob == Answer(IF delegate = <<>> THEN Fail("ErrQueueEmpty") ELSE Ok({delegate[1]}))

GetJob(k) ==
    LET I == Positions(k)
    IN  Answer(IF I = {} THEN Fail("ErrJobNotFound") ELSE Ok({delegate[First(I)]}))

RemoveJob(k) ==
    LET I == Positions(k)
    IN  IF I = {} THEN Answer(Fail("ErrJobNotFound")) ELSE HeapRemove(First(I))

ScheduledJobs(keys) ==
    Answer(Ok({delegate[i] : i \in {i \in DOMAIN delegate : Key(delegate[i]) \in keys}}))

QueueSize == Answer(Return("nil", {}, Len(delegate)))

ClearJobs == delegate' = <<>> /\ ret' = Ok({}) /\ UNCHANGED loopvars

\* The calls, each with the mutex free.
Call(o) == loop = "idle" /\ op' = o

Next ==
    \/ \E e \in Job : PushJob(e) /\ Call(<<"Push", e>>)
    \/ PopJob /\ Call(<<"Pop">>)
    \/ HeadJob /\ Call(<<"Head">>)
    \/ \E k \in JobKeys : GetJob(k) /\ Call(<<"Get", k>>)
    \/ \E k \in JobKeys : RemoveJob(k) /\ Call(<<"Remove", k>>)
    \/ \E keys \in Selections : ScheduledJobs(keys) /\ Call(<<"ScheduledJobs", keys>>)
    \/ QueueSize /\ Call(<<"Size">>)
    \/ ClearJobs /\ Call(<<"Clear">>)
    \/ Up \/ UpEnds \/ Down \/ DownEnds \/ DropLast

Spec == Init /\ [][Next]_hvars

-----------------------------------------------------------------------------
\* No element precedes its parent when the mutex is free: heap.Push, Pop and
\* Remove, which relies on the index that a scan of a copy of the slice has
\* found, keep heap order.
HeapOrdered == loop = "idle" => \A j \in 2..Len(delegate) : ~Less(delegate, j, Parent(j))

\* What the queue is for its callers while an operation is on its way: without
\* the element that leaves, with the one that is pushed, and what the operation
\* will return.
Contents ==
    {delegate[i] : i \in 1..heapSize} \cup (IF ret = Pending /\ op[1] = "Push" THEN {op[2]} ELSE {})
Result ==
    CASE ret # Pending -> ret
      [] ret = Pending /\ op[1] = "Push" -> Ok({})
      [] ret = Pending /\ op[1] # "Push" -> Ok({Last(delegate)})

\* The in-memory queue keeps the contract of JobQueue: no job is lost or
\* duplicated by an operation on the heap, Head and Pop return an earliest
\* job, and every error is reported exactly when the contract says so.
AQ == INSTANCE AbstractQueue WITH queue <- Contents, ret <- Result
ImplementsQueue == AQ!Spec

=============================================================================
