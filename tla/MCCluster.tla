----------------------------- MODULE MCCluster ------------------------------
(***************************************************************************)
(* Two processes, p with two workers and q with one, which share a locker  *)
(* or have one each. Two scheduled jobs, of the same key. A process has    *)
(* one object for the key, so that its executions do share it: an isolated *)
(* curl job in p, a plain job in q.                                        *)
(***************************************************************************)
EXTENDS Cluster, TLC

CONSTANTS p, q, i, a, b, w1, w2, v

MCHost == w1 :> p @@ w2 :> p @@ v :> q
MCLockers == {p :> p @@ q :> p, p :> p @@ q :> q}
MCKeyOf == a :> i @@ b :> i
MCObjects == Processes \X {i} \X {1}
MCGuarded == {<<p, i, 1>>}
MCInitialFiles == 1 :> a
MCSymmetry == Permutations({w1, w2})

(***************************************************************************)
(* What no step and no property depends on is left out: a result that no   *)
(* callback is reading, what a loop keeps of a job that it dispatches, and *)
(* the history that RunTimesIncrease does not look at.                     *)
(***************************************************************************)
Reported(o) == \E w \in Workers : exec[w].pc = "report" /\ exec[w].object = o

MCView ==
    << locker, now, files, interrupt, owed, events, exec, running, mutex, cancelled,
       [o \in Objects |-> IF Reported(o) THEN result[o] ELSE Nobody],
       [x \in Processes |-> IF At(x, "dispatch") THEN [loop[x] EXCEPT !.time = 0, !.job = a]
                                                 ELSE loop[x]],
       [j \in Jobs |-> IF Unused(j) \/ ~OneLocker THEN 0 ELSE lastFired[j]] >>

(***************************************************************************)
(* Bound: executions of different processes, which share nothing, do not   *)
(* overlap, unless one waits for a mutex. With a locker of each process's  *)
(* own, which executions do not use, they go well.                         *)
(***************************************************************************)
Executing(w) == exec[w].pc \notin {"idle", "lock"}
Well ==
    /\ \A w \in Workers : exec[w].pc # "wait" /\ (exec[w].pc = "report" => exec[w].ok)
    /\ \A o \in Objects : mutex[o] # Lost

MCBound ==
    /\ \A x, y \in Workers : Executing(x) /\ Executing(y) => Host[x] = Host[y]
    /\ OneLocker \/ Well

=============================================================================
