---------------------------- MODULE ClusterProofs ---------------------------
(***************************************************************************)
(* Proofs about Cluster, for any number of processes, workers, jobs and    *)
(* keys, any lockers and any bounds. What Execution guarantees survives    *)
(* the death and the new start of a process, because a process executes    *)
(* its own objects only (OwnObjects). With a shared locker one loop at a   *)
(* time is between Pop and the end of fetchAndReschedule (OneHolder), the  *)
(* file that it has found stays (FoundStays), and every run time that is   *)
(* in a file or in hand is later than the last one that was taken (Fresh). *)
(***************************************************************************)
EXTENDS Cluster, ExecutionProofs, FiniteSetTheorems

OwnObjects == \A w \in Workers : exec[w].pc # "idle" => exec[w].object[1] = Host[w]

LoopState == [pc: LoopPCs, deadline: 1..Never, time: Times \cup {0}, job: Jobs \cup {NoJob}]

QueueTypeOK ==
    /\ locker \in Lockers
    /\ now \in 1..MaxTime
    /\ DOMAIN files \subseteq Times /\ \A t \in DOMAIN files : files[t] \in Jobs
    /\ loop \in [Processes -> LoopState]
    /\ interrupt \subseteq Processes /\ owed \subseteq Processes
    /\ events \in 0..MaxEvents
    /\ lastFired \in [Jobs -> Times \cup {0}]

\* A loop that has found a job, popped it or is to dispatch it, has one.
HandsFull ==
    \A p \in Processes :
        loop[p].pc \in {"found", "resched", "dispatch"} =>
            loop[p].job \in Jobs /\ loop[p].time \in Times

OneHolder == \A p, q \in Processes : Holds(p) /\ Holds(q) => p = q

FoundStays ==
    \A p \in Processes : At(p, "found") =>
        loop[p].time \in DOMAIN files /\ files[loop[p].time] = loop[p].job

Fresh ==
    \A j \in Jobs :
        /\ lastFired[j] <= now
        /\ \A t \in DOMAIN files : files[t] = j => lastFired[j] < t
        /\ \A p \in Processes : InHand(p, j) => lastFired[j] < loop[p].time

Ordered == OneLocker => OneHolder /\ FoundStays /\ Fresh

Placed == OneLocker => \A j \in Jobs : InOnePlace(j)

ExecInv == IInv /\ OwnObjects

LoopInv == QueueTypeOK /\ HandsFull /\ Ordered

QueueInv == LoopInv /\ Placed

\* The assumptions as the provers use them.
LEMMA ClusterFacts ==
    /\ MaxTime \in Nat /\ MaxTime > 0 /\ Period \in Nat /\ Period > 0 /\ RetryInterval \in Nat /\ RetryInterval > 0
    /\ OutdatedThreshold \in Nat /\ MaxEvents \in Nat
    /\ Never = MaxTime + 1
    /\ Times = 1..(MaxTime + Period)
    /\ Never \in 1..Never
    /\ NoJob \notin Jobs
    /\ Host \in [Workers -> Processes]
BY ClusterAssumption DEF ClusterAssumption, Never, Times

-----------------------------------------------------------------------------
(***************************************************************************)
(* How a loop moves.                                                       *)
(***************************************************************************)
OtherLoopsStay(p) == loop' \in [Processes -> LoopState]
                        /\ \A q \in Processes \ {p} : loop'[q] = loop[q]

LEMMA GoOnEffect ==
    ASSUME QueueTypeOK, NEW p \in Processes, NEW pc \in LoopPCs, GoOn(p, pc)
    PROVE  OtherLoopsStay(p) /\ loop'[p].pc = pc
BY ClusterFacts DEF QueueTypeOK, GoOn, OtherLoopsStay, LoopState, Down

LEMMA ArmEffect ==
    ASSUME QueueTypeOK, NEW p \in Processes, NEW at \in Nat \ {0}, Arm(p, at)
    PROVE  OtherLoopsStay(p) /\ loop'[p].pc = "select"
<1>1. (IF at <= MaxTime THEN at ELSE Never) \in 1..Never /\ "select" \in LoopPCs
  BY ClusterFacts DEF LoopPCs
<1> QED
  BY <1>1 DEF QueueTypeOK, Arm, OtherLoopsStay, LoopState

LEMMA PCFacts == {"down", "read", "select", "found", "resched", "dispatch"} \subseteq LoopPCs
BY DEF LoopPCs

\* With a shared locker, nobody holds it when it is free.
LEMMA NobodyHolds ==
    ASSUME OneLocker, NEW p \in Processes, LockerFree(p)
    PROVE  \A q \in Processes : ~Holds(q)
BY DEF OneLocker, LockerFree

LEMMA HoldsMeans == \A p \in Processes : Holds(p) <=> At(p, "found") \/ At(p, "resched")
BY DEF Holds, At

\* The steps of a loop that change the queue leave the other loops alone.
LEMMA FindEffect ==
    ASSUME QueueTypeOK, NEW p \in Processes, FindJob(p)
    PROVE  \E t \in HeadTimes(files) :
              /\ t \in DOMAIN files /\ t \in Times /\ files[t] \in Jobs
              /\ OtherLoopsStay(p)
              /\ loop'[p].pc = "found" /\ loop'[p].time = t /\ loop'[p].job = files[t]
<1>1. PICK t \in HeadTimes(files) :
         loop' = [loop EXCEPT ![p].pc = "found", ![p].time = t, ![p].job = files[t]]
  BY DEF FindJob
<1>2. t \in DOMAIN files /\ t \in Times /\ files[t] \in Jobs
  BY DEF HeadTimes, QueueTypeOK
<1>3. /\ OtherLoopsStay(p)
      /\ loop'[p].pc = "found" /\ loop'[p].time = t /\ loop'[p].job = files[t]
  BY <1>1, <1>2, PCFacts DEF QueueTypeOK, OtherLoopsStay, LoopState
<1> QED
  BY <1>2, <1>3

LEMMA RemoveEffect ==
    ASSUME QueueTypeOK, NEW p \in Processes, RemoveFound(p)
    PROVE  /\ At(p, "found") /\ loop[p].time \in DOMAIN files
           /\ DOMAIN files' = DOMAIN files \ {loop[p].time}
           /\ \A u \in DOMAIN files' : files'[u] = files[u]
           /\ OtherLoopsStay(p) /\ loop'[p].pc = "resched"
           /\ loop'[p].time = loop[p].time /\ loop'[p].job = loop[p].job
<1>1. /\ DOMAIN files' = DOMAIN files \ {loop[p].time}
      /\ \A u \in DOMAIN files' : files'[u] = files[u]
  BY DEF RemoveFound, Without
<1>2. /\ OtherLoopsStay(p) /\ loop'[p].pc = "resched"
      /\ loop'[p].time = loop[p].time /\ loop'[p].job = loop[p].job
  BY PCFacts DEF RemoveFound, QueueTypeOK, OtherLoopsStay, LoopState
<1> QED
  BY <1>1, <1>2 DEF RemoveFound

LEMMA PutBackEffect ==
    ASSUME QueueTypeOK, NEW p \in Processes, NEW time, NEW pc \in {"read", "dispatch"},
           PutBack(p, time, pc)
    PROVE  /\ DOMAIN files' = DOMAIN files \cup {time}
           /\ files'[time] = loop[p].job
           /\ \A t \in DOMAIN files \ {time} : files'[t] = files[t]
           /\ OtherLoopsStay(p) /\ loop'[p].pc = pc
           /\ pc = "dispatch" => loop'[p].job = loop[p].job /\ loop'[p].time = loop[p].time
<1>1. /\ DOMAIN files' = DOMAIN files \cup {time}
      /\ files'[time] = loop[p].job
      /\ \A t \in DOMAIN files \ {time} : files'[t] = files[t]
  BY DEF PutBack, Push
<1>2. CASE pc = "read"
  <2>1. OtherLoopsStay(p) /\ loop'[p].pc = pc
    BY <1>2, GoOnEffect, PCFacts DEF PutBack
  <2> QED
    BY <1>1, <1>2, <2>1
<1>3. CASE pc = "dispatch"
  <2>1. /\ OtherLoopsStay(p) /\ loop'[p].pc = pc
        /\ loop'[p].job = loop[p].job /\ loop'[p].time = loop[p].time
    BY <1>3, PCFacts DEF QueueTypeOK, PutBack, OtherLoopsStay, LoopState
  <2> QED
    BY <1>1, <2>1
<1> QED
  BY <1>2, <1>3

LEMMA ScheduleEffect ==
    ASSUME QueueTypeOK, NEW p \in Processes, NEW key \in Keys, ScheduleJob(p, key)
    PROVE  \E j \in Jobs, time \in Times :
              /\ Unused(j)
              /\ DOMAIN files' = DOMAIN files \cup {time}
              /\ files'[time] = j
              /\ \A t \in DOMAIN files \ {time} : files'[t] = files[t]
              /\ lastFired' = [lastFired EXCEPT ![j] = 0]
              /\ events' \in 0..MaxEvents
<1>1. PICK j \in {k \in Jobs : KeyOf[k] = key /\ Unused(k)}, asked \in 1..now :
         /\ CountIf(asked < now)
         /\ files' = Push(files, asked + Period, j)
         /\ lastFired' = [lastFired EXCEPT ![j] = 0]
  BY DEF ScheduleJob
<1>2. asked + Period \in Times
  BY ClusterFacts DEF QueueTypeOK
<1>3. events' \in 0..MaxEvents
  BY <1>1, ClusterFacts DEF CountIf, QueueTypeOK
<1>4. /\ DOMAIN files' = DOMAIN files \cup {asked + Period}
      /\ files'[asked + Period] = j
      /\ \A t \in DOMAIN files \ {asked + Period} : files'[t] = files[t]
  BY <1>1 DEF Push
<1> QED
  BY <1>1, <1>2, <1>3, <1>4

LEMMA DeleteEffect ==
    ASSUME NEW p \in Processes, NEW key \in Keys, DeleteJob(p, key)
    PROVE  \E t \in DOMAIN files :
              /\ KeyOf[files[t]] = key
              /\ DOMAIN files' = DOMAIN files \ {t}
              /\ \A u \in DOMAIN files' : files'[u] = files[u]
<1>1. PICK t \in DOMAIN files : KeyOf[files[t]] = key /\ files' = Without(files, t)
  BY DEF DeleteJob
<1> QED
  BY <1>1 DEF Without

-----------------------------------------------------------------------------
(***************************************************************************)
(* Where a job is, whatever the lockers.                                   *)
(***************************************************************************)
\* A job that comes into no file and into no hands is not doubled.
LEMMA NothingDoubles ==
    ASSUME NEW j \in Jobs, InOnePlace(j),
           \A t \in DOMAIN files' : files'[t] = j => t \in DOMAIN files /\ files[t] = j,
           \A p \in Processes : InHand(p, j)' => InHand(p, j)
    PROVE  InOnePlace(j)'
<1>1. \A t, u \in DOMAIN files' : files'[t] = j /\ files'[u] = j => t = u
  BY DEF InOnePlace
<1>2. \A p, q \in Processes : InHand(p, j)' /\ InHand(q, j)' => p = q
  BY DEF InOnePlace
<1>3. \A p \in Processes : InHand(p, j)' => ~HasJob(files, j)'
  BY DEF InOnePlace, HasJob
<1> QED
  BY <1>1, <1>2, <1>3 DEF InOnePlace

\* The steps that leave the queue alone and move no job.
Quiet(p) ==
    \/ ReadQueue(p) \/ ReadFails(p) \/ SelectInterrupt(p) \/ SelectDone(p)
    \/ FindJob(p) \/ FindFails(p) \/ RemoveFails(p) \/ Dispatch(p) \/ DispatchCancelled(p)
    \/ Restart(p)

LEMMA QuietHands ==
    ASSUME QueueTypeOK, NEW p \in Processes, Quiet(p)
    PROVE  /\ UNCHANGED files /\ ~At(p, "resched") /\ ~At(p, "resched")'
           /\ \A q \in Processes \ {p} : loop'[q] = loop[q]
<1>1. UNCHANGED files /\ ~At(p, "resched")
  BY DEF Quiet, ReadQueue, ReadFails, SelectInterrupt, SelectDone, FindJob, FindFails,
         RemoveFails, Dispatch, DispatchCancelled, Restart, At, QueueUnchanged
<1>2. loop \in [Processes -> LoopState]
  BY DEF QueueTypeOK
<1>3. ASSUME NEW at, Arm(p, at)
      PROVE  ~At(p, "resched")' /\ \A q \in Processes \ {p} : loop'[q] = loop[q]
  BY <1>2, <1>3 DEF Arm, At
<1>4. ASSUME GoOn(p, "read")
      PROVE  ~At(p, "resched")' /\ \A q \in Processes \ {p} : loop'[q] = loop[q]
  BY <1>2, <1>4 DEF GoOn, At, Down
<1>5. ASSUME EndProcess(p) \/ Restart(p)
      PROVE  ~At(p, "resched")' /\ \A q \in Processes \ {p} : loop'[q] = loop[q]
  BY <1>2, <1>5 DEF EndProcess, Restart, At, Down, LoopState
<1>6. ASSUME FindJob(p)
      PROVE  ~At(p, "resched")' /\ \A q \in Processes \ {p} : loop'[q] = loop[q]
  BY <1>6, FindEffect DEF At, OtherLoopsStay
<1> QED
  BY <1>1, <1>3, <1>4, <1>5, <1>6
     DEF Quiet, ReadQueue, ReadFails, SelectInterrupt, SelectDone, FindFails, RemoveFails,
         Dispatch, DispatchCancelled

LEMMA RemovingDoubles ==
    ASSUME LoopInv, NEW p \in Processes, RemoveFound(p),
           NEW j \in Jobs, InOnePlace(j), ~InOnePlace(j)'
    PROVE  ~OneLocker /\ RemovesAnother(p) /\ loop[p].job = j
<1>1. /\ At(p, "found") /\ loop[p].time \in DOMAIN files
      /\ DOMAIN files' = DOMAIN files \ {loop[p].time}
      /\ \A u \in DOMAIN files' : files'[u] = files[u]
      /\ OtherLoopsStay(p) /\ loop'[p].pc = "resched"
      /\ loop'[p].time = loop[p].time /\ loop'[p].job = loop[p].job
  BY RemoveEffect DEF LoopInv
<1>2. \A q \in Processes \ {p} : InHand(q, j)' <=> InHand(q, j)
  BY <1>1 DEF OtherLoopsStay, InHand, At
<1>3. loop[p].job = j
  <2> SUFFICES ASSUME loop[p].job # j
               PROVE  InOnePlace(j)'
    OBVIOUS
  <2>1. ~InHand(p, j)'
    BY <1>1 DEF InHand
  <2> QED
    BY <1>1, <1>2, <2>1, NothingDoubles
<1>4. files[loop[p].time] # j
  <2> SUFFICES ASSUME files[loop[p].time] = j
               PROVE  InOnePlace(j)'
    OBVIOUS
  <2>1. \A t \in DOMAIN files' : files'[t] # j
    BY <1>1 DEF InOnePlace
  <2>2. \A q \in Processes : InHand(q, j)' => q = p
    BY <1>1, <1>2 DEF InOnePlace, HasJob
  <2> QED
    BY <2>1, <2>2 DEF InOnePlace, HasJob
<1>5. ~OneLocker
  BY <1>1, <1>3, <1>4 DEF LoopInv, Ordered, FoundStays
<1> QED
  BY <1>1, <1>3, <1>4, <1>5 DEF RemovesAnother, At

LEMMA PuttingBackDoubles ==
    ASSUME QueueTypeOK, NEW p \in Processes, NEW time, NEW pc \in {"read", "dispatch"},
           At(p, "resched"), PutBack(p, time, pc), NEW j \in Jobs, InOnePlace(j)
    PROVE  InOnePlace(j)'
<1>1. /\ DOMAIN files' = DOMAIN files \cup {time}
      /\ files'[time] = loop[p].job
      /\ \A t \in DOMAIN files \ {time} : files'[t] = files[t]
      /\ OtherLoopsStay(p) /\ loop'[p].pc = pc
  BY PutBackEffect
<1>2. \A q \in Processes : InHand(q, j)' => InHand(q, j) /\ q # p
  BY <1>1 DEF OtherLoopsStay, InHand, At
<1>3. CASE loop[p].job = j
  <2>1. InHand(p, j)
    BY <1>3 DEF InHand
  <2>2. \A t \in DOMAIN files' : files'[t] = j => t = time
    BY <1>1, <2>1 DEF InOnePlace, HasJob
  <2>3. \A q \in Processes : ~InHand(q, j)'
    BY <1>2, <2>1 DEF InOnePlace
  <2> QED
    BY <2>2, <2>3 DEF InOnePlace
<1>4. CASE loop[p].job # j
  BY <1>1, <1>2, <1>4, NothingDoubles
<1> QED
  BY <1>3, <1>4

LEMMA SchedulingDoubles ==
    ASSUME QueueTypeOK, NEW p \in Processes, NEW key \in Keys, ScheduleJob(p, key),
           NEW j \in Jobs, InOnePlace(j)
    PROVE  InOnePlace(j)'
<1>1. PICK k \in Jobs, time \in Times :
         /\ Unused(k)
         /\ DOMAIN files' = DOMAIN files \cup {time}
         /\ files'[time] = k
         /\ \A t \in DOMAIN files \ {time} : files'[t] = files[t]
  BY ScheduleEffect
<1>2. \A q \in Processes : InHand(q, j)' <=> InHand(q, j)
  BY DEF ScheduleJob, InHand, At
<1>3. CASE k = j
  <2>1. \A q \in Processes : ~InHand(q, j)'
    BY <1>1, <1>2, <1>3, HoldsMeans DEF Unused, InHand
  <2>2. \A t \in DOMAIN files' : files'[t] = j => t = time
    BY <1>1, <1>3 DEF Unused, HasJob
  <2> QED
    BY <2>1, <2>2 DEF InOnePlace
<1>4. CASE k # j
  BY <1>1, <1>2, <1>4, NothingDoubles
<1> QED
  BY <1>3, <1>4

LEMMA NextDoubles ==
    ASSUME LoopInv, [Next]_vars, NEW j \in Jobs, InOnePlace(j), ~InOnePlace(j)'
    PROVE  ~OneLocker /\ \E p \in Processes : RemovesAnother(p) /\ loop[p].job = j
<1>0. QueueTypeOK
  BY DEF LoopInv
<1>1. ASSUME NEW p \in Processes, Quiet(p) PROVE FALSE
  BY <1>0, <1>1, QuietHands, NothingDoubles DEF InHand, At
<1>2. ASSUME NEW p \in Processes, SkipOutdated(p) \/ PutBackEarly(p) \/ TakeDue(p) PROVE FALSE
  BY <1>0, <1>2, PuttingBackDoubles DEF SkipOutdated, PutBackEarly, TakeDue
<1>3. ASSUME NEW p \in Processes, NEW key \in Keys, ScheduleJob(p, key) PROVE FALSE
  BY <1>0, <1>3, SchedulingDoubles
<1>4. ASSUME NEW p \in Processes, NEW key \in Keys, DeleteJob(p, key) PROVE FALSE
  <2>1. \A q \in Processes : InHand(q, j)' <=> InHand(q, j)
    BY <1>4 DEF DeleteJob, InHand, At
  <2> QED
    BY <1>4, <2>1, DeleteEffect, NothingDoubles
<1>5. ASSUME NEW p \in Processes, Crash(p) PROVE FALSE
  <2>1. UNCHANGED files /\ loop' = [loop EXCEPT ![p] = Down]
    BY <1>5 DEF Crash, EndProcess, QueueUnchanged
  <2>2. \A q \in Processes : InHand(q, j)' => InHand(q, j)
    BY <1>0, <2>1 DEF InHand, At, Down, QueueTypeOK
  <2> QED
    BY <2>1, <2>2, NothingDoubles
<1>6. ASSUME \/ Tick \/ UNCHANGED vars
             \/ \E p \in Processes : Stop(p) \/ Reset(p)
             \/ \E w \in Workers : Execute(w)
      PROVE  FALSE
  <2>1. UNCHANGED <<loop, files>>
    BY <1>6 DEF Tick, vars, Stop, Reset, Execute, QueueUnchanged
  <2> QED
    BY <2>1, NothingDoubles DEF InHand, At
<1>7. ASSUME NEW p \in Processes, RemoveFound(p)
      PROVE  ~OneLocker /\ RemovesAnother(p) /\ loop[p].job = j
  BY <1>7, RemovingDoubles
<1> QED
  BY <1>1, <1>2, <1>3, <1>4, <1>5, <1>6, <1>7 DEF Next, LoopStep, Quiet

-----------------------------------------------------------------------------
(***************************************************************************)
(* The invariant of the loops.                                             *)
(***************************************************************************)
\* A step that leaves the queue alone, and after which the loops that moved
\* have nothing in hand.
LEMMA QuietKeeps ==
    ASSUME LoopInv, UNCHANGED <<locker, now, files, lastFired>>,
           loop' \in [Processes -> LoopState],
           \A p \in Processes :
              loop'[p] = loop[p] \/ loop'[p].pc \notin {"found", "resched", "dispatch"},
           interrupt' \subseteq Processes, owed' \subseteq Processes, events' \in 0..MaxEvents
    PROVE  LoopInv'
<1>1. QueueTypeOK'
  BY DEF LoopInv, QueueTypeOK
<1>2. HandsFull'
  BY DEF LoopInv, HandsFull
<1>3. ASSUME OneLocker' PROVE OneHolder' /\ FoundStays' /\ Fresh'
  <2>1. OneHolder /\ FoundStays /\ Fresh
    BY <1>3 DEF LoopInv, Ordered, OneLocker
  <2>2. OneHolder'
    BY <2>1 DEF OneHolder, Holds
  <2>3. FoundStays'
    BY <2>1 DEF FoundStays, At
  <2>4. Fresh'
    BY <2>1 DEF Fresh, InHand, At
  <2> QED
    BY <2>2, <2>3, <2>4
<1> QED
  BY <1>1, <1>2, <1>3 DEF LoopInv, Ordered

LEMMA FindKeeps ==
    ASSUME LoopInv, NEW p \in Processes, FindJob(p)
    PROVE  LoopInv'
<1>1. PICK t \in HeadTimes(files) :
         /\ t \in DOMAIN files /\ t \in Times /\ files[t] \in Jobs
         /\ OtherLoopsStay(p)
         /\ loop'[p].pc = "found" /\ loop'[p].time = t /\ loop'[p].job = files[t]
  BY FindEffect DEF LoopInv
<1>2. UNCHANGED <<locker, now, files, interrupt, owed, events, lastFired>> /\ LockerFree(p)
  BY DEF FindJob, QueueUnchanged, OthersUnchanged
<1>3. QueueTypeOK'
  BY <1>1, <1>2 DEF LoopInv, QueueTypeOK, OtherLoopsStay
<1>4. HandsFull'
  BY <1>1 DEF LoopInv, HandsFull, OtherLoopsStay
<1>5. ASSUME OneLocker' PROVE OneHolder' /\ FoundStays' /\ Fresh'
  <2>1. OneLocker /\ Fresh
    BY <1>2, <1>5 DEF LoopInv, Ordered, OneLocker
  <2>2. \A q \in Processes \ {p} : ~Holds(q)'
    BY <1>1, <1>2, <2>1, NobodyHolds DEF Holds, OtherLoopsStay
  <2>3. OneHolder'
    BY <2>2 DEF OneHolder
  <2>4. FoundStays'
    BY <1>1, <1>2, <2>2 DEF FoundStays, Holds, At
  <2>5. Fresh'
    BY <1>1, <1>2, <2>1 DEF Fresh, InHand, At, OtherLoopsStay
  <2> QED
    BY <2>3, <2>4, <2>5
<1> QED
  BY <1>3, <1>4, <1>5 DEF LoopInv, Ordered

LEMMA RemoveKeeps ==
    ASSUME LoopInv, NEW p \in Processes, RemoveFound(p)
    PROVE  LoopInv'
<1>1. /\ At(p, "found") /\ loop[p].time \in DOMAIN files
      /\ DOMAIN files' = DOMAIN files \ {loop[p].time}
      /\ \A u \in DOMAIN files' : files'[u] = files[u]
      /\ OtherLoopsStay(p) /\ loop'[p].pc = "resched"
      /\ loop'[p].time = loop[p].time /\ loop'[p].job = loop[p].job
  BY RemoveEffect DEF LoopInv
<1>2. UNCHANGED <<locker, now, interrupt, owed, events, lastFired>>
  BY DEF RemoveFound, OthersUnchanged
<1>3. QueueTypeOK'
  BY <1>1, <1>2 DEF LoopInv, QueueTypeOK, OtherLoopsStay
<1>4. HandsFull'
  BY <1>1 DEF LoopInv, HandsFull, OtherLoopsStay, At
<1>5. ASSUME OneLocker' PROVE OneHolder' /\ FoundStays' /\ Fresh'
  <2>1. OneHolder /\ FoundStays /\ Fresh
    BY <1>2, <1>5 DEF LoopInv, Ordered, OneLocker
  <2>2. \A q \in Processes \ {p} : ~Holds(q)'
    BY <1>1, <2>1 DEF OneHolder, Holds, At, OtherLoopsStay
  <2>3. OneHolder'
    BY <2>2 DEF OneHolder
  <2>4. FoundStays'
    BY <1>1, <2>2 DEF FoundStays, Holds, At
  <2>5. files[loop[p].time] = loop[p].job
    BY <1>1, <2>1 DEF FoundStays
  <2>6. Fresh'
    BY <1>1, <1>2, <2>1, <2>2, <2>5 DEF Fresh, InHand, Holds, At
  <2> QED
    BY <2>3, <2>4, <2>6
<1> QED
  BY <1>3, <1>4, <1>5 DEF LoopInv, Ordered

LEMMA PutBackKeeps ==
    ASSUME QueueInv, NEW p \in Processes, NEW time \in Times, NEW pc \in {"read", "dispatch"},
           At(p, "resched"), PutBack(p, time, pc),
           lastFired' \in [Jobs -> Times \cup {0}],
           OneLocker => lastFired'[loop[p].job] < time /\ lastFired'[loop[p].job] <= now,
           \A j \in Jobs \ {loop[p].job} : lastFired'[j] = lastFired[j]
    PROVE  LoopInv'
<1> DEFINE j == loop[p].job
<1>1. j \in Jobs /\ loop[p].time \in Times
  BY DEF QueueInv, LoopInv, HandsFull, At
<1>2. /\ DOMAIN files' = DOMAIN files \cup {time}
      /\ files'[time] = j
      /\ \A t \in DOMAIN files \ {time} : files'[t] = files[t]
      /\ OtherLoopsStay(p) /\ loop'[p].pc = pc
      /\ pc = "dispatch" => loop'[p].job = j /\ loop'[p].time = loop[p].time
  BY PutBackEffect DEF QueueInv, LoopInv
<1>3. UNCHANGED <<locker, now, owed, events>> /\ interrupt' = interrupt \cup {p}
  BY DEF PutBack, OthersUnchanged
<1>4. QueueTypeOK'
  BY <1>1, <1>2, <1>3 DEF QueueInv, LoopInv, QueueTypeOK, OtherLoopsStay
<1>5. HandsFull'
  BY <1>1, <1>2 DEF QueueInv, LoopInv, HandsFull, OtherLoopsStay
<1>6. ASSUME OneLocker' PROVE OneHolder' /\ FoundStays' /\ Fresh'
  <2>1. OneLocker /\ OneHolder /\ Fresh /\ InOnePlace(j)
    BY <1>1, <1>3, <1>6 DEF QueueInv, LoopInv, Ordered, Placed, OneLocker
  <2>2. \A q \in Processes : ~Holds(q)'
    BY <1>2, <2>1 DEF OneHolder, Holds, At, OtherLoopsStay
  <2>3. OneHolder' /\ FoundStays'
    BY <2>2 DEF OneHolder, FoundStays, Holds, At
  <2>4. SUFFICES ASSUME NEW k \in Jobs
                 PROVE  /\ lastFired'[k] <= now
                        /\ \A t \in DOMAIN files' : files'[t] = k => lastFired'[k] < t
    BY <1>3, <2>2, <2>3 DEF Fresh, InHand, Holds, At
  <2>5. CASE k = j
    <3>1. \A t \in DOMAIN files' : files'[t] = j => t = time
      BY <1>2, <2>1 DEF InOnePlace, InHand, HasJob
    <3> QED
      BY <2>1, <2>5, <3>1
  <2>6. CASE k # j
    BY <1>2, <2>1, <2>6 DEF Fresh
  <2> QED
    BY <2>5, <2>6
<1> QED
  BY <1>4, <1>5, <1>6 DEF LoopInv, Ordered

LEMMA RescheduleKeeps ==
    ASSUME QueueInv, NEW p \in Processes, SkipOutdated(p) \/ PutBackEarly(p) \/ TakeDue(p)
    PROVE  LoopInv'
<1> DEFINE j == loop[p].job
           t == loop[p].time
<1>0. /\ j \in Jobs /\ t \in Times /\ At(p, "resched")
      /\ lastFired[j] \in Nat
      /\ OneLocker => lastFired[j] < t /\ lastFired[j] <= now
      /\ now \in 1..MaxTime /\ lastFired \in [Jobs -> Times \cup {0}]
  <2>1. At(p, "resched")
    BY DEF SkipOutdated, PutBackEarly, TakeDue
  <2>2. j \in Jobs /\ t \in Times
    BY <2>1 DEF QueueInv, LoopInv, HandsFull, At
  <2>3. OneLocker => lastFired[j] < t /\ lastFired[j] <= now
    BY <2>1, <2>2 DEF QueueInv, LoopInv, Ordered, Fresh, InHand
  <2> QED
    BY <2>1, <2>2, <2>3, ClusterFacts DEF QueueInv, LoopInv, QueueTypeOK
<1>1. CASE SkipOutdated(p)
  <2>1. now + Period \in Times /\ (OneLocker => lastFired[j] < now + Period)
    BY <1>0, ClusterFacts
  <2> QED
    BY <1>0, <1>1, <2>1, PutBackKeeps DEF SkipOutdated
<1>2. CASE PutBackEarly(p)
  BY <1>0, <1>2, PutBackKeeps DEF PutBackEarly
<1>3. CASE TakeDue(p)
  <2>1. t <= now /\ t + Period \in Times /\ t < t + Period
    BY <1>0, <1>3, ClusterFacts DEF TakeDue
  <2>2. /\ lastFired' \in [Jobs -> Times \cup {0}] /\ lastFired'[j] = t
        /\ \A k \in Jobs \ {j} : lastFired'[k] = lastFired[k]
    BY <1>0, <1>3 DEF TakeDue
  <2>3. PutBack(p, t + Period, "dispatch")
    BY <1>3 DEF TakeDue
  <2> QED
    BY <1>0, <2>1, <2>2, <2>3, PutBackKeeps
<1> QED
  BY <1>1, <1>2, <1>3

LEMMA ScheduleKeeps ==
    ASSUME LoopInv, NEW p \in Processes, NEW key \in Keys, ScheduleJob(p, key)
    PROVE  LoopInv'
<1>1. PICK j \in Jobs, time \in Times :
         /\ Unused(j)
         /\ DOMAIN files' = DOMAIN files \cup {time}
         /\ files'[time] = j
         /\ \A t \in DOMAIN files \ {time} : files'[t] = files[t]
         /\ lastFired' = [lastFired EXCEPT ![j] = 0]
         /\ events' \in 0..MaxEvents
  BY ScheduleEffect DEF LoopInv
<1>2. /\ UNCHANGED <<locker, now, owed, loop>> /\ interrupt' = interrupt \cup {p}
      /\ LockerFree(p)
  BY DEF ScheduleJob
<1>3. lastFired' \in [Jobs -> Times \cup {0}] /\ lastFired'[j] = 0
      /\ \A k \in Jobs \ {j} : lastFired'[k] = lastFired[k]
  BY <1>1 DEF LoopInv, QueueTypeOK
<1>4. QueueTypeOK'
  BY <1>1, <1>2, <1>3 DEF LoopInv, QueueTypeOK
<1>5. HandsFull'
  BY <1>2 DEF LoopInv, HandsFull
<1>6. ASSUME OneLocker' PROVE OneHolder' /\ FoundStays' /\ Fresh'
  <2>1. OneLocker /\ Fresh
    BY <1>2, <1>6 DEF LoopInv, Ordered, OneLocker
  <2>2. \A q \in Processes : ~Holds(q)'
    BY <1>2, <2>1, NobodyHolds DEF Holds
  <2>3. OneHolder' /\ FoundStays'
    BY <2>2 DEF OneHolder, FoundStays, Holds, At
  <2>4. SUFFICES ASSUME NEW k \in Jobs
                 PROVE  /\ lastFired'[k] <= now
                        /\ \A t \in DOMAIN files' : files'[t] = k => lastFired'[k] < t
    BY <1>2, <2>2, <2>3 DEF Fresh, InHand, Holds, At
  <2>5. CASE k = j
    <3>1. \A t \in DOMAIN files' : files'[t] = j => t = time
      BY <1>1 DEF Unused, HasJob
    <3>2. 0 < time /\ 0 <= now
      BY ClusterFacts DEF LoopInv, QueueTypeOK
    <3> QED
      BY <1>3, <2>5, <3>1, <3>2
  <2>6. CASE k # j
    BY <1>1, <1>3, <2>1, <2>6 DEF Fresh
  <2> QED
    BY <2>5, <2>6
<1> QED
  BY <1>4, <1>5, <1>6 DEF LoopInv, Ordered

LEMMA DeleteKeeps ==
    ASSUME LoopInv, NEW p \in Processes, NEW key \in Keys, DeleteJob(p, key)
    PROVE  LoopInv'
<1>1. PICK t \in DOMAIN files :
         /\ DOMAIN files' = DOMAIN files \ {t}
         /\ \A u \in DOMAIN files' : files'[u] = files[u]
  BY DeleteEffect
<1>2. /\ UNCHANGED <<locker, now, owed, loop, lastFired>> /\ interrupt' = interrupt \cup {p}
      /\ events' = events + 1 /\ events < MaxEvents /\ LockerFree(p)
  BY DEF DeleteJob
<1>3. QueueTypeOK'
  BY <1>1, <1>2, ClusterFacts DEF LoopInv, QueueTypeOK
<1>4. HandsFull'
  BY <1>2 DEF LoopInv, HandsFull
<1>5. ASSUME OneLocker' PROVE OneHolder' /\ FoundStays' /\ Fresh'
  <2>1. OneLocker /\ Fresh
    BY <1>2, <1>5 DEF LoopInv, Ordered, OneLocker
  <2>2. \A q \in Processes : ~Holds(q)'
    BY <1>2, <2>1, NobodyHolds DEF Holds
  <2>3. OneHolder' /\ FoundStays'
    BY <2>2 DEF OneHolder, FoundStays, Holds, At
  <2>4. Fresh'
    BY <1>1, <1>2, <2>1 DEF Fresh, InHand, At
  <2> QED
    BY <2>3, <2>4
<1> QED
  BY <1>3, <1>4, <1>5 DEF LoopInv, Ordered

LEMMA TickKeeps ==
    ASSUME LoopInv, Tick
    PROVE  LoopInv'
<1>1. /\ now' = now + 1 /\ now < MaxTime
      /\ UNCHANGED <<locker, files, lastFired, loop, interrupt, owed, events>>
  BY DEF Tick, QueueUnchanged
<1>2. QueueTypeOK'
  BY <1>1, ClusterFacts DEF LoopInv, QueueTypeOK
<1>3. HandsFull'
  BY <1>1 DEF LoopInv, HandsFull
<1>4. OneHolder => OneHolder'
  BY <1>1 DEF OneHolder, Holds
<1>5. FoundStays => FoundStays'
  BY <1>1 DEF FoundStays, At
<1>6. Fresh => Fresh'
  BY <1>1, ClusterFacts DEF LoopInv, QueueTypeOK, Fresh, InHand, At
<1>7. OneLocker' => OneLocker
  BY <1>1 DEF OneLocker
<1> QED
  BY <1>2, <1>3, <1>4, <1>5, <1>6, <1>7 DEF LoopInv, Ordered

\* The other steps leave files, lastFired and the clock alone.
LEMMA LoopMoves ==
    ASSUME LoopInv, NEW p \in Processes,
           \/ ReadQueue(p) \/ ReadFails(p) \/ SelectInterrupt(p) \/ FindFails(p)
           \/ RemoveFails(p) \/ Dispatch(p) \/ DispatchCancelled(p)
    PROVE  LoopInv'
<1>1. /\ UNCHANGED <<locker, now, files, lastFired, owed, events>>
      /\ interrupt' \subseteq Processes
  BY DEF LoopInv, QueueTypeOK, ReadQueue, ReadFails, SelectInterrupt, FindFails, RemoveFails,
         Dispatch, DispatchCancelled, QueueUnchanged, OthersUnchanged
<1>2. OtherLoopsStay(p) /\ loop'[p].pc \in {"read", "select"}
  <2>1. CASE ReadQueue(p)
    <3>1. \A t \in HeadTimes(files) : NotBefore(t) \in Nat \ {0}
      BY ClusterFacts DEF LoopInv, QueueTypeOK, HeadTimes, NotBefore
    <3>2. Never \in Nat \ {0}
      BY ClusterFacts
    <3> QED
      BY <2>1, <3>1, <3>2, ArmEffect DEF LoopInv, ReadQueue
  <2>2. CASE ReadFails(p)
    <3>1. RetryAfter(now) \in Nat \ {0}
      BY ClusterFacts DEF LoopInv, QueueTypeOK, RetryAfter
    <3> QED
      BY <2>2, <3>1, ArmEffect DEF LoopInv, ReadFails
  <2>3. CASE GoOn(p, "read")
    BY <2>3, GoOnEffect, PCFacts DEF LoopInv
  <2> QED
    BY <2>1, <2>2, <2>3 DEF SelectInterrupt, FindFails, RemoveFails, Dispatch, DispatchCancelled
<1> QED
  BY <1>1, <1>2, QuietKeeps DEF LoopInv, QueueTypeOK, OtherLoopsStay

LEMMA ProcessEnds ==
    ASSUME LoopInv, NEW p \in Processes, EndProcess(p), QueueUnchanged, UNCHANGED <<locker, now>>,
           events' \in 0..MaxEvents
    PROVE  LoopInv'
<1>1. Down \in LoopState /\ Down.pc = "down"
  BY ClusterFacts, PCFacts DEF Down, LoopState
<1>2. /\ loop' \in [Processes -> LoopState]
      /\ \A q \in Processes : loop'[q] = loop[q] \/ loop'[q].pc = "down"
  BY <1>1 DEF LoopInv, QueueTypeOK, EndProcess
<1>3. interrupt' \subseteq Processes /\ owed' \subseteq Processes
  BY DEF LoopInv, QueueTypeOK, EndProcess
<1> QED
  BY <1>2, <1>3, QuietKeeps DEF QueueUnchanged

LEMMA OperationsKeep ==
    ASSUME LoopInv, NEW p \in Processes,
           SelectDone(p) \/ Stop(p) \/ Crash(p) \/ Restart(p) \/ Reset(p)
    PROVE  LoopInv'
<1>1. CASE SelectDone(p)
  BY <1>1, ProcessEnds DEF SelectDone, LoopInv, QueueTypeOK
<1>2. CASE Crash(p)
  <2>1. events' \in 0..MaxEvents
    BY <1>2, ClusterFacts DEF Crash, LoopInv, QueueTypeOK
  <2> QED
    BY <1>2, <2>1, ProcessEnds DEF Crash
<1>3. CASE Stop(p)
  <2>1. events' \in 0..MaxEvents
    BY <1>3, ClusterFacts DEF Stop, LoopInv, QueueTypeOK
  <2> QED
    BY <1>3, <2>1, QuietKeeps DEF Stop, QueueUnchanged, LoopInv, QueueTypeOK
<1>4. CASE Restart(p)
  <2>1. /\ loop' \in [Processes -> LoopState]
        /\ \A q \in Processes : loop'[q] = loop[q] \/ loop'[q].pc = "read"
    BY <1>4, PCFacts DEF Restart, LoopInv, QueueTypeOK, LoopState
  <2> QED
    BY <1>4, <2>1, QuietKeeps DEF Restart, QueueUnchanged, OthersUnchanged, LoopInv, QueueTypeOK
<1>5. CASE Reset(p)
  BY <1>5, QuietKeeps DEF Reset, QueueUnchanged, LoopInv, QueueTypeOK
<1> QED
  BY <1>1, <1>2, <1>3, <1>4, <1>5

LEMMA InitEstablishesQueue == Init => QueueInv
<1> SUFFICES ASSUME Init
             PROVE  QueueInv
  OBVIOUS
<1>1. /\ \A p \in Processes : At(p, "read")
      /\ loop \in [Processes -> LoopState]
  BY ClusterFacts, PCFacts DEF Init, Down, At, LoopState
<1>2. \A p \in Processes : ~Holds(p) /\ ~At(p, "found") /\ ~At(p, "resched")
  BY <1>1 DEF Holds, At
<1>3. QueueTypeOK
  <2>1. now \in 1..MaxTime /\ events \in 0..MaxEvents /\ 1..MaxTime \subseteq Times
    BY ClusterFacts DEF Init
  <2>2. lastFired \in [Jobs -> Times \cup {0}] /\ interrupt = {} /\ owed = {}
    BY DEF Init
  <2>3. DOMAIN files \subseteq Times /\ \A t \in DOMAIN files : files[t] \in Jobs
    BY <2>1, ClusterAssumption DEF Init, ClusterAssumption
  <2> QED
    BY <1>1, <2>1, <2>2, <2>3 DEF Init, QueueTypeOK
<1>4. HandsFull
  BY <1>1 DEF HandsFull, At
<1>5. OneHolder /\ FoundStays
  BY <1>2 DEF OneHolder, FoundStays
<1>6. Fresh
  BY <1>2, ClusterAssumption DEF Init, Fresh, InHand, ClusterAssumption
<1>7. \A j \in Jobs : InOnePlace(j)
  BY <1>2, ClusterAssumption DEF Init, InOnePlace, InHand, ClusterAssumption
<1> QED
  BY <1>3, <1>4, <1>5, <1>6, <1>7 DEF QueueInv, LoopInv, Ordered, Placed

LEMMA NextKeepsQueue == QueueInv /\ [Next]_vars => QueueInv'
<1> SUFFICES ASSUME QueueInv, [Next]_vars
             PROVE  QueueInv'
  OBVIOUS
<1>0. LoopInv
  BY DEF QueueInv
<1>1. ASSUME NEW p \in Processes, LoopStep(p) PROVE LoopInv'
  BY <1>0, <1>1, LoopMoves, FindKeeps, RemoveKeeps, RescheduleKeeps, OperationsKeep DEF LoopStep
<1>2. ASSUME NEW p \in Processes, NEW key \in Keys, ScheduleJob(p, key) \/ DeleteJob(p, key)
      PROVE  LoopInv'
  BY <1>0, <1>2, ScheduleKeeps, DeleteKeeps
<1>3. ASSUME NEW p \in Processes, Stop(p) \/ Crash(p) \/ Restart(p) \/ Reset(p)
      PROVE  LoopInv'
  BY <1>0, <1>3, OperationsKeep
<1>4. ASSUME NEW w \in Workers, Execute(w) PROVE LoopInv'
  BY <1>0, <1>4, QuietKeeps DEF Execute, LoopInv, QueueTypeOK
<1>5. ASSUME UNCHANGED vars PROVE LoopInv'
  BY <1>0, <1>5, QuietKeeps DEF vars, LoopInv, QueueTypeOK
<1>6. LoopInv'
  BY <1>0, <1>1, <1>2, <1>3, <1>4, <1>5, TickKeeps DEF Next
<1>7. OneLocker' => OneLocker
  <2>1. ASSUME NEW p \in Processes, LoopStep(p) PROVE locker' = locker
    BY <2>1 DEF LoopStep, ReadQueue, ReadFails, SelectInterrupt, SelectDone, FindJob, FindFails,
                RemoveFound, RemoveFails, SkipOutdated, PutBackEarly, TakeDue, PutBack, Dispatch,
                DispatchCancelled, OthersUnchanged
  <2>2. ASSUME NEW p \in Processes, NEW key \in Keys, ScheduleJob(p, key) \/ DeleteJob(p, key)
        PROVE  locker' = locker
    BY <2>2 DEF ScheduleJob, DeleteJob
  <2>3. ASSUME NEW p \in Processes, Stop(p) \/ Crash(p) \/ Restart(p) \/ Reset(p)
        PROVE  locker' = locker
    BY <2>3 DEF Stop, Crash, Restart, Reset, OthersUnchanged
  <2>4. locker' = locker
    BY <2>1, <2>2, <2>3 DEF Next, Tick, Execute, vars
  <2> QED
    BY <2>4 DEF OneLocker
<1>8. Placed'
  BY <1>0, <1>7, NextDoubles DEF QueueInv, Placed
<1> QED
  BY <1>6, <1>8 DEF QueueInv

-----------------------------------------------------------------------------
(***************************************************************************)
(* The executions. A process begins executions of its own objects, and its *)
(* executions and its objects vanish together.                             *)
(***************************************************************************)
LEMMA ForgetKeeps ==
    ASSUME ExecInv, NEW p \in Processes, ForgetProcess(p)
    PROVE  ExecInv'
<1>1. /\ exec' \in [Workers -> State]
      /\ \A w \in Workers : Host[w] # p => exec'[w] = exec[w]
      /\ \A w \in Workers : Host[w] = p => exec'[w] = Idle
  BY IdleIsTyped DEF ExecInv, IInv, ExecTypeOK, ForgetProcess, State
<1>2. /\ \A o \in Objects : o[1] # p =>
            running'[o] = running[o] /\ mutex'[o] = mutex[o] /\ result'[o] = result[o]
      /\ \A o \in Objects : o[1] = p => ~running'[o] /\ mutex'[o] = Nobody
  BY DEF ExecInv, IInv, ExecTypeOK, ForgetProcess
<1>3. \A w \in Workers : exec'[w].pc # "idle" =>
         Host[w] # p /\ exec'[w] = exec[w] /\ exec[w].object \in Objects /\ exec[w].object[1] = Host[w]
  <2> SUFFICES ASSUME NEW w \in Workers, exec'[w].pc # "idle"
               PROVE  Host[w] # p /\ exec'[w] = exec[w] /\ exec[w].object \in Objects
                        /\ exec[w].object[1] = Host[w]
    OBVIOUS
  <2>1. Host[w] # p /\ exec'[w] = exec[w]
    BY <1>1, IdleIsTyped
  <2> QED
    BY <2>1, BusyObject DEF ExecInv, IInv, OwnObjects, Object
<1>4. ExecTypeOK'
  <2>1. running' \in [Objects -> BOOLEAN] /\ cancelled' \subseteq Workers
    BY DEF ExecInv, IInv, ExecTypeOK, ForgetProcess
  <2>2. mutex' \in [Objects -> Workers \cup {Nobody, Lost}] /\ result' \in [Objects -> Workers \cup {Nobody}]
    BY DEF ExecInv, IInv, ExecTypeOK, ForgetProcess
  <2>3. \A w \in Workers : exec'[w].object = Nobody <=> exec'[w].pc = "idle"
    BY <1>1, IdleIsTyped DEF ExecInv, IInv, ExecTypeOK
  <2> QED
    BY <1>1, <2>1, <2>2, <2>3 DEF ExecTypeOK, State
<1>5. RetriesLeft' /\ OwnObjects'
  BY <1>3 DEF ExecInv, IInv, RetriesLeft, OwnObjects
<1>6. MutualExclusion' /\ OwnResult'
  BY <1>2, <1>3 DEF ExecInv, IInv, MutualExclusion, OwnResult, Inside, Object
<1>7. \A o \in Objects, w \in Workers : o[1] # p /\ exec[w].pc # "idle" /\ exec[w].object = o =>
         exec'[w] = exec[w]
  BY <1>1 DEF ExecInv, OwnObjects
<1>8. FlagMeansInside'
  <2> SUFFICES ASSUME NEW o \in Objects
               PROVE  running'[o] <=> o \in Isolated /\ \E w \in Workers : Inside(w)' /\ Object(w)' = o
    BY DEF FlagMeansInside
  <2>1. CASE o[1] = p
    <3>1. \A w \in Workers : Inside(w)' => Object(w)' # o
      BY <1>3, <2>1 DEF Inside, Object
    <3> QED
      BY <1>2, <2>1, <3>1
  <2>2. CASE o[1] # p
    <3>1. \A w \in Workers : Inside(w)' /\ Object(w)' = o <=> Inside(w) /\ Object(w) = o
      BY <1>3, <1>7, <2>2 DEF Inside, Object
    <3>2. running[o] <=> o \in Isolated /\ \E w \in Workers : Inside(w) /\ Object(w) = o
      BY DEF ExecInv, IInv, FlagMeansInside
    <3>3. running'[o] = running[o]
      BY <1>2, <2>2
    <3> QED
      BY <3>1, <3>2, <3>3, Zenon
  <2> QED
    BY <2>1, <2>2
<1>9. MutexMeansWork'
  <2> SUFFICES ASSUME NEW o \in Curl, NEW w \in Workers
               PROVE  mutex'[o] = w <=> exec'[w].pc = "work" /\ exec'[w].object = o
    BY DEF MutexMeansWork, Object
  <2>1. o \in Objects /\ w # Nobody
    BY ExecutionAssumption DEF ExecutionAssumption
  <2>2. mutex[o] = w <=> exec[w].pc = "work" /\ exec[w].object = o
    BY DEF ExecInv, IInv, MutexMeansWork, Object
  <2>3. CASE o[1] = p
    BY <1>2, <1>3, <2>1, <2>3
  <2>4. CASE o[1] # p
    BY <1>2, <1>3, <1>7, <2>1, <2>2, <2>4
  <2> QED
    BY <2>3, <2>4
<1> QED
  BY <1>4, <1>5, <1>6, <1>8, <1>9 DEF ExecInv, IInv

\* A worker keeps its object until its execution ends.
LEMMA WorkerKeepsObject ==
    ASSUME ExecTypeOK, NEW w \in Workers, WorkerStep(w)
    PROVE  \A v \in Workers : exec'[v].pc # "idle" =>
              exec[v].pc # "idle" /\ exec'[v].object = exec[v].object
<1>1. ASSUME AfterError(w), exec[w].pc # "idle"
      PROVE  \A v \in Workers : exec'[v].pc # "idle" =>
                exec[v].pc # "idle" /\ exec'[v].object = exec[v].object
  BY <1>1, AfterErrorEffect
<1>2. CASE Refuse(w)
  BY <1>1, <1>2 DEF Refuse
<1>3. CASE Return(w)
  <2>1. CASE exec[w].ok
    BY <1>3, <2>1, IdleIsTyped DEF Return, ExecTypeOK
  <2>2. CASE ~exec[w].ok
    BY <1>1, <1>3, <2>2 DEF Return
  <2> QED
    BY <2>1, <2>2
<1>4. CASE Enter(w)
  BY <1>4 DEF ExecTypeOK, Enter
<1>5. CASE Acquire(w)
  BY <1>5 DEF ExecTypeOK, Acquire
<1>6. CASE \E ok \in BOOLEAN : Record(w, ok)
  <2>1. PICK ok \in BOOLEAN : Record(w, ok)
    BY <1>6
  <2> QED
    BY <2>1 DEF ExecTypeOK, Record
<1>7. CASE PanicInWork(w) \/ PanicInCallback(w) \/ Retry(w) \/ GiveUp(w)
  BY <1>7, IdleIsTyped DEF ExecTypeOK, PanicInWork, PanicInCallback, Retry, GiveUp
<1> QED
  BY <1>2, <1>3, <1>4, <1>5, <1>6, <1>7 DEF WorkerStep

LEMMA WorkerStepKeeps ==
    ASSUME ExecInv, NEW w \in Workers, WorkerStep(w)
    PROVE  ExecInv'
<1>1. IInv'
  BY EnterKeeps, RefuseKeeps, AcquireKeeps, RecordKeeps, PanicInWorkKeeps, PanicInCallbackKeeps,
     ReturnKeeps, RetryKeeps, GiveUpKeeps DEF ExecInv, WorkerStep
<1>2. OwnObjects'
  BY WorkerKeepsObject DEF ExecInv, IInv, OwnObjects
<1> QED
  BY <1>1, <1>2 DEF ExecInv

LEMMA DispatchKeeps ==
    ASSUME ExecInv, NEW p \in Processes, Dispatch(p)
    PROVE  ExecInv'
<1>1. PICK w \in WorkersOf(p), o \in ObjectsOf(p, loop[p].job) : Begin(w, o)
  BY DEF Dispatch
<1>2. w \in Workers /\ Host[w] = p /\ o \in Objects /\ o[1] = p
  BY DEF WorkersOf, ObjectsOf
<1>3. IInv'
  BY <1>1, <1>2, BeginKeeps DEF ExecInv
<1>4. \A v \in Workers : exec'[v] = exec[v] \/ (v = w /\ exec'[v].object = o)
  BY <1>1, <1>2 DEF Begin, ExecInv, IInv, ExecTypeOK, Idle
<1>5. OwnObjects'
  BY <1>2, <1>4 DEF ExecInv, OwnObjects
<1> QED
  BY <1>3, <1>5 DEF ExecInv

LEMMA NextKeepsExecutions == ExecInv /\ QueueInv /\ [Next]_vars => ExecInv'
<1> SUFFICES ASSUME ExecInv, QueueInv, [Next]_vars
             PROVE  ExecInv'
  OBVIOUS
<1>1. ASSUME UNCHANGED execVars PROVE ExecInv'
  BY <1>1, StutterKeeps DEF ExecInv, OwnObjects, execVars
<1>2. ASSUME NEW p \in Processes, LoopStep(p) PROVE ExecInv'
  <2>1. CASE Dispatch(p)
    BY <2>1, DispatchKeeps
  <2>2. CASE \/ ReadQueue(p) \/ ReadFails(p) \/ SelectInterrupt(p) \/ SelectDone(p)
             \/ FindJob(p) \/ FindFails(p) \/ RemoveFound(p) \/ RemoveFails(p)
             \/ DispatchCancelled(p)
    BY <1>1, <2>2 DEF execVars, ReadQueue, ReadFails, SelectInterrupt, SelectDone,
                      FindJob, FindFails, RemoveFound, RemoveFails, DispatchCancelled
  <2>3. CASE SkipOutdated(p) \/ PutBackEarly(p) \/ TakeDue(p)
    BY <1>1, <2>3 DEF execVars, SkipOutdated, PutBackEarly, TakeDue, PutBack
  <2> QED
    BY <1>2, <2>1, <2>2, <2>3 DEF LoopStep
<1>3. ASSUME NEW p \in Processes, NEW key \in Keys, ScheduleJob(p, key) \/ DeleteJob(p, key)
      PROVE  ExecInv'
  BY <1>1, <1>3 DEF ScheduleJob, DeleteJob, execVars
<1>4. ASSUME NEW p \in Processes, Stop(p) PROVE ExecInv'
  <2>1. WorkersOf(p) \in SUBSET Workers /\ Cancel(WorkersOf(p))
    BY <1>4 DEF Stop, WorkersOf
  <2> QED
    BY <2>1, CancelKeeps DEF Cancel, ExecInv, OwnObjects
<1>5. ASSUME NEW p \in Processes, Crash(p) \/ Restart(p) PROVE ExecInv'
  BY <1>5, ForgetKeeps DEF Crash, Restart
<1>6. ASSUME NEW p \in Processes, Reset(p) PROVE ExecInv'
  BY <1>1, <1>6 DEF Reset
<1>7. ASSUME NEW w \in Workers, Execute(w) PROVE ExecInv'
  BY <1>7, WorkerStepKeeps DEF Execute
<1>8. ASSUME Tick PROVE ExecInv'
  BY <1>1, <1>8 DEF Tick, execVars
<1>9. ASSUME UNCHANGED vars PROVE ExecInv'
  BY <1>1, <1>9 DEF vars
<1> QED
  BY <1>2, <1>3, <1>4, <1>5, <1>6, <1>7, <1>8, <1>9 DEF Next

LEMMA InitEstablishesExecutions == Init => ExecInv
BY InitEstablishes, IdleIsTyped DEF Init, ExecInv, ExecInit, OwnObjects

-----------------------------------------------------------------------------
\* The strengthened invariant, for every cluster: the basis of the theorems
\* below.
THEOREM ClusterInvariant == Spec => [](ExecInv /\ QueueInv)
<1>1. Init => ExecInv /\ QueueInv
  BY InitEstablishesExecutions, InitEstablishesQueue
<1>2. ExecInv /\ QueueInv /\ [Next]_vars => ExecInv' /\ QueueInv'
  BY NextKeepsExecutions, NextKeepsQueue
<1> QED
  BY <1>1, <1>2, PTL DEF Spec

\* Whatever the lockers, a scheduled job becomes two only when Pop returns a
\* job of which another process has removed the file, and removes a file
\* written under the same name since (Pop of the example).
THEOREM JobsAreDoubledOnlySo == Spec => DoubledOnlySo
<1> DEFINE A == \A j \in Jobs : InOnePlace(j) /\ ~InOnePlace(j)' =>
                  ~OneLocker /\ \E p \in Processes : RemovesAnother(p) /\ loop[p].job = j
<1>1. (ExecInv /\ QueueInv) /\ [Next]_vars => [A]_vars
  BY NextDoubles DEF QueueInv
<1> QED
  BY <1>1, ClusterInvariant, PTL DEF Spec, DoubledOnlySo

\* With a shared locker no process ever takes a run time of a job that is not
\* later than the last one that was taken, by whichever process
\* (fetchAndReschedule).
THEOREM RunTimesAreTakenOnce == Spec => RunTimesIncrease
<1> DEFINE A == OneLocker => \A p \in Processes :
                  At(p, "resched") /\ At(p, "dispatch")' => loop[p].time > lastFired[loop[p].job]
<1>1. QueueInv => A
  <2> SUFFICES ASSUME QueueInv, OneLocker, NEW p \in Processes, At(p, "resched")
               PROVE  loop[p].time > lastFired[loop[p].job]
    OBVIOUS
  <2>1. loop[p].job \in Jobs /\ loop[p].time \in Nat
    BY ClusterFacts DEF QueueInv, LoopInv, HandsFull, At
  <2>2. lastFired[loop[p].job] < loop[p].time /\ lastFired[loop[p].job] \in Nat
    BY <2>1, ClusterFacts DEF QueueInv, LoopInv, Ordered, Fresh, InHand, QueueTypeOK
  <2> QED
    BY <2>1, <2>2
<1>2. (ExecInv /\ QueueInv) /\ [Next]_vars => [A]_vars
  BY <1>1
<1> QED
  BY <1>2, ClusterInvariant, PTL DEF Spec, RunTimesIncrease

\* The executions of a cluster keep what Execution promises: no two workers
\* are inside an isolated job of their process, also after the process has
\* died in the middle of one (NewIsolatedJob).
THEOREM IsolatedJobsExcludeInCluster == Spec => []MutualExclusion
<1>1. ExecInv => MutualExclusion
  BY DEF ExecInv, IInv
<1> QED
  BY <1>1, ClusterInvariant, PTL

\* No process keeps an isolated job refused without a worker inside it.
THEOREM IsolatedFlagIsExactInCluster == Spec => []FlagMeansInside
<1>1. ExecInv => FlagMeansInside
  BY DEF ExecInv, IInv
<1> QED
  BY <1>1, ClusterInvariant, PTL

\* Everything is of its type: times, retries, pools, objects, whatever the
\* bounds.
THEOREM ClusterTypes == Spec => []ClusterTypeOK
<1>1. ExecInv /\ QueueInv => ClusterTypeOK
  BY DEF ExecInv, IInv, QueueInv, LoopInv, QueueTypeOK, LoopState, ClusterTypeOK
<1> QED
  BY <1>1, ClusterInvariant, PTL

\* A curl job's mutex, of a process that has died too: it is held exactly
\* during a request, but for a panic of the HTTP client.
THEOREM CurlMutexIsExactInCluster == Spec => []MutexMeansWork
<1>1. ExecInv => MutexMeansWork
  BY DEF ExecInv, IInv
<1> QED
  BY <1>1, ClusterInvariant, PTL

\* The callback of an isolated job sees the result of its own execution.
THEOREM IsolatedCallbacksSeeTheirResultInCluster == Spec => []OwnResult
<1>1. ExecInv => OwnResult
  BY DEF ExecInv, IInv
<1> QED
  BY <1>1, ClusterInvariant, PTL

-----------------------------------------------------------------------------
(***************************************************************************)
(* Nothing is forgotten: every change leaves a token in the interrupt      *)
(* channel of the process that made it, every loop that goes to wait has   *)
(* looked at the queue or will look again, and whoever survives the end of *)
(* a process is to be woken.                                               *)
(***************************************************************************)
Awake == {"read", "found", "resched", "dispatch"}

LEMMA TokenLooks ==
    ASSUME \E p \in Processes : loop'[p].pc \in Awake \/ p \in interrupt' \cup owed'
    PROVE  SomeoneWillLook'
BY DEF SomeoneWillLook, Awake

\* Nobody is woken or put to sleep, nothing is added, and time does not go back.
LEMMA SameLooks ==
    ASSUME QueueInv, SomeoneWillLook, UNCHANGED <<loop, files, interrupt, owed>>,
           cancelled \subseteq cancelled', now' = now \/ Tick
    PROVE  SomeoneWillLook'
<1>1. \A p \in Processes : Serving(p)' => Serving(p)
  BY DEF Serving, At, Stopped, WorkersOf
<1>2. now \in 1..MaxTime /\ now' \in 1..MaxTime /\ now <= now'
  BY ClusterFacts DEF QueueInv, LoopInv, QueueTypeOK, Tick
<1>3. ASSUME NEW p \in Processes, NEW t \in DOMAIN files, t <= MaxTime,
             loop[p].deadline <= RetryAfter(NotBefore(t))
      PROVE  loop[p].deadline <= RetryAfter(NotBefore(t))'
  <2>1. t \in Nat /\ loop[p].deadline \in Nat
    BY ClusterFacts DEF QueueInv, LoopInv, QueueTypeOK, LoopState
  <2>2. NotBefore(t) \in Nat /\ NotBefore(t)' \in Nat /\ NotBefore(t) <= NotBefore(t)'
    BY <1>2, <2>1 DEF NotBefore
  <2>3. RetryAfter(NotBefore(t)) \in Nat /\ RetryAfter(NotBefore(t))' \in Nat
    BY <2>2, ClusterFacts DEF RetryAfter
  <2>4. RetryAfter(NotBefore(t)) <= RetryAfter(NotBefore(t))'
    BY <1>2, <1>3, <2>1, <2>2, ClusterFacts DEF RetryAfter
  <2> QED
    BY <1>3, <2>1, <2>3, <2>4
<1> QED
  BY <1>1, <1>3 DEF SomeoneWillLook

LEMMA ReadLooks ==
    ASSUME QueueInv, NEW p \in Processes, ReadQueue(p) \/ ReadFails(p)
    PROVE  SomeoneWillLook'
<1>0. UNCHANGED <<files, now>> /\ now \in 1..MaxTime /\ DOMAIN files \subseteq Nat
  BY ClusterFacts
     DEF QueueInv, LoopInv, QueueTypeOK, ReadQueue, ReadFails, QueueUnchanged, OthersUnchanged
<1>1. SUFFICES ASSUME NEW t \in DOMAIN files, t <= MaxTime
               PROVE  loop'[p].deadline <= RetryAfter(NotBefore(t))
  BY <1>0 DEF SomeoneWillLook, RetryAfter, NotBefore
<1>2. ASSUME NEW at \in Nat, Arm(p, at), at <= RetryAfter(NotBefore(t))
      PROVE  loop'[p].deadline <= RetryAfter(NotBefore(t))
  <2>1. RetryAfter(NotBefore(t)) <= MaxTime
    BY <1>0, <1>1, ClusterFacts DEF RetryAfter, NotBefore
  <2>2. at <= MaxTime
    <3>1. RetryAfter(NotBefore(t)) \in Int
      BY <1>0, <1>1, ClusterFacts DEF RetryAfter, NotBefore
    <3> QED
      BY <1>2, <2>1, <3>1, ClusterFacts
  <2>3. loop'[p].deadline = at
    BY <1>2, <2>2 DEF Arm, QueueInv, LoopInv, QueueTypeOK, LoopState
  <2> QED
    BY <1>2, <2>3
<1>3. CASE ReadFails(p)
  <2>1. RetryAfter(now) \in Nat /\ RetryAfter(now) <= RetryAfter(NotBefore(t))
    BY <1>0, <1>1, ClusterFacts DEF RetryAfter, NotBefore
  <2> QED
    BY <1>2, <1>3, <2>1 DEF ReadFails
<1>4. ASSUME NEW u \in HeadTimes(files), Arm(p, NotBefore(u))
      PROVE  loop'[p].deadline <= RetryAfter(NotBefore(t))
  <2>1. u \in Nat /\ u <= t
    BY <1>0 DEF HeadTimes
  <2>2. NotBefore(u) \in Nat /\ NotBefore(u) <= RetryAfter(NotBefore(t))
    BY <1>0, <1>1, <2>1, ClusterFacts DEF RetryAfter, NotBefore
  <2> QED
    BY <1>2, <1>4, <2>2
<1>5. Size(files) # 0
  <2>1. IsFiniteSet(DOMAIN files)
    BY ClusterFacts, FS_Interval, FS_Subset DEF QueueInv, LoopInv, QueueTypeOK
  <2> QED
    BY <1>1, <2>1, FS_EmptySet DEF Size
<1> QED
  BY <1>3, <1>4, <1>5 DEF ReadQueue

LEMMA EndLooks ==
    ASSUME QueueInv, NEW p \in Processes, EndProcess(p)
    PROVE  SomeoneWillLook'
<1> SUFFICES ASSUME NEW q \in Processes, Serving(q)'
             PROVE  q \in owed'
  BY DEF SomeoneWillLook
<1>1. loop' = [loop EXCEPT ![p] = Down]
  BY DEF EndProcess
<1>2. q # p
  BY <1>1 DEF Serving, At, Down, QueueInv, LoopInv, QueueTypeOK
<1>3. ~At(q, "down")
  BY <1>1, <1>2 DEF Serving, At, QueueInv, LoopInv, QueueTypeOK
<1> QED
  BY <1>2, <1>3 DEF EndProcess

LEMMA NextLooks ==
    ASSUME ExecInv, QueueInv, SomeoneWillLook, [Next]_vars
    PROVE  SomeoneWillLook'
<1>0. loop \in [Processes -> LoopState]
  BY DEF QueueInv, LoopInv, QueueTypeOK
<1>1. ASSUME NEW p \in Processes, LoopStep(p) PROVE SomeoneWillLook'
  <2>1. CASE ReadQueue(p) \/ ReadFails(p)
    BY <2>1, ReadLooks
  <2>2. CASE SelectDone(p)
    BY <2>2, EndLooks DEF SelectDone
  <2>3. CASE \/ SelectInterrupt(p) \/ FindFails(p) \/ RemoveFails(p)
             \/ Dispatch(p) \/ DispatchCancelled(p)
    <3>1. GoOn(p, "read")
      BY <2>3 DEF SelectInterrupt, FindFails, RemoveFails, Dispatch, DispatchCancelled
    <3> QED
      BY <1>0, <3>1, TokenLooks DEF GoOn, Down, Awake
  <2>4. CASE FindJob(p) \/ RemoveFound(p)
    <3>1. loop'[p].pc \in Awake
      BY <2>4, FindEffect, RemoveEffect DEF QueueInv, LoopInv, Awake
    <3> QED
      BY <3>1, TokenLooks
  <2>5. CASE SkipOutdated(p) \/ PutBackEarly(p) \/ TakeDue(p)
    <3>1. p \in interrupt'
      BY <2>5 DEF SkipOutdated, PutBackEarly, TakeDue, PutBack
    <3> QED
      BY <3>1, TokenLooks
  <2> QED
    BY <1>1, <2>1, <2>2, <2>3, <2>4, <2>5 DEF LoopStep
<1>2. ASSUME NEW p \in Processes, NEW key \in Keys, ScheduleJob(p, key) \/ DeleteJob(p, key)
      PROVE  SomeoneWillLook'
  BY <1>2, TokenLooks DEF ScheduleJob, DeleteJob
<1>3. ASSUME NEW p \in Processes, Crash(p) PROVE SomeoneWillLook'
  BY <1>3, EndLooks DEF Crash
<1>4. ASSUME NEW p \in Processes, Restart(p) PROVE SomeoneWillLook'
  <2>1. loop'[p].pc = "read"
    BY <1>0, <1>4 DEF Restart
  <2> QED
    BY <2>1, TokenLooks DEF Awake
<1>5. ASSUME NEW p \in Processes, Reset(p) PROVE SomeoneWillLook'
  BY <1>5, TokenLooks DEF Reset
<1>6. ASSUME NEW p \in Processes, Stop(p) PROVE SomeoneWillLook'
  BY <1>6, SameLooks DEF Stop, Cancel, QueueUnchanged
<1>7. ASSUME NEW w \in Workers, Execute(w) PROVE SomeoneWillLook'
  <2>1. cancelled' = cancelled
    BY <1>7 DEF Execute, WorkerStep, Enter, Refuse, Acquire, Record, PanicInWork,
                PanicInCallback, Return, Retry, GiveUp
  <2> QED
    BY <1>7, <2>1, SameLooks DEF Execute
<1>8. ASSUME Tick \/ UNCHANGED vars PROVE SomeoneWillLook'
  BY <1>8, SameLooks DEF Tick, vars, execVars, QueueUnchanged
<1> QED
  BY <1>1, <1>2, <1>3, <1>4, <1>5, <1>6, <1>7, <1>8 DEF Next

\* While some process serves, some loop will look at the queue in time for
\* every file, as long as Reset is called on the survivors of a process
\* that ends (startExecutionLoop, and the comment on Reset).
THEOREM NoFileIsForgotten == Spec => []SomeoneWillLook
<1>1. Init => SomeoneWillLook
  BY DEF Init, SomeoneWillLook, Serving, Down
<1>2. (ExecInv /\ QueueInv) /\ SomeoneWillLook /\ [Next]_vars => SomeoneWillLook'
  BY NextLooks
<1> QED
  BY <1>1, <1>2, ClusterInvariant, PTL DEF Spec

-----------------------------------------------------------------------------
(***************************************************************************)
(* How a job is lost.                                                      *)
(***************************************************************************)
Excused(j) ==
    \/ \E p \in Processes : DeleteJob(p, KeyOf[j])
    \/ \E p \in Processes : InHand(p, j) /\ At(p, "down")'
    \/ \E t \in DOMAIN files \cap DOMAIN files' : files[t] = j /\ files'[t] # j
    \/ ~OneLocker /\ \E p \in Processes : RemovesAnother(p) /\ files[loop[p].time] = j

\* A file is written, and the loops that held other jobs hold them still.
LEMMA WritingLoses ==
    ASSUME NEW j \in Jobs, NEW k \in Jobs, NEW time,
           DOMAIN files' = DOMAIN files \cup {time}, files'[time] = k,
           \A t \in DOMAIN files \ {time} : files'[t] = files[t],
           Present(j), ~Present(j)',
           \A p \in Processes : InHand(p, j) /\ j # k => InHand(p, j)'
    PROVE  Excused(j)
<1>1. k # j /\ \A t \in DOMAIN files' : files'[t] # j
  BY DEF Present, HasJob
<1>2. HasJob(files, j)
  BY <1>1 DEF Present
<1> QED
  BY <1>1, <1>2 DEF HasJob, Excused

\* A step that removes no file, and after which a loop that had a job in
\* hand still has it.
LEMMA KeepingLoses ==
    ASSUME NEW j \in Jobs, UNCHANGED files, Present(j), ~Present(j)',
           \A p \in Processes : InHand(p, j) => InHand(p, j)'
    PROVE  FALSE
BY DEF Present, HasJob

LEMMA RemovingLoses ==
    ASSUME LoopInv, NEW p \in Processes, RemoveFound(p), NEW j \in Jobs, Present(j), ~Present(j)'
    PROVE  Excused(j)
<1>1. /\ At(p, "found") /\ loop[p].time \in DOMAIN files
      /\ DOMAIN files' = DOMAIN files \ {loop[p].time}
      /\ \A u \in DOMAIN files' : files'[u] = files[u]
      /\ OtherLoopsStay(p) /\ loop'[p].pc = "resched"
      /\ loop'[p].time = loop[p].time /\ loop'[p].job = loop[p].job
  BY RemoveEffect DEF LoopInv
<1>2. loop[p].job # j
  BY <1>1 DEF Present, InHand, At
<1>3. \A q \in Processes : InHand(q, j) => InHand(q, j)'
  BY <1>1 DEF InHand, At, OtherLoopsStay
<1>4. PICK u \in DOMAIN files : files[u] = j
  BY <1>3 DEF Present, HasJob
<1>5. u = loop[p].time
  BY <1>1, <1>4 DEF Present, HasJob
<1>6. ~OneLocker
  BY <1>1, <1>2, <1>4, <1>5 DEF LoopInv, Ordered, FoundStays
<1> QED
  BY <1>1, <1>2, <1>4, <1>5, <1>6 DEF Excused, RemovesAnother, At

LEMMA NextLoses ==
    ASSUME LoopInv, [Next]_vars, NEW j \in Jobs, Present(j), ~Present(j)'
    PROVE  Excused(j)
<1>0. QueueTypeOK /\ loop \in [Processes -> LoopState]
  BY DEF LoopInv, QueueTypeOK
<1>1. ASSUME NEW p \in Processes, Quiet(p) PROVE FALSE
  <2>1. \A q \in Processes : InHand(q, j) => InHand(q, j)'
    BY <1>0, <1>1, QuietHands DEF InHand, At
  <2> QED
    BY <1>0, <1>1, <2>1, QuietHands, KeepingLoses
<1>2. ASSUME NEW p \in Processes, RemoveFound(p) PROVE Excused(j)
  BY <1>2, RemovingLoses
<1>3. ASSUME NEW p \in Processes, SkipOutdated(p) \/ PutBackEarly(p) \/ TakeDue(p)
      PROVE  Excused(j)
  <2>1. loop[p].job \in Jobs /\ At(p, "resched")
    BY <1>3 DEF SkipOutdated, PutBackEarly, TakeDue, LoopInv, HandsFull, At
  <2>2. PICK pc \in {"read", "dispatch"} : \E time : PutBack(p, time, pc)
    BY <1>3 DEF SkipOutdated, PutBackEarly, TakeDue
  <2>3. PICK time : PutBack(p, time, pc)
    BY <2>2
  <2>4. /\ DOMAIN files' = DOMAIN files \cup {time}
        /\ files'[time] = loop[p].job
        /\ \A t \in DOMAIN files \ {time} : files'[t] = files[t]
        /\ OtherLoopsStay(p)
    BY <1>0, <2>3, PutBackEffect
  <2>5. \A q \in Processes : InHand(q, j) /\ j # loop[p].job => InHand(q, j)'
    BY <2>4 DEF InHand, At, OtherLoopsStay
  <2> QED
    BY <2>1, <2>4, <2>5, WritingLoses
<1>4. ASSUME NEW p \in Processes, NEW key \in Keys, ScheduleJob(p, key) PROVE Excused(j)
  <2>1. \A q \in Processes : InHand(q, j) => InHand(q, j)'
    BY <1>4 DEF ScheduleJob, InHand, At
  <2> QED
    BY <1>0, <1>4, <2>1, ScheduleEffect, WritingLoses
<1>5. ASSUME NEW p \in Processes, NEW key \in Keys, DeleteJob(p, key) PROVE Excused(j)
  <2>1. PICK t \in DOMAIN files :
           /\ KeyOf[files[t]] = key
           /\ DOMAIN files' = DOMAIN files \ {t}
           /\ \A u \in DOMAIN files' : files'[u] = files[u]
    BY <1>5, DeleteEffect
  <2>2. \A q \in Processes : InHand(q, j) => InHand(q, j)'
    BY <1>5 DEF DeleteJob, InHand, At
  <2>3. PICK u \in DOMAIN files : files[u] = j
    BY <2>2 DEF Present, HasJob
  <2>4. u = t
    BY <2>1, <2>3 DEF Present, HasJob
  <2> QED
    BY <1>5, <2>1, <2>3, <2>4 DEF Excused
<1>6. ASSUME NEW p \in Processes, Crash(p) PROVE Excused(j)
  <2>1. UNCHANGED files /\ At(p, "down")' /\ \A q \in Processes \ {p} : loop'[q] = loop[q]
    BY <1>0, <1>6 DEF Crash, EndProcess, QueueUnchanged, At, Down
  <2>2. PICK q \in Processes : InHand(q, j)
    BY <2>1 DEF Present, HasJob
  <2>3. q = p
    BY <2>1, <2>2 DEF Present, InHand, At
  <2> QED
    BY <2>1, <2>2, <2>3 DEF Excused
<1>7. ASSUME \/ Tick \/ UNCHANGED vars
             \/ \E p \in Processes : Stop(p) \/ Reset(p)
             \/ \E w \in Workers : Execute(w)
      PROVE  FALSE
  <2>1. UNCHANGED <<loop, files>>
    BY <1>7 DEF Tick, vars, Stop, Reset, Execute, QueueUnchanged
  <2> QED
    BY <2>1, KeepingLoses DEF InHand, At
<1> QED
  BY <1>1, <1>2, <1>3, <1>4, <1>5, <1>6, <1>7 DEF Next, LoopStep, Quiet

\* A scheduled job leaves the cluster only by a deletion, by the death of the
\* process that had popped it, under a file written for the same instant or,
\* without a shared locker, in the place of the job that Pop returns
\* (fetchAndReschedule; Pop and Push of the example).
THEOREM JobsAreLostOnlySo == Spec => LostOnlySo
<1> DEFINE A == \A j \in Jobs : Present(j) /\ ~Present(j)' => Excused(j)
<1>1. (ExecInv /\ QueueInv) /\ [Next]_vars => [A]_vars
  BY NextLoses DEF QueueInv
<1>2. [][A]_vars => LostOnlySo
  BY DEF LostOnlySo, Excused
<1> QED
  BY <1>1, <1>2, ClusterInvariant, PTL DEF Spec

=============================================================================
