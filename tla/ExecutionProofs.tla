--------------------------- MODULE ExecutionProofs --------------------------
(***************************************************************************)
(* Proofs about Execution, for any workers, any jobs and any number of     *)
(* retries. The inductive invariant is the conjunction of the typing and   *)
(* the four properties: each needs the others. A worker enters an isolated *)
(* job when its flag is down, which means that nobody is inside            *)
(* (FlagMeansInside); a worker that leaves lowers the flag, which is right *)
(* because nobody else is inside (MutualExclusion); a result recorded in   *)
(* an isolated job is nobody else's (MutualExclusion, again).              *)
(***************************************************************************)
EXTENDS Execution, TLAPS

\* A worker that waits for a retry has one left.
RetriesLeft == \A w \in Workers : exec[w].pc = "wait" => exec[w].retry < MaxRetries

IInv ==
    /\ ExecTypeOK
    /\ RetriesLeft
    /\ MutualExclusion
    /\ FlagMeansInside
    /\ MutexMeansWork
    /\ OwnResult

-----------------------------------------------------------------------------
(***************************************************************************)
(* What a step of worker w leaves alone, and what an error does.           *)
(***************************************************************************)

\* The state of a worker that goes on to execute nothing.
LEMMA IdleIsTyped ==
    /\ Idle \in [pc: PCs, object: Objects \cup {Nobody}, retry: 0..MaxRetries, ok: BOOLEAN]
    /\ Idle.pc = "idle" /\ Idle.object = Nobody
BY ExecutionAssumption DEF Idle, PCs, ExecutionAssumption

\* executeWithRetries after an error: the worker waits with its job or is idle.
LEMMA AfterErrorEffect ==
    ASSUME ExecTypeOK, NEW w \in Workers, exec[w].pc # "idle", AfterError(w)
    PROVE  /\ exec' \in [Workers -> [pc: PCs, object: Objects \cup {Nobody},
                                     retry: 0..MaxRetries, ok: BOOLEAN]]
           /\ \A v \in Workers \ {w} : exec'[v] = exec[v]
           /\ \/ /\ exec'[w].pc = "wait" /\ exec'[w].object = exec[w].object
                 /\ exec'[w].retry < MaxRetries
              \/ exec'[w].pc = "idle" /\ exec'[w].object = Nobody
BY IdleIsTyped DEF AfterError, ExecTypeOK, PCs

\* A worker that is executing has an object, which is not Nobody.
LEMMA BusyObject ==
    ASSUME ExecTypeOK, NEW w \in Workers, exec[w].pc # "idle"
    PROVE  Object(w) \in Objects /\ Object(w) # Nobody
BY ExecutionAssumption DEF ExecTypeOK, Object, ExecutionAssumption

-----------------------------------------------------------------------------
(***************************************************************************)
(* Steps of three kinds: w is inside its job neither before nor after, w   *)
(* stays inside, or w leaves.                                              *)
(***************************************************************************)
State == [pc: PCs, object: Objects \cup {Nobody}, retry: 0..MaxRetries, ok: BOOLEAN]

Outside == {"idle", "call", "wait"}

OthersStay(w) == exec' \in [Workers -> State] /\ \A v \in Workers \ {w} : exec'[v] = exec[v]

LEMMA OutsideKeeps ==
    ASSUME IInv, NEW w \in Workers, OthersStay(w),
           exec[w].pc \in Outside, exec'[w].pc \in Outside,
           UNCHANGED <<running, mutex, result>>
    PROVE  MutualExclusion' /\ FlagMeansInside' /\ MutexMeansWork' /\ OwnResult'
<1>1. /\ ~Inside(w) /\ ~Inside(w)'
      /\ exec[w].pc \notin {"work", "report"} /\ exec'[w].pc \notin {"work", "report"}
  BY DEF Inside, Outside
<1>2. MutualExclusion'
  BY <1>1 DEF IInv, MutualExclusion, Inside, Object, OthersStay
<1>3. FlagMeansInside'
  BY <1>1 DEF IInv, FlagMeansInside, Inside, Object, OthersStay
<1>4. MutexMeansWork' /\ OwnResult'
  BY <1>1 DEF IInv, MutexMeansWork, OwnResult, Object, OthersStay
<1> QED
  BY <1>2, <1>3, <1>4

LEMMA StayingKeeps ==
    ASSUME IInv, NEW w \in Workers, OthersStay(w), Inside(w), Inside(w)',
           Object(w)' = Object(w), running' = running
    PROVE  MutualExclusion' /\ FlagMeansInside'
<1>1. \A v \in Workers : (Inside(v)' <=> Inside(v)) /\ Object(v)' = Object(v)
  BY DEF Inside, Object, OthersStay
<1> QED
  BY <1>1 DEF IInv, MutualExclusion, FlagMeansInside

LEMMA LeavingKeeps ==
    ASSUME IInv, NEW w \in Workers, OthersStay(w), Inside(w), ~Inside(w)', Lower(w)
    PROVE  MutualExclusion' /\ FlagMeansInside'
<1> DEFINE o == Object(w)
<1>1. o \in Objects
  BY BusyObject DEF IInv, Inside
<1>2. \A v \in Workers \ {w} : (Inside(v)' <=> Inside(v)) /\ Object(v)' = Object(v)
  BY DEF Inside, Object, OthersStay
<1>3. MutualExclusion'
  BY <1>2 DEF IInv, MutualExclusion
<1>4. FlagMeansInside'
  <2> SUFFICES ASSUME NEW x \in Objects
               PROVE  running'[x] <=> x \in Isolated /\ \E v \in Workers : Inside(v)' /\ Object(v)' = x
    BY DEF FlagMeansInside
  <2>1. CASE x = o
    <3>1. running'[x] = FALSE
      BY <1>1, <2>1 DEF IInv, ExecTypeOK, Lower
    <3>2. x \in Isolated => \A v \in Workers : Inside(v)' => Object(v)' # x
      BY <1>2, <2>1 DEF IInv, MutualExclusion
    <3> QED
      BY <3>1, <3>2, Zenon
  <2>2. CASE x # o
    <3>1. running'[x] = running[x]
      BY <1>1, <2>2 DEF IInv, ExecTypeOK, Lower
    <3>2. (\E v \in Workers : Inside(v)' /\ Object(v)' = x)
            <=> (\E v \in Workers : Inside(v) /\ Object(v) = x)
      BY <1>2, <2>2
    <3> QED
      BY <3>1, <3>2, Zenon DEF IInv, FlagMeansInside
  <2> QED
    BY <2>1, <2>2
<1> QED
  BY <1>3, <1>4

-----------------------------------------------------------------------------
(***************************************************************************)
(* One lemma per action.                                                   *)
(***************************************************************************)
LEMMA BeginKeeps ==
    ASSUME IInv, NEW w \in Workers, NEW o \in Objects, Begin(w, o)
    PROVE  IInv'
<1>1. /\ OthersStay(w)
      /\ exec'[w].pc = "call" /\ exec'[w].object = o
  BY IdleIsTyped DEF IInv, ExecTypeOK, Begin, PCs, OthersStay, State
<1>2. ExecTypeOK'
  BY <1>1, ExecutionAssumption
     DEF IInv, ExecTypeOK, Begin, ExecutionAssumption, OthersStay, State
<1>3. exec[w].pc \in Outside /\ exec'[w].pc \in Outside /\ UNCHANGED <<running, mutex, result>>
  BY <1>1 DEF Begin, Outside
<1>4. RetriesLeft'
  BY <1>1 DEF IInv, RetriesLeft, OthersStay
<1> QED
  BY <1>4, <1>1, <1>2, <1>3, OutsideKeeps DEF IInv

LEMMA EnterKeeps ==
    ASSUME IInv, NEW w \in Workers, Enter(w)
    PROVE  IInv'
<1> DEFINE o == Object(w)
<1>1. o \in Objects /\ o # Nobody
  BY BusyObject DEF IInv, Enter
<1>2. /\ exec' \in [Workers -> [pc: PCs, object: Objects \cup {Nobody},
                                retry: 0..MaxRetries, ok: BOOLEAN]]
      /\ \A v \in Workers \ {w} : exec'[v] = exec[v]
      /\ exec'[w].pc = (IF o \in Curl THEN "lock" ELSE "work")
      /\ exec'[w].object = o
  BY DEF IInv, ExecTypeOK, Enter, PCs, Object
<1>3. /\ running' \in [Objects -> BOOLEAN]
      /\ \A x \in Objects \ {o} : running'[x] = running[x]
      /\ running'[o] = (o \in Isolated)
  BY <1>1 DEF IInv, ExecTypeOK, Enter
<1>4. ExecTypeOK'
  BY <1>1, <1>2, <1>3 DEF IInv, ExecTypeOK, Enter
<1>5. \A v \in Workers : Inside(v) /\ Object(v) = o => o \notin Isolated
  BY <1>1 DEF IInv, FlagMeansInside, Enter
<1>6. MutualExclusion'
  BY <1>2, <1>5 DEF IInv, MutualExclusion, Inside, Object
<1>7. FlagMeansInside'
  <2> SUFFICES ASSUME NEW x \in Objects
               PROVE  running'[x] <=> x \in Isolated /\ \E v \in Workers : Inside(v)' /\ Object(v)' = x
    BY DEF FlagMeansInside
  <2>1. CASE x = o
    <3>1. Inside(w)' /\ Object(w)' = o
      BY <1>2 DEF Inside, Object
    <3> QED
      BY <1>3, <2>1, <3>1, Zenon
  <2>2. CASE x # o
    <3>1. \A v \in Workers : Inside(v)' /\ Object(v)' = x <=> Inside(v) /\ Object(v) = x
      BY <1>2, <2>2 DEF Inside, Object
    <3> QED
      BY <1>3, <2>2, <3>1 DEF IInv, FlagMeansInside
  <2> QED
    BY <2>1, <2>2
<1>8. MutexMeansWork'
  BY <1>2 DEF IInv, MutexMeansWork, Enter, Object
<1>9. OwnResult'
  BY <1>2 DEF IInv, OwnResult, Enter, Object
<1>10. RetriesLeft'
  BY <1>2 DEF IInv, RetriesLeft
<1> QED
  BY <1>10, <1>4, <1>6, <1>7, <1>8, <1>9 DEF IInv

LEMMA RefuseKeeps ==
    ASSUME IInv, NEW w \in Workers, Refuse(w)
    PROVE  IInv'
<1>1. exec[w].pc = "call" /\ AfterError(w) /\ UNCHANGED <<running, mutex, result, cancelled>>
  BY DEF Refuse
<1>2. OthersStay(w) /\ exec'[w].pc \in Outside
  BY <1>1, AfterErrorEffect DEF IInv, OthersStay, State, Outside
<1>3. ExecTypeOK'
  BY <1>1, AfterErrorEffect DEF IInv, ExecTypeOK
<1>4. RetriesLeft'
  BY <1>1, AfterErrorEffect DEF IInv, RetriesLeft
<1> QED
  BY <1>4, <1>1, <1>2, <1>3, OutsideKeeps DEF IInv, Outside

LEMMA AcquireKeeps ==
    ASSUME IInv, NEW w \in Workers, Acquire(w)
    PROVE  IInv'
<1> DEFINE o == Object(w)
<1>1. o \in Objects /\ o # Nobody
  BY BusyObject DEF IInv, Acquire
<1>2. OthersStay(w) /\ exec'[w].pc = "work" /\ exec'[w].object = o
  BY DEF IInv, ExecTypeOK, Acquire, PCs, OthersStay, State, Object
<1>3. mutex' \in [Objects -> Workers \cup {Nobody, Lost}] /\ mutex'[o] = w
      /\ \A x \in Objects \ {o} : mutex'[x] = mutex[x]
  BY <1>1 DEF IInv, ExecTypeOK, Acquire
<1>4. ExecTypeOK'
  BY <1>1, <1>2, <1>3 DEF IInv, ExecTypeOK, Acquire, OthersStay, State
<1>5. MutualExclusion' /\ FlagMeansInside'
  BY <1>2, StayingKeeps DEF Acquire, Inside, Object
<1>6. MutexMeansWork'
  <2> SUFFICES ASSUME NEW x \in Curl, NEW v \in Workers
               PROVE  mutex'[x] = v <=> exec'[v].pc = "work" /\ exec'[v].object = x
    BY DEF MutexMeansWork, Object
  <2>1. x \in Objects /\ v # Nobody
    BY ExecutionAssumption DEF ExecutionAssumption
  <2>2. mutex[x] = v <=> exec[v].pc = "work" /\ exec[v].object = x
    BY DEF IInv, MutexMeansWork, Object
  <2>3. CASE v = w
    BY <1>2, <1>3, <2>1, <2>2, <2>3 DEF Acquire
  <2>4. CASE v # w
    BY <1>2, <1>3, <2>1, <2>2, <2>4 DEF Acquire, OthersStay
  <2> QED
    BY <2>3, <2>4
<1>7. OwnResult'
  BY <1>2 DEF IInv, OwnResult, Acquire, OthersStay, Object
<1>8. RetriesLeft'
  BY <1>2 DEF IInv, RetriesLeft, OthersStay
<1> QED
  BY <1>8, <1>4, <1>5, <1>6, <1>7 DEF IInv

LEMMA RecordKeeps ==
    ASSUME IInv, NEW w \in Workers, NEW ok \in BOOLEAN, Record(w, ok)
    PROVE  IInv'
<1> DEFINE o == Object(w)
<1>1. o \in Objects /\ o # Nobody
  BY BusyObject DEF IInv, Record
<1>2. OthersStay(w) /\ exec'[w].pc = "report" /\ exec'[w].object = o
  BY DEF IInv, ExecTypeOK, Record, PCs, OthersStay, State, Object
<1>3. mutex' \in [Objects -> Workers \cup {Nobody, Lost}] /\ mutex'[o] = Nobody
      /\ \A x \in Objects \ {o} : mutex'[x] = mutex[x]
  BY <1>1 DEF IInv, ExecTypeOK, Record
<1>4. result' \in [Objects -> Workers \cup {Nobody}] /\ result'[o] = w
      /\ \A x \in Objects \ {o} : result'[x] = result[x]
  BY <1>1 DEF IInv, ExecTypeOK, Record
<1>5. ExecTypeOK'
  BY <1>1, <1>2, <1>3, <1>4 DEF IInv, ExecTypeOK, Record, OthersStay, State
<1>6. MutualExclusion' /\ FlagMeansInside'
  BY <1>2, StayingKeeps DEF Record, Inside, Object
<1>7. MutexMeansWork'
  <2> SUFFICES ASSUME NEW x \in Curl, NEW v \in Workers
               PROVE  mutex'[x] = v <=> exec'[v].pc = "work" /\ exec'[v].object = x
    BY DEF MutexMeansWork, Object
  <2>1. x \in Objects /\ v # Nobody
    BY ExecutionAssumption DEF ExecutionAssumption
  <2>2. /\ mutex[x] = v <=> exec[v].pc = "work" /\ exec[v].object = x
        /\ mutex[x] = w <=> exec[w].pc = "work" /\ exec[w].object = x
    BY DEF IInv, MutexMeansWork, Object
  <2>3. CASE v = w
    BY <1>2, <1>3, <2>1, <2>2, <2>3 DEF Record, Object
  <2>4. CASE v # w
    BY <1>2, <1>3, <2>1, <2>2, <2>4 DEF Record, OthersStay, Object
  <2> QED
    BY <2>3, <2>4
<1>8. OwnResult'
  <2> SUFFICES ASSUME NEW v \in Workers, exec'[v].pc = "report", exec'[v].object \in Isolated
               PROVE  result'[exec'[v].object] = v
    BY DEF OwnResult, Object
  <2>1. CASE v = w
    BY <1>2, <1>4, <2>1
  <2>2. CASE v # w
    <3>1. exec'[v] = exec[v]
      BY <1>2, <2>2 DEF OthersStay
    <3>2. Inside(v) /\ Inside(w) /\ Object(v) \in Isolated
      BY <1>2, <2>2 DEF OthersStay, Inside, Object, Record
    <3>3. exec[v].object # o /\ exec[v].object \in Objects
      BY <2>2, <3>2, ExecutionAssumption DEF IInv, MutualExclusion, Object, ExecutionAssumption
    <3> QED
      BY <1>2, <1>4, <2>2, <3>2, <3>3 DEF IInv, OwnResult, Object, OthersStay
  <2> QED
    BY <2>1, <2>2
<1>9. RetriesLeft'
  BY <1>2 DEF IInv, RetriesLeft, OthersStay
<1> QED
  BY <1>9, <1>5, <1>6, <1>7, <1>8 DEF IInv

LEMMA PanicInWorkKeeps ==
    ASSUME IInv, NEW w \in Workers, PanicInWork(w)
    PROVE  IInv'
<1> DEFINE o == Object(w)
<1>1. o \in Objects /\ o # Nobody
  BY BusyObject DEF IInv, PanicInWork
<1>2. OthersStay(w) /\ exec'[w].pc = "idle" /\ exec'[w].object = Nobody
  BY IdleIsTyped DEF IInv, ExecTypeOK, PanicInWork, OthersStay, State
<1>3. mutex' \in [Objects -> Workers \cup {Nobody, Lost}] /\ (o \in Curl => mutex'[o] = Lost)
      /\ \A x \in Objects \ {o} : mutex'[x] = mutex[x]
  BY <1>1 DEF IInv, ExecTypeOK, PanicInWork
<1>4. ExecTypeOK'
  BY <1>1, <1>2, <1>3 DEF IInv, ExecTypeOK, PanicInWork, Lower, OthersStay, State
<1>5. MutualExclusion' /\ FlagMeansInside'
  BY <1>2, LeavingKeeps DEF PanicInWork, Inside
<1>6. MutexMeansWork'
  <2> SUFFICES ASSUME NEW x \in Curl, NEW v \in Workers
               PROVE  mutex'[x] = v <=> exec'[v].pc = "work" /\ exec'[v].object = x
    BY DEF MutexMeansWork, Object
  <2>1. x \in Objects /\ v # Lost
    BY ExecutionAssumption DEF ExecutionAssumption
  <2>2. /\ mutex[x] = v <=> exec[v].pc = "work" /\ exec[v].object = x
        /\ mutex[x] = w <=> exec[w].pc = "work" /\ exec[w].object = x
    BY DEF IInv, MutexMeansWork, Object
  <2>3. CASE v = w
    BY <1>2, <1>3, <2>1, <2>2, <2>3 DEF PanicInWork, Object
  <2>4. CASE v # w
    BY <1>2, <1>3, <2>1, <2>2, <2>4 DEF PanicInWork, OthersStay, Object
  <2> QED
    BY <2>3, <2>4
<1>7. OwnResult'
  BY <1>2 DEF IInv, OwnResult, PanicInWork, OthersStay, Object
<1>8. RetriesLeft'
  BY <1>2 DEF IInv, RetriesLeft, OthersStay
<1> QED
  BY <1>8, <1>4, <1>5, <1>6, <1>7 DEF IInv

\* The ends of an execution's callback have this in common.
LEMMA ReportEnds ==
    ASSUME IInv, NEW w \in Workers, exec[w].pc = "report", Lower(w),
           OthersStay(w), UNCHANGED <<mutex, result, cancelled>>,
           \/ exec'[w].pc = "wait" /\ exec'[w].object = exec[w].object /\ exec'[w].retry < MaxRetries
           \/ exec'[w].pc = "idle" /\ exec'[w].object = Nobody
    PROVE  IInv'
<1>1. ExecTypeOK'
  <2>1. running' \in [Objects -> BOOLEAN]
    BY DEF IInv, ExecTypeOK, Lower
  <2>2. exec[w].object # Nobody
    BY BusyObject DEF IInv, Object
  <2> QED
    BY <2>1, <2>2 DEF IInv, ExecTypeOK, OthersStay, State
<1>2. MutualExclusion' /\ FlagMeansInside'
  BY LeavingKeeps DEF Inside
<1>3. MutexMeansWork' /\ OwnResult'
  BY DEF IInv, MutexMeansWork, OwnResult, OthersStay, Object
<1>4. RetriesLeft'
  BY DEF IInv, RetriesLeft, OthersStay
<1> QED
  BY <1>4, <1>1, <1>2, <1>3 DEF IInv

LEMMA PanicInCallbackKeeps ==
    ASSUME IInv, NEW w \in Workers, PanicInCallback(w)
    PROVE  IInv'
<1>1. OthersStay(w) /\ exec'[w].pc = "idle" /\ exec'[w].object = Nobody
  BY IdleIsTyped DEF IInv, ExecTypeOK, PanicInCallback, OthersStay, State
<1> QED
  BY <1>1, ReportEnds DEF PanicInCallback

LEMMA ReturnKeeps ==
    ASSUME IInv, NEW w \in Workers, Return(w)
    PROVE  IInv'
<1>1. exec[w].pc = "report" /\ Lower(w) /\ UNCHANGED <<mutex, result, cancelled>>
  BY DEF Return
<1>2. /\ OthersStay(w)
      /\ \/ exec'[w].pc = "wait" /\ exec'[w].object = exec[w].object /\ exec'[w].retry < MaxRetries
         \/ exec'[w].pc = "idle" /\ exec'[w].object = Nobody
  <2>1. CASE exec[w].ok
    BY <2>1, IdleIsTyped DEF IInv, ExecTypeOK, Return, OthersStay, State
  <2>2. CASE ~exec[w].ok
    <3>1. AfterError(w)
      BY <2>2 DEF Return
    <3> QED
      BY <1>1, <3>1, AfterErrorEffect DEF IInv, OthersStay, State
  <2> QED
    BY <2>1, <2>2
<1> QED
  BY <1>1, <1>2, ReportEnds

LEMMA RetryKeeps ==
    ASSUME IInv, NEW w \in Workers, Retry(w)
    PROVE  IInv'
<1>1. exec[w].retry + 1 \in 0..MaxRetries
  BY ExecutionAssumption DEF IInv, RetriesLeft, ExecTypeOK, Retry, ExecutionAssumption
<1>2. OthersStay(w) /\ exec'[w].pc = "call" /\ exec'[w].object = exec[w].object
  BY <1>1 DEF IInv, ExecTypeOK, Retry, PCs, OthersStay, State
<1>3. ExecTypeOK'
  BY <1>2 DEF IInv, ExecTypeOK, Retry, OthersStay, State
<1>4. exec[w].pc \in Outside /\ exec'[w].pc \in Outside /\ UNCHANGED <<running, mutex, result>>
  BY <1>2 DEF Retry, Outside
<1>5. RetriesLeft'
  BY <1>2 DEF IInv, RetriesLeft, OthersStay
<1> QED
  BY <1>2, <1>3, <1>4, <1>5, OutsideKeeps DEF IInv

LEMMA GiveUpKeeps ==
    ASSUME IInv, NEW w \in Workers, GiveUp(w)
    PROVE  IInv'
<1>1. OthersStay(w) /\ exec'[w].pc = "idle" /\ exec'[w].object = Nobody
  BY IdleIsTyped DEF IInv, ExecTypeOK, GiveUp, OthersStay, State
<1>2. ExecTypeOK'
  BY <1>1 DEF IInv, ExecTypeOK, GiveUp, OthersStay, State
<1>3. exec[w].pc \in Outside /\ exec'[w].pc \in Outside /\ UNCHANGED <<running, mutex, result>>
  BY <1>1 DEF GiveUp, Outside
<1>4. RetriesLeft'
  BY <1>1 DEF IInv, RetriesLeft, OthersStay
<1> QED
  BY <1>4, <1>1, <1>2, <1>3, OutsideKeeps DEF IInv

LEMMA CancelKeeps ==
    ASSUME IInv, NEW ws \in SUBSET Workers, Cancel(ws)
    PROVE  IInv'
BY DEF IInv, Cancel, ExecTypeOK, RetriesLeft, MutualExclusion, FlagMeansInside,
       MutexMeansWork, OwnResult, Inside, Object

LEMMA StutterKeeps ==
    ASSUME IInv, UNCHANGED execVars
    PROVE  IInv'
BY DEF IInv, execVars, ExecTypeOK, RetriesLeft, MutualExclusion, FlagMeansInside,
       MutexMeansWork, OwnResult, Inside, Object

-----------------------------------------------------------------------------
LEMMA InitEstablishes == ExecInit => IInv
<1> SUFFICES ASSUME ExecInit
             PROVE  IInv
  OBVIOUS
<1>1. ExecTypeOK /\ RetriesLeft
  BY IdleIsTyped DEF ExecInit, ExecTypeOK, RetriesLeft
<1>2. \A w \in Workers : exec[w].pc = "idle"
  BY IdleIsTyped DEF ExecInit
<1>3. MutualExclusion /\ FlagMeansInside /\ OwnResult
  BY <1>2 DEF ExecInit, MutualExclusion, FlagMeansInside, OwnResult, Inside
<1>4. MutexMeansWork
  BY <1>2, ExecutionAssumption DEF ExecInit, MutexMeansWork, ExecutionAssumption
<1> QED
  BY <1>1, <1>3, <1>4 DEF IInv

LEMMA NextKeeps == IInv /\ [ExecNext]_execVars => IInv'
<1> SUFFICES ASSUME IInv, [ExecNext]_execVars
             PROVE  IInv'
  OBVIOUS
<1>1. ASSUME NEW w \in Workers, NEW o \in Objects, Begin(w, o) PROVE IInv'
  BY <1>1, BeginKeeps
<1>2. ASSUME NEW w \in Workers, WorkerStep(w) PROVE IInv'
  BY <1>2, EnterKeeps, RefuseKeeps, AcquireKeeps, RecordKeeps, PanicInWorkKeeps,
     PanicInCallbackKeeps, ReturnKeeps, RetryKeeps, GiveUpKeeps DEF WorkerStep
<1>3. ASSUME NEW ws \in SUBSET Workers, Cancel(ws) PROVE IInv'
  BY <1>3, CancelKeeps
<1> QED
  BY <1>1, <1>2, <1>3, StutterKeeps DEF ExecNext

\* The strengthened invariant, for every set of workers and jobs: the basis
\* of the theorems below.
THEOREM ExecutionInvariant == ExecSpec => []IInv
BY InitEstablishes, NextKeeps, PTL DEF ExecSpec

\* At most one worker is inside an isolated job, whatever fails, panics,
\* is retried or stopped (NewIsolatedJob).
THEOREM IsolatedJobsExclude == ExecSpec => []MutualExclusion
<1>1. IInv => MutualExclusion
  BY DEF IInv
<1> QED
  BY <1>1, ExecutionInvariant, PTL

\* The flag of an isolated job is up exactly while a worker is inside it: it
\* is never left up, which would refuse the job's executions for ever.
THEOREM IsolatedFlagIsExact == ExecSpec => []FlagMeansInside
<1>1. IInv => FlagMeansInside
  BY DEF IInv
<1> QED
  BY <1>1, ExecutionInvariant, PTL

\* A curl job's mutex is held exactly during its request, but for a panic of
\* the HTTP client.
THEOREM CurlMutexIsExact == ExecSpec => []MutexMeansWork
<1>1. IInv => MutexMeansWork
  BY DEF IInv
<1> QED
  BY <1>1, ExecutionInvariant, PTL

\* The callback of an isolated job sees the result of its own execution.
THEOREM IsolatedCallbacksSeeTheirResult == ExecSpec => []OwnResult
<1>1. IInv => OwnResult
  BY DEF IInv
<1> QED
  BY <1>1, ExecutionInvariant, PTL

=============================================================================
