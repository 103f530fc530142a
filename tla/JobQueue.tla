------------------------------ MODULE JobQueue ------------------------------
(***************************************************************************)
(* The contents of a JobQueue (quartz/queue.go) as a set of entries, and   *)
(* what each of its operations does to them. An entry is a scheduledJob: a *)
(* record with at least a `detail' (its *JobDetail) and a `priority' (its  *)
(* next run time). The in-memory jobQueue keeps the entries in a binary    *)
(* heap; HeapQueue models the heap and is proved to implement these        *)
(* operators.                                                              *)
(***************************************************************************)
EXTENDS Integers, FiniteSets

CONSTANTS Details,     \* JobDetail objects
          JobKeys,     \* job keys, group and name together
          KeyOf,       \* the key of each JobDetail
          Replace      \* the JobDetails with opts.Replace

QueueAssumption ==
    /\ KeyOf \in [Details -> JobKeys]
    /\ Replace \subseteq Details
ASSUME QueueAssumption

Key(e) == KeyOf[e.detail]
Keys(q) == {Key(e) : e \in q}

\* The entry Get, Remove and Push find for a key.
WithKey(q, k) == {e \in q : Key(e) = k}

\* Push returns ErrJobAlreadyExists exactly when this is false.
CanPush(q, e) == e.detail \in Replace \/ Key(e) \notin Keys(q)

\* Mutant of Push: it adds the entry and leaves the one it replaces.
PushBeside(q, e) == q \cup {e}

Push(q, e) == (q \ WithKey(q, Key(e))) \cup {e}

\* The entries that Head and Pop may return: the heap breaks ties its way.
Heads(q) == {e \in q : \A f \in q : e.priority <= f.priority}

=============================================================================
