----------------------------- MODULE FileQueue ------------------------------
(***************************************************************************)
(* The job queue of examples/queue/file_system.go: a directory with a file *)
(* for every job, named by the job's run time. The contents are a function *)
(* from the run times that name a file to the jobs in the files.           *)
(*                                                                         *)
(* Run times are below math.MaxInt64: findHead skips a file of that name,  *)
(* which only PauseJob writes.                                             *)
(***************************************************************************)
EXTENDS Integers, FiniteSets

Size(files) == Cardinality(DOMAIN files)

HasJob(files, j) == \E t \in DOMAIN files : files[t] = j

\* The names that findHead looks for: the least one, if there is any
\* (otherwise it returns ErrJobNotFound).
HeadTimes(files) == {t \in DOMAIN files : \A u \in DOMAIN files : t <= u}

\* os.WriteFile replaces a file of the same name, whatever job it holds. The
\* job's key and opts.Replace are not looked at.
Push(files, t, j) ==
    [u \in DOMAIN files \cup {t} |-> IF u = t THEN j ELSE files[u]]

\* os.Remove.
Without(files, t) == [u \in DOMAIN files \ {t} |-> files[u]]

=============================================================================
