---------------------------- MODULE MCScheduler -----------------------------
(***************************************************************************)
(* Instances of Scheduler for TLC. Three JobDetails over two keys: d1 may  *)
(* be replaced, d1b has d1's key and may not, d2 stands alone. One simple  *)
(* trigger and one run-once trigger.                                       *)
(***************************************************************************)
EXTENDS Scheduler

CONSTANTS d1, d1b, d2, k1, k2, simple, once

MCKeyOf == [d \in Details |-> IF d = d2 THEN k2 ELSE k1]
MCPeriod == [t \in Triggers |-> IF t = once THEN 0 ELSE 1]

=============================================================================
