------------------------------ MODULE Trigger -------------------------------
(***************************************************************************)
(* The triggers of quartz/trigger.go: a SimpleTrigger fires again and      *)
(* again, a RunOnceTrigger fires the first time NextFireTime is called on  *)
(* it and is expired from then on. A cron trigger that always has a next   *)
(* date behaves like a member of Triggers \ Once.                          *)
(*                                                                         *)
(* `expired' is the Expired field of every RunOnceTrigger. Time is a       *)
(* number of clock units since the epoch.                                  *)
(***************************************************************************)
EXTENDS Integers

CONSTANTS Triggers,    \* every trigger object
          Once,        \* those that are RunOnceTriggers
          Period       \* Interval of a SimpleTrigger, Delay of a RunOnceTrigger

\* A SimpleTrigger of interval 0 (or a negative one) is due again as soon as
\* it has fired: the configuration SchedulerConfig warns against.
TriggerAssumption ==
    /\ Once \subseteq Triggers
    /\ Period \in [Triggers -> Nat]
    /\ \A t \in Triggers \ Once : Period[t] > 0
ASSUME TriggerAssumption

\* NextFireTime returns ErrTriggerExpired exactly when this is false.
CanFire(expired, t) == t \in Once => ~expired[t]

NextFireTime(t, prev) == prev + Period[t]

\* What a successful NextFireTime leaves behind.
Consume(expired, t) == [expired EXCEPT ![t] = t \in Once]

=============================================================================
