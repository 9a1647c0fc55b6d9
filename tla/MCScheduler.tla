---------------------------- MODULE MCScheduler -----------------------------
(***************************************************************************)
(* A small instance of Scheduler: t1 and t2 compete for one name, t3 and   *)
(* t4 for another and with t2 for a priority, and t4 cannot be started.    *)
(***************************************************************************)
EXTENDS Scheduler

CONSTANTS a, b, t1, t2, t3, t4

TaskName == [t \in Tasks |-> IF t \in {t1, t2} THEN a ELSE b]
TaskKind == [t \in Tasks |-> CASE t = t1 -> "Interval" [] t = t2 -> "Delay" [] OTHER -> "Cron"]
TaskPriority == [t \in Tasks |-> IF t = t1 THEN -1 ELSE 1]
=============================================================================
