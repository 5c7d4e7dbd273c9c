----------------------------- MODULE MCScheduler -----------------------------
(* Instances of Scheduler: daily runs at every moment, wake is a one-shot  *)
(* job on a cron pattern (it would match twice), bad has a schedule that    *)
(* croner refuses.                                                          *)
EXTENDS Scheduler

CONSTANTS daily, wake, bad

MCDueAt == [j \in Job |-> CASE j = daily -> 1..MaxTime
                            [] j = wake -> {1, MaxTime}
                            [] OTHER -> {}]
=============================================================================
