----------------------------- MODULE MCScheduler -----------------------------
(* Instances of Scheduler for TLC: the configurations choose the tasks, the *)
(* calendar, the slots, the faults and the bounds.                          *)
EXTENDS Scheduler
=============================================================================
