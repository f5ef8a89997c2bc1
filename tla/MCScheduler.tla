---------------------------- MODULE MCScheduler ----------------------------
(* TLC instances of Scheduler.                                              *)
EXTENDS Scheduler

CONSTANTS j1, j2, s1, s2, adhoc
=============================================================================
