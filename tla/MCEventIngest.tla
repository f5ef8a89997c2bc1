---------------------------- MODULE MCEventIngest ----------------------------
(***************************************************************************)
(* Model checking of EventIngest: one source, a clock of a few ticks with  *)
(* a midnight in the middle, more events than a batch takes.               *)
(***************************************************************************)
EXTENDS EventIngest
CONSTANT v1
============================================================================
