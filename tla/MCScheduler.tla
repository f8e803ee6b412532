----------------------------- MODULE MCScheduler ----------------------------
(* Instances of Scheduler for TLC. *)
EXTENDS Scheduler

CONSTANTS j1, n1

OneJob  == {j1}
OneName == {n1}
=============================================================================
