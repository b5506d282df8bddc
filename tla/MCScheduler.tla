---------------------------- MODULE MCScheduler ----------------------------
(* Instances of Scheduler for TLC. *)
EXTENDS Scheduler

OneFile      == <<1>>
SameFiles    == <<2, 2>>
FewerOrNone  == <<2, 1, 0>>
=============================================================================
