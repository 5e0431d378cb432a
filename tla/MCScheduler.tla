---------------------------- MODULE MCScheduler ----------------------------
(***************************************************************************)
(* Scheduler with up to five threads that yield up to three times, so that *)
(* threads terminate in every order, one by one and together.              *)
(***************************************************************************)
EXTENDS Scheduler
=============================================================================
