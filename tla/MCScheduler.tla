---------------------------- MODULE MCScheduler ----------------------------
(* Scheduler with the costs and the quantum of src/hardware.rs. *)
EXTENDS Scheduler

MCSrMasks == {0, 4}
=============================================================================
