------------------------------ MODULE MCGicLoops ------------------------------
(* One core with private interrupts, whose software keeps to no rule. *)
EXTENDS GicLoops

AllRoutes == SUBSET Cores
=============================================================================
