-------------------------------- MODULE MCGic --------------------------------
(* The interrupt controller, model-checked. *)
EXTENDS Gic

AllRoutes == SUBSET Cores
=============================================================================
