---------------------------- MODULE MCHandleTable ----------------------------
(* Instances of HandleTable for TLC.                                         *)
EXTENDS HandleTable
=============================================================================
