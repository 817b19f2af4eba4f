------------------------ MODULE MCProductionRuntime ------------------------
(* Instances of the coordinator for TLC.                                   *)
EXTENDS ProductionRuntime
=============================================================================
