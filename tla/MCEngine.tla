-------------------------------- MODULE MCEngine --------------------------------
(* SchedulerEngine with two workloads of which the first goes before the   *)
(* second; which of them fit a node is part of the initial state.          *)
EXTENDS SchedulerEngine, TLC

CONSTANTS a, b

MCPriority == (a :> 2) @@ (b :> 1)
=============================================================================
