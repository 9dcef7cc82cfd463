------------------------------- MODULE MCBreaker -------------------------------
(* CircuitBreaker with two callers more than there are slots in HalfOpen,  *)
(* so that results of the Closed period arrive late.                       *)
EXTENDS CircuitBreaker
=============================================================================
