------------------------------- MODULE MCTwoPC -------------------------------
(* TwoPC on small instances: three participants where the spread of the    *)
(* operations matters, two in the runs that show a violation.  No symmetry:*)
(* the main run checks liveness.                                           *)
EXTENDS TwoPC
=============================================================================
