--------------------------------- MODULE MCWAL ---------------------------------
(* WAL with model values for operations that may be exchanged.             *)
EXTENDS WAL, TLC

Symmetry == Permutations(Op)
=============================================================================
