----------------------------- MODULE MCController -----------------------------
(* Controller on a small instance: two keys and two workers, so that a key *)
(* can be queued, in flight and delayed at the same time as another.  No   *)
(* symmetry: the run checks liveness.                                      *)
EXTENDS Controller
=============================================================================
