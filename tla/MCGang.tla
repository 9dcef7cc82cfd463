--------------------------------- MODULE MCGang ---------------------------------
(* GangScheduler with a strict gang and an elastic one that do not fit     *)
(* together: the ledger has to be exact for the second to be admitted      *)
(* after the first.                                                        *)
EXTENDS GangScheduler, TLC

CONSTANTS g1, g2, w1, w2

(* The workers of g2 are left out: its barrier is created and dropped, and *)
(* times out, but nobody meets there.                                      *)
MCCrew == (g1 :> {w1, w2}) @@ (g2 :> {})

MCDim == {"gpu", "mem"}
MCCapacity == [d \in MCDim |-> 3]
MCJobSpec == {[replicas |-> 2, minMembers |-> 0, resources |-> [gpu |-> 1, mem |-> 0]],
              [replicas |-> 2, minMembers |-> 1, resources |-> [gpu |-> 2, mem |-> 1]]}
=============================================================================
