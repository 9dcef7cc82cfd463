------------------------------ MODULE AtomicCommit ------------------------------
(***************************************************************************)
(* What pkg/store/twopc.go promises in its header comment (lines 19-29):   *)
(* the operations of one transaction, spread over several participants,    *)
(* are either applied by all of them or dropped by all of them.            *)
(*                                                                         *)
(* A participant first holds its share of the operations (PREPARE); once   *)
(* the transaction is decided, the share it holds is applied or dropped.   *)
(* A share may be held after an abort was decided (a PREPARE that arrives  *)
(* late), never after a commit.                                            *)
(***************************************************************************)
CONSTANT Participant

VARIABLES decision,  \* the outcome of the transaction
          fate       \* fate[p]: what became of the operations sent to p

absVars == <<decision, fate>>

Fate == {"none", "held", "applied", "dropped"}

AbsTypeOK == /\ decision \in {"undecided", "commit", "abort"}
             /\ fate \in [Participant -> Fate]

AbsInit == /\ decision = "undecided"
           /\ fate = [p \in Participant |-> "none"]

Hold(p) == /\ decision # "commit"
           /\ fate[p] = "none"
           /\ fate' = [fate EXCEPT ![p] = "held"]
           /\ UNCHANGED decision

Decide(d) == /\ decision = "undecided"
             /\ decision' = d
             /\ UNCHANGED fate

Apply(p) == /\ decision = "commit"
            /\ fate[p] = "held"
            /\ fate' = [fate EXCEPT ![p] = "applied"]
            /\ UNCHANGED decision

Drop(p) == /\ decision = "abort"
           /\ fate[p] = "held"
           /\ fate' = [fate EXCEPT ![p] = "dropped"]
           /\ UNCHANGED decision

AbsNext == \/ \E p \in Participant : Hold(p) \/ Apply(p) \/ Drop(p)
           \/ \E d \in {"commit", "abort"} : Decide(d)

AbsSpec == AbsInit /\ [][AbsNext]_absVars

-----------------------------------------------------------------------------
(* All or nothing: no two participants end on different sides.             *)
AbsAtomic == \A p, q \in Participant :
                 ~ (fate[p] = "applied" /\ fate[q] = "dropped")
=============================================================================
