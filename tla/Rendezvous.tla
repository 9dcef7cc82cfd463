------------------------------ MODULE Rendezvous ------------------------------
(***************************************************************************)
(* What a gang barrier promises the workers that wait at it (the comments  *)
(* of Wait and Fail in pkg/training/gang_barrier.go): it is decided once,  *)
(* it is decided well only if enough workers came, and everybody who waits *)
(* is told the same.                                                       *)
(***************************************************************************)
EXTENDS Naturals, FiniteSets

CONSTANTS Gang, Worker

VARIABLES size,     \* size[g]: how many workers must come, 0 before the start
          came,     \* came[g]: the workers that came
          outcome,  \* outcome[g]: "open" until the barrier is decided
          told      \* told[g]: the answers that workers got from Wait

absVars == <<size, came, outcome, told>>

AbsInit == /\ size = [g \in Gang |-> 0]
           /\ came = [g \in Gang |-> {}]
           /\ outcome = [g \in Gang |-> "open"]
           /\ told = [g \in Gang |-> {}]

Open(g) == /\ size[g] = 0
           /\ size'[g] \in Nat \ {0}
           /\ size' = [size EXCEPT ![g] = size'[g]]
           /\ UNCHANGED <<came, outcome, told>>

Come(g) == /\ size[g] > 0
           /\ \E w \in Worker \ came[g] : came' = [came EXCEPT ![g] = @ \cup {w}]
           /\ UNCHANGED <<size, outcome, told>>

Complete(g) == /\ outcome[g] = "open"
               /\ size[g] > 0
               /\ Cardinality(came[g]) >= size[g]
               /\ outcome' = [outcome EXCEPT ![g] = "ok"]
               /\ UNCHANGED <<size, came, told>>

Break(g) == /\ outcome[g] = "open"
            /\ size[g] > 0
            /\ outcome' = [outcome EXCEPT ![g] = "failed"]
            /\ UNCHANGED <<size, came, told>>

Tell(g) == /\ outcome[g] # "open"
           /\ told' = [told EXCEPT ![g] = @ \cup {outcome[g]}]
           /\ UNCHANGED <<size, came, outcome>>

AbsNext == \E g \in Gang : \/ Open(g) \/ Come(g)
                           \/ Complete(g) \/ Break(g) \/ Tell(g)

AbsSpec == AbsInit /\ [][AbsNext]_absVars
=============================================================================
