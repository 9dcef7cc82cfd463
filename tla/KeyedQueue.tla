----------------------------- MODULE KeyedQueue -----------------------------
(***************************************************************************)
(* What the work queue of pkg/controller promises to those who use it,     *)
(* without its lists, locks, timers and workers.  A key that was requested *)
(* stays wanted until an execution of it begins; requests for the same key *)
(* before that are one; two executions of a key never overlap; a request   *)
(* that arrives during an execution outlives it.  Only a closed queue may  *)
(* drop a key, and it takes no new ones.                                   *)
(***************************************************************************)
CONSTANT Key

VARIABLES wanted,  \* keys that an execution is still due for
          active,  \* keys that are being executed
          closed   \* the queue accepts no more requests

vars == <<wanted, active, closed>>

Init == wanted = {} /\ active = {} /\ closed = FALSE

Request(k) == /\ ~ closed
              /\ wanted' = wanted \cup {k}
              /\ UNCHANGED <<active, closed>>

(* An execution answers the requests made so far, but for those that asked *)
(* for a later time.                                                       *)
Begin(k) == /\ k \in wanted \ active
            /\ active' = active \cup {k}
            /\ wanted' \in {wanted, wanted \ {k}}
            /\ UNCHANGED closed

End(k) == /\ k \in active
          /\ active' = active \ {k}
          /\ UNCHANGED <<wanted, closed>>

Close == closed' = TRUE /\ UNCHANGED <<wanted, active>>

Drop(k) == /\ closed
           /\ wanted' = wanted \ {k}
           /\ UNCHANGED <<active, closed>>

Next == \/ \E k \in Key : Request(k) \/ Begin(k) \/ End(k) \/ Drop(k)
        \/ Close

Spec == Init /\ [][Next]_vars
=============================================================================
