------------------------------ MODULE WorkQueue ------------------------------
(***************************************************************************)
(* The work queue of pkg/controller/queue.go: the operations, each one the *)
(* critical section under q.mu, as actions on the state of one queue.      *)
(* Controller composes them with the workers that call them.               *)
(*                                                                         *)
(* A request is its key (NamespacedName).  Time is abstracted: an item in  *)
(* delayed is due at a moment that the model leaves open, so PromoteTake   *)
(* may find any of them due.  Metrics are left out.                        *)
(***************************************************************************)
EXTENDS Naturals, Sequences, FiniteSets

CONSTANTS Key,       \* keys of requests, the resync sentinel among them
          Worker,    \* goroutines that call Get
          MaxTokens  \* bound: a caller adds a key while fewer entries of it exist

ASSUME MaxTokensIsNat == MaxTokens \in Nat
ASSUME WorkersAreFinite == IsFiniteSet(Worker)

VARIABLES items,       \* FIFO queue of keys
          dirty,       \* keys that need processing
          processing,  \* keys taken by Get and not yet given back by Done
          delayed,     \* delayed[k]: entries for k in the list of delayed items
          promoting,   \* promoting[k]: entries for k in promoteDelayedLoop's toPromote
          backoff,     \* keys with an entry in the map backoff
          shutdown,    \* ShutDown was called
          waiting      \* workers in cond.Wait

queueVars == <<items, dirty, processing, delayed, promoting, backoff, shutdown,
               waiting>>

QueueTypeOK == /\ items \in Seq(Key)
               /\ dirty \subseteq Key
               /\ processing \subseteq Key
               /\ delayed \in [Key -> Nat]
               /\ promoting \in [Key -> Nat]
               /\ backoff \subseteq Key
               /\ shutdown \in BOOLEAN
               /\ waiting \subseteq Worker

QueueInit == /\ items = <<>>
             /\ dirty = {}
             /\ processing = {}
             /\ delayed = [k \in Key |-> 0]
             /\ promoting = [k \in Key |-> 0]
             /\ backoff = {}
             /\ shutdown = FALSE
             /\ waiting = {}

-----------------------------------------------------------------------------
(* cond.Signal wakes one of the waiting workers, if there is one.          *)
Signal == \/ waiting = {} /\ UNCHANGED waiting
          \/ \E w \in waiting : waiting' = waiting \ {w}

(* Append to the queue and wake a worker.                                  *)
Push(k) == items' = Append(items, k) /\ Signal

(* Mutation: the item is queued and nobody is woken.                       *)
MutPushSilently(k) ==
    /\ dirty' = IF shutdown THEN dirty ELSE dirty \cup {k}
    /\ items' = IF shutdown \/ k \in dirty \cup processing THEN items
                ELSE Append(items, k)
    /\ UNCHANGED waiting

(* Mutation: an item that is being processed is queued at once.            *)
MutQueueInFlight(k) == IF shutdown \/ k \in dirty
                       THEN UNCHANGED <<dirty, items, waiting>>
                       ELSE dirty' = dirty \cup {k} /\ Push(k)

(* The effect of Add: dropped after a shutdown and if the key is already   *)
(* dirty; a key in flight is left for Done to queue.                       *)
Enter(k) == IF shutdown \/ k \in dirty
            THEN UNCHANGED <<dirty, items, waiting>>
            ELSE /\ dirty' = dirty \cup {k}
                 /\ IF k \in processing THEN UNCHANGED <<items, waiting>> ELSE Push(k)

Add(k) == Enter(k) /\ UNCHANGED <<processing, delayed, promoting, backoff, shutdown>>

(* AddAfter with a positive delay; AddRateLimited ends with it.            *)
AddAfter(k) ==
    /\ delayed' = IF shutdown THEN delayed ELSE [delayed EXCEPT ![k] = @ + 1]
    /\ UNCHANGED <<items, dirty, processing, promoting, backoff, shutdown, waiting>>

(* The first critical section of AddRateLimited: count the failure.        *)
CountFailure(k) ==
    /\ backoff' = backoff \cup {k}
    /\ UNCHANGED <<items, dirty, processing, delayed, promoting, shutdown, waiting>>

Forget(k) ==
    /\ backoff' = backoff \ {k}
    /\ UNCHANGED <<items, dirty, processing, delayed, promoting, shutdown, waiting>>

(* Get: the three things the loop of w can find when it holds the lock.    *)
GetWaits(w) == /\ w \notin waiting
               /\ items = <<>>
               /\ ~ shutdown
               /\ waiting' = waiting \cup {w}
               /\ UNCHANGED <<items, dirty, processing, delayed, promoting,
                              backoff, shutdown>>

GetShutsDown(w) == /\ w \notin waiting
                   /\ items = <<>>
                   /\ shutdown
                   /\ UNCHANGED queueVars

GetTakes(w) == /\ w \notin waiting
               /\ items # <<>>
               /\ items' = Tail(items)
               /\ processing' = processing \cup {Head(items)}
               /\ dirty' = dirty \ {Head(items)}
               /\ UNCHANGED <<delayed, promoting, backoff, shutdown, waiting>>

(* Mutation: Done forgets the key that was added while it was processed.   *)
MutDoneDropsDirty(k) ==
    /\ processing' = processing \ {k}
    /\ dirty' = dirty \ {k}
    /\ UNCHANGED <<items, delayed, promoting, backoff, shutdown, waiting>>

(* Mutation: Done queues the key again without looking at dirty.           *)
MutDoneAlwaysQueues(k) ==
    /\ processing' = processing \ {k}
    /\ Push(k)
    /\ UNCHANGED <<dirty, delayed, promoting, backoff, shutdown>>

Done(k) == /\ processing' = processing \ {k}
           /\ IF k \in dirty THEN Push(k) ELSE UNCHANGED <<items, waiting>>
           /\ UNCHANGED <<dirty, delayed, promoting, backoff, shutdown>>

(* Mutation: a shutdown wakes one worker instead of all of them.           *)
MutShutDownSignals ==
    /\ shutdown' = TRUE
    /\ Signal
    /\ UNCHANGED <<items, dirty, processing, delayed, promoting, backoff>>

ShutDown == /\ shutdown' = TRUE
            /\ waiting' = {}
            /\ UNCHANGED <<items, dirty, processing, delayed, promoting, backoff>>

-----------------------------------------------------------------------------
(* promoteDelayedLoop takes the items that are due out of delayed, lets    *)
(* the lock go, and adds them one by one.  The loop is one goroutine: the  *)
(* next tick comes after the last Add, and none after a shutdown.          *)
PromoteTake ==
    /\ ~ shutdown
    /\ \A k \in Key : promoting[k] = 0
    /\ \E due \in [Key -> UNION {0..delayed[k] : k \in Key}] :
           /\ \A k \in Key : due[k] <= delayed[k]
           /\ promoting' = due
           /\ delayed' = [k \in Key |-> delayed[k] - due[k]]
    /\ UNCHANGED <<items, dirty, processing, backoff, shutdown, waiting>>

PromoteAdd(k) ==
    /\ promoting[k] > 0
    /\ promoting' = [promoting EXCEPT ![k] = @ - 1]
    /\ Enter(k)
    /\ UNCHANGED <<processing, delayed, backoff, shutdown>>
=============================================================================
