------------------------------ MODULE Controller ------------------------------
(***************************************************************************)
(* One controller of the manager in pkg/controller/manager.go: its work    *)
(* queue, the MaxConcurrentReconciles workers that run runWorker and       *)
(* processItem, the goroutine of Start, and the elector's goroutine.       *)
(*                                                                         *)
(* The elector is modelled from pkg/election as Manager uses it: Run is    *)
(* called once, IsLeader turns true when the lease is acquired and, once   *)
(* the lease is lost, never again: le.Run of the Lease backend returns,    *)
(* and the memory backend calls becomeLeader only when Run starts.  A      *)
(* manager whose elector could not be set up runs as if LeaderElection     *)
(* were FALSE.                                                             *)
(***************************************************************************)
EXTENDS WorkQueue

CONSTANTS LeaderElection,  \* config.LeaderElection
          NoKey

ASSUME NoKeyIsNoKey == NoKey \notin Key

VARIABLES pc,     \* pc[w]: where worker w stands
          job,    \* job[w]: the request w is processing
          main,   \* the goroutine that runs Start
          lease,  \* the elector's side of the lease
          owed    \* history: keys that changed, or asked for a retry, since
                  \* the last reconciliation of theirs started

ctlVars == <<pc, job, main, lease>>
vars == <<queueVars, ctlVars, owed>>

PC == {"get", "check", "reconcile", "requeueAfter", "requeue", "done", "exited"}

TypeOK == /\ QueueTypeOK
          /\ pc \in [Worker -> PC]
          /\ job \in [Worker -> Key \cup {NoKey}]
          /\ main \in {"running", "cancelled", "resigned", "draining", "stopped"}
          /\ lease \in {"campaigning", "held", "lost"}
          /\ owed \subseteq Key

Init == /\ QueueInit
        /\ pc = [w \in Worker |-> "get"]
        /\ job = [w \in Worker |-> NoKey]
        /\ main = "running"
        /\ lease = "campaigning"
        /\ owed = {}

IsLeader == LeaderElection => lease = "held"

Owe(k) == owed' = IF shutdown THEN owed ELSE owed \cup {k}

-----------------------------------------------------------------------------
(* Requests from outside: Manager.Enqueue and EnqueueAfter, and the resync *)
(* loop, which adds its sentinel key until ctx is cancelled.               *)

Flag(b) == IF b THEN 1 ELSE 0
Tokens(k) == delayed[k] + promoting[k] + Flag(k \in dirty) + Flag(k \in processing)

Enqueue(k) == /\ Tokens(k) < MaxTokens
              /\ Add(k)
              /\ Owe(k)
              /\ UNCHANGED ctlVars

EnqueueAfter(k) == /\ Tokens(k) < MaxTokens
                   /\ AddAfter(k)
                   /\ Owe(k)
                   /\ UNCHANGED ctlVars

Promote == PromoteTake \/ \E k \in Key : PromoteAdd(k)

-----------------------------------------------------------------------------
(* runWorker and processItem                                               *)

Goto(w, l) == pc' = [pc EXCEPT ![w] = l]

Wait(w) == /\ pc[w] = "get"
           /\ GetWaits(w)
           /\ UNCHANGED <<ctlVars, owed>>

(* Mutation: the worker ignores that Get returned because of a shutdown.   *)
MutIgnoreShutdown(w) == /\ pc[w] = "get"
                        /\ GetShutsDown(w)
                        /\ Goto(w, "check")
                        /\ UNCHANGED <<job, main, lease, owed>>

Exit(w) == /\ pc[w] = "get"
           /\ GetShutsDown(w)
           /\ Goto(w, "exited")
           /\ UNCHANGED <<job, main, lease, owed>>

Take(w) == /\ pc[w] = "get"
           /\ GetTakes(w)
           /\ job' = [job EXCEPT ![w] = Head(items)]
           /\ Goto(w, "check")
           /\ UNCHANGED <<main, lease, owed>>

(* Only the leader reconciles; the reconciliation starts from the state of *)
(* the object as it is now, so it covers every change so far.              *)
StartReconcile(w) == /\ pc[w] = "check"
                     /\ IsLeader
                     /\ Goto(w, "reconcile")
                     /\ owed' = owed \ {job[w]}
                     /\ UNCHANGED <<queueVars, job, main, lease>>

(* Mutation: an instance that does not lead drops the request.             *)
MutDropIfNotLeader(w) == /\ pc[w] = "check"
                         /\ ~ IsLeader
                         /\ Goto(w, "done")
                         /\ UNCHANGED <<queueVars, job, main, lease, owed>>

SkipNotLeader(w) == /\ pc[w] = "check"
                    /\ ~ IsLeader
                    /\ Goto(w, "requeueAfter")
                    /\ UNCHANGED <<queueVars, job, main, lease, owed>>

(* Reconcile returned an error: the failure is counted, then AddAfter.     *)
ReconcileFails(w) == /\ pc[w] = "reconcile"
                     /\ CountFailure(job[w])
                     /\ Goto(w, "requeueAfter")
                     /\ Owe(job[w])
                     /\ UNCHANGED <<job, main, lease>>

(* Mutation: the failures of a key are not forgotten.                      *)
MutNoForget(w) ==
    /\ pc[w] = "reconcile"
    /\ \/ Goto(w, "done") /\ UNCHANGED owed
       \/ Goto(w, "requeueAfter") /\ Owe(job[w])
       \/ Goto(w, "requeue") /\ Owe(job[w])
    /\ UNCHANGED <<queueVars, job, main, lease>>

(* It succeeded: Forget, then what the result asks for.                    *)
ReconcileSucceeds(w) ==
    /\ pc[w] = "reconcile"
    /\ Forget(job[w])
    /\ \/ Goto(w, "done") /\ UNCHANGED owed
       \/ Goto(w, "requeueAfter") /\ Owe(job[w])
       \/ Goto(w, "requeue") /\ Owe(job[w])
    /\ UNCHANGED <<job, main, lease>>

RequeueAfter(w) == /\ pc[w] = "requeueAfter"
                   /\ AddAfter(job[w])
                   /\ Goto(w, "done")
                   /\ UNCHANGED <<job, main, lease, owed>>

Requeue(w) == /\ pc[w] = "requeue"
              /\ Add(job[w])
              /\ Goto(w, "done")
              /\ UNCHANGED <<job, main, lease, owed>>

(* The deferred Done.                                                      *)
Finish(w) == /\ pc[w] = "done"
             /\ Done(job[w])
             /\ Goto(w, "get")
             /\ job' = [job EXCEPT ![w] = NoKey]
             /\ UNCHANGED <<main, lease, owed>>

WorkerStep(w) == \/ Wait(w) \/ Exit(w) \/ Take(w)
                 \/ StartReconcile(w) \/ SkipNotLeader(w)
                 \/ ReconcileFails(w) \/ ReconcileSucceeds(w)
                 \/ RequeueAfter(w) \/ Requeue(w) \/ Finish(w)

-----------------------------------------------------------------------------
(* The elector's goroutine                                                 *)

(* The memory backend takes the lease whenever its Run gets to start, be   *)
(* it after the cancellation.                                              *)
AcquireLease == /\ LeaderElection
                /\ lease = "campaigning"
                /\ main # "stopped"
                /\ lease' = "held"
                /\ UNCHANGED <<queueVars, pc, job, main, owed>>

LoseLease == /\ lease = "held"
             /\ lease' = "lost"
             /\ UNCHANGED <<queueVars, pc, job, main, owed>>

-----------------------------------------------------------------------------
(* Start, from the cancellation of ctx to its return                       *)

Cancel == /\ main = "running"
          /\ main' = "cancelled"
          /\ UNCHANGED <<queueVars, pc, job, lease, owed>>

(* The memory backend drops leadership at once, the Lease backend when its *)
(* goroutine sees the cancellation.                                        *)
Resign == /\ main = "cancelled"
          /\ main' = "resigned"
          /\ UNCHANGED lease \/ (lease = "held" /\ lease' = "lost")
          /\ UNCHANGED <<queueVars, pc, job, owed>>

ShutDownQueue == /\ main = "resigned"
                 /\ main' = "draining"
                 /\ ShutDown
                 /\ UNCHANGED <<pc, job, lease, owed>>

(* wg.Wait waits for the workers and for the elector, whose Run gives the  *)
(* lease up before it returns.                                             *)
Stopped == /\ main = "draining"
           /\ \A w \in Worker : pc[w] = "exited"
           /\ lease # "held"
           /\ main' = "stopped"
           /\ UNCHANGED <<queueVars, pc, job, lease, owed>>

StopStep == Resign \/ ShutDownQueue \/ Stopped

Next == \/ \E k \in Key : Enqueue(k) \/ EnqueueAfter(k)
        \/ Promote /\ UNCHANGED <<ctlVars, owed>>
        \/ \E w \in Worker : WorkerStep(w)
        \/ AcquireLease \/ LoseLease
        \/ Cancel \/ StopStep

Spec == Init /\ [][Next]_vars

-----------------------------------------------------------------------------
(* Properties                                                              *)

Busy == {w \in Worker : pc[w] \notin {"get", "exited"}}
InQueue(k) == \E i \in 1..Len(items) : items[i] = k

(* No key is reconciled by two workers at a time: what "processing" is for *)
(* when MaxConcurrentReconciles is more than 1.                            *)
NoConcurrentReconcile ==
    \A v, w \in Worker : pc[v] = "reconcile" /\ pc[w] = "reconcile" /\ job[v] = job[w]
                             => v = w

(* The queue holds each key that is dirty and not in flight exactly once,  *)
(* and nothing else: no event is dropped by the deduplication and none is  *)
(* queued twice.                                                           *)
QueueIsDirty ==
    /\ \A k \in Key : InQueue(k) <=> k \in dirty \ processing
    /\ \A i, j \in 1..Len(items) : items[i] = items[j] => i = j

(* Until the queue is shut down, a key that changed after its last         *)
(* reconciliation started, or whose reconciliation failed or asked for     *)
(* more, is on its way to a worker: dirty, waiting for its time, between   *)
(* the two halves of a promotion, or with a worker that has yet to look at *)
(* it or to put it back.                                                   *)
Scheduled(k) == \/ k \in dirty
                \/ delayed[k] > 0
                \/ promoting[k] > 0
                \/ \E w \in Worker : /\ job[w] = k
                                     /\ pc[w] \in {"check", "requeueAfter", "requeue"}
NothingLost == ~ shutdown => \A k \in owed : Scheduled(k)

(* The condition variable loses no wake-up: while a worker sleeps in Get,  *)
(* at least as many workers are awake on their way through Get as there    *)
(* are items in the queue.                                                 *)
NoLostWakeup ==
    waiting # {}
        => Len(items) <= Cardinality({w \in Worker \ waiting : pc[w] = "get"})

(* Nobody waits for nothing: a key that is owed a reconciliation is        *)
(* waiting for its time or a tick, is with a worker, or is in the queue    *)
(* while some worker is awake and comes back to Get.                       *)
NoStall ==
    (~ shutdown /\ Worker # {}) =>
        \A k \in owed : \/ delayed[k] > 0 \/ promoting[k] > 0
                        \/ \E w \in Worker : job[w] = k
                        \/ /\ InQueue(k)
                           /\ \E w \in Worker \ waiting : pc[w] # "exited"

(* A manager that stopped left no request behind in the queue: the workers *)
(* drain it after the shutdown, and the one that exits last has seen it    *)
(* empty, whatever the others put back with Done after some had exited.    *)
StopsDrained ==
    (main = "stopped" /\ Worker # {}) => items = <<>> /\ dirty = {} /\ processing = {}

(* A failed reconciliation is retried until one succeeds: a key keeps its  *)
(* backoff entry only while a retry is due or running.                     *)
BackoffMeansRetry ==
    ~ shutdown => \A k \in backoff :
        Scheduled(k) \/ \E w \in Worker : job[w] = k /\ pc[w] = "reconcile"

(* The queue and its workers are the queue of KeyedQueue: a key is wanted  *)
(* while it is dirty, delayed or between the two halves of a promotion.    *)
Wanted == {k \in Key : k \in dirty \/ delayed[k] > 0 \/ promoting[k] > 0}

KQ == INSTANCE KeyedQueue WITH wanted <- Wanted, active <- processing,
                               closed <- shutdown

ImplementsKeyedQueue == KQ!Spec

-----------------------------------------------------------------------------
(* Fairness: goroutines make progress, Reconcile returns, the promotion    *)
(* loop ticks, and a delayed item is due at some tick; an instance that    *)
(* campaigns gets the lease in the end, and gives it up after the          *)
(* cancellation.  Cancellation itself and the loss of the lease while the  *)
(* manager runs need not happen.                                           *)
Fairness ==
    /\ \A w \in Worker : WF_vars(WorkerStep(w))
    /\ \A k \in Key : /\ WF_vars(PromoteAdd(k) /\ UNCHANGED <<ctlVars, owed>>)
                      /\ SF_vars(/\ PromoteTake /\ delayed[k] > 0 /\ delayed'[k] = 0
                                 /\ UNCHANGED <<ctlVars, owed>>)
    /\ WF_vars(main = "running" /\ AcquireLease)
    /\ WF_vars(main # "running" /\ LoseLease)
    /\ WF_vars(StopStep)

FairSpec == Spec /\ Fairness

(* A key that is owed a reconciliation gets one, unless the manager stops  *)
(* or the lease is lost.                                                   *)
EventuallyReconciled ==
    \A k \in Key : k \in owed ~> (k \notin owed \/ main # "running" \/ lease = "lost")

(* A cancelled manager stops: ShutDown wakes the sleeping workers, the     *)
(* others drain the queue, and wg.Wait returns.                            *)
EventuallyStops == main = "cancelled" ~> main = "stopped"

(* "Re-queue with delay - will be processed when we become leader"         *)
(* (processItem), on an instance that keeps running: its requests are      *)
(* reconciled in the end, also after it lost the lease.                    *)
ReconciledWhileRunning ==
    \A k \in Key : k \in owed ~> (k \notin owed \/ main # "running")
=============================================================================
