--------------------------- MODULE ControllerProofs ---------------------------
(***************************************************************************)
(* What the safety run of Controller checks on a small instance, for every *)
(* set of keys and workers and any bound on the tokens.                    *)
(***************************************************************************)
EXTENDS Controller, FiniteSetTheorems, TLAPS

(* A worker has a request exactly from Get to Done; the requests in flight *)
(* are those of the workers, and no two workers have the same.             *)
JobInv == /\ \A w \in Worker : job[w] = NoKey <=> pc[w] \in {"get", "exited"}
          /\ \A k \in Key : k \in processing <=> \E w \in Worker : job[w] = k
          /\ \A v, w \in Worker : job[v] = job[w] /\ job[v] # NoKey => v = w

(* Workers on their way through Get.  Only a worker in Get sleeps.         *)
Awake == {w \in Worker \ waiting : pc[w] = "get"}
SleepInv == \A w \in waiting : pc[w] = "get"

Inv == /\ TypeOK /\ JobInv /\ SleepInv
       /\ QueueIsDirty /\ NothingLost /\ BackoffMeansRetry /\ NoLostWakeup

(* The sequence q holds each element of D once and nothing else of Key.    *)
Lists(q, D) == /\ \A k \in Key : (\E i \in 1..Len(q) : q[i] = k) <=> k \in D
               /\ \A i, j \in 1..Len(q) : q[i] = q[j] => i = j

-----------------------------------------------------------------------------
(* Appending a new key to a list of distinct keys.                         *)
LEMMA AppendLists ==
    ASSUME NEW q \in Seq(Key), NEW D, NEW k \in Key, Lists(q, D), k \notin D
    PROVE  Lists(Append(q, k), D \cup {k})
<1> DEFINE r == Append(q, k)
<1>1. /\ Len(r) = Len(q) + 1
      /\ \A i \in 1..Len(q) : r[i] = q[i]
      /\ r[Len(q) + 1] = k
      /\ Len(q) \in Nat
  OBVIOUS
<1>2. \A i \in 1..Len(q) : q[i] # k
  BY DEF Lists
<1>3. \A l \in Key : (\E i \in 1..Len(r) : r[i] = l) <=> l \in D \cup {k}
  <2> TAKE l \in Key
  <2>1. CASE l = k
    BY <1>1, <2>1
  <2>2. CASE l # k
    BY <1>1, <2>2 DEF Lists
  <2> QED
    BY <2>1, <2>2
<1>4. \A i, j \in 1..Len(r) : r[i] = r[j] => i = j
  BY <1>1, <1>2 DEF Lists
<1> QED
  BY <1>3, <1>4 DEF Lists

(* Taking the head off a list of distinct keys.                            *)
LEMMA TailLists ==
    ASSUME NEW q \in Seq(Key), NEW D, Lists(q, D), q # <<>>
    PROVE  /\ Head(q) \in Key \cap D
           /\ Lists(Tail(q), D \ {Head(q)})
<1> DEFINE r == Tail(q)
<1>1. /\ Len(q) \in Nat \ {0}
      /\ Len(r) = Len(q) - 1
      /\ \A i \in 1..Len(r) : r[i] = q[i + 1]
      /\ Head(q) = q[1]
      /\ q[1] \in Key
  OBVIOUS
<1>2. Head(q) \in Key \cap D
  BY <1>1 DEF Lists
<1>3. \A l \in Key : (\E i \in 1..Len(r) : r[i] = l) <=> l \in D \ {Head(q)}
  <2> TAKE l \in Key
  <2>1. ASSUME NEW i \in 1..Len(r), r[i] = l PROVE l \in D \ {Head(q)}
    <3>1. i + 1 \in 1..Len(q) /\ q[i + 1] = l /\ i + 1 # 1 /\ 1 \in 1..Len(q)
      BY <1>1, <2>1
    <3> QED
      BY <1>1, <3>1 DEF Lists
  <2>2. ASSUME l \in D \ {Head(q)} PROVE \E i \in 1..Len(r) : r[i] = l
    <3>1. PICK j \in 1..Len(q) : q[j] = l
      BY <2>2 DEF Lists
    <3>2. j - 1 \in 1..Len(r) /\ r[j - 1] = l
      BY <1>1, <2>2, <3>1
    <3> QED
      BY <3>2
  <2> QED
    BY <2>1, <2>2
<1>4. \A i, j \in 1..Len(r) : r[i] = r[j] => i = j
  <2> TAKE i, j \in 1..Len(r)
  <2>1. i + 1 \in 1..Len(q) /\ j + 1 \in 1..Len(q)
    BY <1>1
  <2> QED
    BY <1>1, <2>1 DEF Lists
<1> QED
  BY <1>2, <1>3, <1>4 DEF Lists

(* QueueIsDirty says what the queue lists.                                 *)
LEMMA QueueLists == QueueIsDirty <=> Lists(items, dirty \ processing)
BY DEF QueueIsDirty, InQueue, Lists

-----------------------------------------------------------------------------
(* Every variable is in its type initially.                                *)
LEMMA TypeInit == Init => TypeOK
<1> SUFFICES ASSUME Init PROVE TypeOK
  OBVIOUS
<1>1. QueueTypeOK
  <2>1. QueueInit
    BY DEF Init
  <2>2. items \in Seq(Key) /\ delayed \in [Key -> Nat] /\ promoting \in [Key -> Nat]
    BY <2>1 DEF QueueInit
  <2> QED
    BY <2>1, <2>2 DEF QueueInit, QueueTypeOK
<1> QED
  BY <1>1 DEF Init, TypeOK, PC

(* Waking a worker takes it out of the waiting ones.                       *)
LEMMA SignalType == waiting \subseteq Worker /\ Signal => waiting' \subseteq Worker
BY DEF Signal

(* Enter keeps the types of what it changes.                               *)
LEMMA EnterType ==
    ASSUME NEW k \in Key, QueueTypeOK, Enter(k)
    PROVE  items' \in Seq(Key) /\ dirty' \subseteq Key /\ waiting' \subseteq Worker
<1>1. items \in Seq(Key) /\ dirty \subseteq Key /\ waiting \subseteq Worker
  BY DEF QueueTypeOK
<1>2. CASE UNCHANGED <<dirty, items, waiting>>
  BY <1>1, <1>2
<1>3. CASE dirty' = dirty \cup {k} /\ UNCHANGED <<items, waiting>>
  BY <1>1, <1>3
<1>4. CASE dirty' = dirty \cup {k} /\ Push(k)
  <2>1. items' = Append(items, k) /\ Signal
    BY <1>4 DEF Push
  <2> QED
    BY <1>1, <1>4, <2>1, SignalType
<1> QED
  BY <1>2, <1>3, <1>4 DEF Enter

(* AddAfter keeps the types of the queue.                                  *)
LEMMA AddAfterType ==
    ASSUME NEW k \in Key, QueueTypeOK, AddAfter(k)
    PROVE  QueueTypeOK'
BY DEF QueueTypeOK, AddAfter

(* Add keeps the types of the queue.                                       *)
LEMMA AddType ==
    ASSUME NEW k \in Key, QueueTypeOK, Add(k)
    PROVE  QueueTypeOK'
BY EnterType DEF QueueTypeOK, Add

(* Both halves of a promotion keep the types of the queue.                 *)
LEMMA PromoteType == QueueTypeOK /\ Promote => QueueTypeOK'
<1> SUFFICES ASSUME QueueTypeOK, Promote PROVE QueueTypeOK'
  OBVIOUS
<1>1. CASE PromoteTake
  <2> DEFINE Most == UNION {0..delayed[k] : k \in Key}
  <2>1. PICK due \in [Key -> Most] :
            /\ \A k \in Key : due[k] <= delayed[k]
            /\ promoting' = due
            /\ delayed' = [k \in Key |-> delayed[k] - due[k]]
    BY <1>1 DEF PromoteTake
  <2>2. Most \subseteq Nat
    BY DEF QueueTypeOK
  <2>3. \A k \in Key : due[k] \in Nat /\ delayed[k] - due[k] \in Nat
    <3> TAKE k \in Key
    <3>1. due[k] \in Nat /\ delayed[k] \in Nat /\ due[k] <= delayed[k]
      BY <2>1, <2>2 DEF QueueTypeOK
    <3> QED
      BY <3>1
  <2>4. promoting' \in [Key -> Nat] /\ delayed' \in [Key -> Nat]
    BY <2>1, <2>3
  <2> QED
    BY <1>1, <2>4 DEF QueueTypeOK, PromoteTake
<1>2. ASSUME NEW k \in Key, PromoteAdd(k) PROVE QueueTypeOK'
  <2>1. promoting' \in [Key -> Nat]
    BY <1>2 DEF QueueTypeOK, PromoteAdd
  <2>2. items' \in Seq(Key) /\ dirty' \subseteq Key /\ waiting' \subseteq Worker
    BY <1>2, EnterType DEF PromoteAdd
  <2> QED
    BY <1>2, <2>1, <2>2 DEF QueueTypeOK, PromoteAdd
<1> QED
  BY <1>1, <1>2 DEF Promote

(* A worker past Get has a request.                                        *)
LEMMA BusyHasJob ==
    ASSUME TypeOK, JobInv, NEW w \in Worker, pc[w] \notin {"get", "exited"}
    PROVE  job[w] \in Key
BY DEF TypeOK, JobInv

(* Every step of a worker keeps the variables in their types; that it has  *)
(* a request when it gives one to the queue is needed for it.              *)
LEMMA WorkerType ==
    ASSUME TypeOK, JobInv, NEW w \in Worker, WorkerStep(w)
    PROVE  TypeOK'
<1>1. /\ QueueTypeOK /\ pc \in [Worker -> PC] /\ job \in [Worker -> Key \cup {NoKey}]
      /\ owed \subseteq Key
  BY DEF TypeOK
<1>2. /\ pc' \in [Worker -> PC]
      /\ main' = main /\ lease' = lease
  BY <1>1 DEF WorkerStep, Wait, Exit, Take, StartReconcile, SkipNotLeader,
              ReconcileFails, ReconcileSucceeds, RequeueAfter, Requeue, Finish,
              Goto, PC, ctlVars
<1>3. QueueTypeOK' /\ job' \in [Worker -> Key \cup {NoKey}] /\ owed' \subseteq Key
  <2>1. CASE Wait(w)
    BY <1>1, <2>1 DEF Wait, GetWaits, QueueTypeOK, ctlVars
  <2>2. CASE Exit(w)
    BY <1>1, <2>2 DEF Exit, GetShutsDown, QueueTypeOK, queueVars
  <2>3. CASE Take(w)
    <3>1. items # <<>> /\ items \in Seq(Key)
      BY <1>1, <2>3 DEF Take, GetTakes, QueueTypeOK
    <3>2. Head(items) \in Key /\ Tail(items) \in Seq(Key)
      BY <3>1
    <3> QED
      BY <1>1, <2>3, <3>2 DEF Take, GetTakes, QueueTypeOK
  <2>4. CASE StartReconcile(w) \/ SkipNotLeader(w)
    BY <1>1, <2>4 DEF StartReconcile, SkipNotLeader, QueueTypeOK, queueVars
  <2>5. CASE ReconcileFails(w)
    BY <1>1, <2>5, BusyHasJob DEF ReconcileFails, CountFailure, Owe, QueueTypeOK
  <2>6. CASE ReconcileSucceeds(w)
    BY <1>1, <2>6, BusyHasJob DEF ReconcileSucceeds, Forget, Owe, QueueTypeOK
  <2>7. CASE RequeueAfter(w)
    BY <1>1, <2>7, BusyHasJob, AddAfterType DEF RequeueAfter
  <2>8. CASE Requeue(w)
    BY <1>1, <2>8, BusyHasJob, AddType DEF Requeue
  <2>9. CASE Finish(w)
    <3>1. job[w] \in Key /\ Done(job[w])
      BY <2>9, BusyHasJob DEF Finish
    <3>2. items' \in Seq(Key) /\ waiting' \subseteq Worker
      <4>1. CASE UNCHANGED <<items, waiting>>
        BY <1>1, <4>1 DEF QueueTypeOK
      <4>2. CASE Push(job[w])
        BY <1>1, <3>1, <4>2, SignalType DEF QueueTypeOK, Push
      <4> QED
        BY <3>1, <4>1, <4>2 DEF Done
    <3> QED
      BY <1>1, <2>9, <3>1, <3>2 DEF Finish, Done, QueueTypeOK
  <2> QED
    BY <2>1, <2>2, <2>3, <2>4, <2>5, <2>6, <2>7, <2>8, <2>9 DEF WorkerStep
<1> QED
  BY <1>2, <1>3 DEF TypeOK

(* Every step keeps the variables in their types.                          *)
LEMMA TypeStep == TypeOK /\ JobInv /\ [Next]_vars => TypeOK'
<1> SUFFICES ASSUME TypeOK, JobInv, [Next]_vars PROVE TypeOK'
  OBVIOUS
<1>1. QueueTypeOK
  BY DEF TypeOK
<1>2. ASSUME NEW k \in Key, Enqueue(k) PROVE TypeOK'
  BY <1>1, <1>2, AddType DEF Enqueue, Owe, TypeOK, ctlVars
<1>3. ASSUME NEW k \in Key, EnqueueAfter(k) PROVE TypeOK'
  BY <1>1, <1>3, AddAfterType DEF EnqueueAfter, Owe, TypeOK, ctlVars
<1>4. CASE Promote /\ UNCHANGED <<ctlVars, owed>>
  BY <1>1, <1>4, PromoteType DEF TypeOK, ctlVars
<1>5. ASSUME NEW w \in Worker, WorkerStep(w) PROVE TypeOK'
  BY <1>5, WorkerType
<1>6. CASE AcquireLease \/ LoseLease \/ Cancel \/ Resign \/ Stopped
  BY <1>6 DEF AcquireLease, LoseLease, Cancel, Resign, Stopped,
              TypeOK, QueueTypeOK, queueVars
<1>7. CASE ShutDownQueue
  BY <1>7 DEF ShutDownQueue, ShutDown, TypeOK, QueueTypeOK
<1>8. CASE UNCHANGED vars
  BY <1>8 DEF vars, ctlVars, queueVars, TypeOK, QueueTypeOK
<1> QED
  BY <1>2, <1>3, <1>4, <1>5, <1>6, <1>7, <1>8 DEF Next, StopStep

-----------------------------------------------------------------------------
(* Get gives a worker a request that no worker has, and Done takes the one *)
(* request away that the worker had.                                       *)
LEMMA JobStep == TypeOK /\ JobInv /\ QueueIsDirty /\ [Next]_vars => JobInv'
<1> SUFFICES ASSUME TypeOK, JobInv, QueueIsDirty, [Next]_vars PROVE JobInv'
  OBVIOUS
<1>1. pc \in [Worker -> PC] /\ job \in [Worker -> Key \cup {NoKey}]
  BY DEF TypeOK
<1>2. CASE UNCHANGED <<pc, job, processing>>
  BY <1>2 DEF JobInv
<1>3. ASSUME NEW w \in Worker, UNCHANGED <<job, processing>>,
             \E l \in PC \ {"get", "exited"} : pc[w] \notin {"get", "exited"} /\ Goto(w, l)
      PROVE  JobInv'
  BY <1>1, <1>3 DEF JobInv, Goto
<1>4. ASSUME NEW w \in Worker, Exit(w) PROVE JobInv'
  BY <1>1, <1>4 DEF JobInv, Exit, GetShutsDown, queueVars, Goto
<1>5. ASSUME NEW w \in Worker, Take(w) PROVE JobInv'
  <2> DEFINE k == Head(items)
  <2>1. k \in Key /\ k \notin processing
    <3>1. items \in Seq(Key) /\ items # <<>>
      BY <1>5 DEF Take, GetTakes, TypeOK, QueueTypeOK
    <3> QED
      BY <3>1, QueueLists, TailLists
  <2>2. \A v \in Worker : job[v] # k
    BY <2>1 DEF JobInv
  <2>3. pc[w] = "get" /\ job[w] = NoKey
    BY <1>5 DEF Take, JobInv
  <2>4. /\ job' = [job EXCEPT ![w] = k]
        /\ pc' = [pc EXCEPT ![w] = "check"]
        /\ processing' = processing \cup {k}
    BY <1>5 DEF Take, GetTakes, Goto
  <2> QED
    BY <1>1, <2>1, <2>2, <2>3, <2>4, NoKeyIsNoKey DEF JobInv
<1>6. ASSUME NEW w \in Worker, Finish(w) PROVE JobInv'
  <2>1. job[w] \in Key
    BY <1>6, BusyHasJob DEF Finish
  <2>2. /\ job' = [job EXCEPT ![w] = NoKey]
        /\ pc' = [pc EXCEPT ![w] = "get"]
        /\ processing' = processing \ {job[w]}
    BY <1>6 DEF Finish, Done, Goto
  <2> QED
    BY <1>1, <2>1, <2>2, NoKeyIsNoKey DEF JobInv
<1>7. ASSUME NEW w \in Worker, WorkerStep(w) PROVE JobInv'
  <2>1. CASE Wait(w)
    BY <1>2, <2>1 DEF Wait, GetWaits, ctlVars
  <2>2. CASE StartReconcile(w) \/ SkipNotLeader(w)
    BY <1>3, <2>2 DEF StartReconcile, SkipNotLeader, queueVars, PC
  <2>3. CASE ReconcileFails(w) \/ ReconcileSucceeds(w)
    BY <1>3, <2>3 DEF ReconcileFails, ReconcileSucceeds, CountFailure, Forget, PC
  <2>4. CASE RequeueAfter(w) \/ Requeue(w)
    BY <1>3, <2>4 DEF RequeueAfter, Requeue, AddAfter, Add, PC
  <2> QED
    BY <1>4, <1>5, <1>6, <1>7, <2>1, <2>2, <2>3, <2>4 DEF WorkerStep
<1>8. ASSUME ~ \E w \in Worker : WorkerStep(w) PROVE UNCHANGED <<pc, job, processing>>
  BY <1>8 DEF Next, Enqueue, EnqueueAfter, Add, AddAfter, Promote, PromoteTake,
              PromoteAdd, AcquireLease, LoseLease, Cancel, StopStep, Resign,
              ShutDownQueue, ShutDown, Stopped, ctlVars, queueVars, vars
<1> QED
  BY <1>2, <1>7, <1>8

(* Enter keeps the queue the list of the dirty keys not in flight.         *)
LEMMA EnterLists ==
    ASSUME NEW k \in Key, items \in Seq(Key), QueueIsDirty, Enter(k),
           UNCHANGED processing
    PROVE  QueueIsDirty'
<1>1. CASE UNCHANGED <<dirty, items>>
  BY <1>1 DEF QueueIsDirty, InQueue
<1>2. CASE k \notin dirty /\ dirty' = dirty \cup {k} /\ k \in processing /\ UNCHANGED items
  BY <1>2 DEF QueueIsDirty, InQueue
<1>3. CASE /\ k \notin dirty /\ dirty' = dirty \cup {k} /\ k \notin processing
           /\ items' = Append(items, k)
  <2>1. Lists(items', (dirty \ processing) \cup {k})
    BY <1>3, QueueLists, AppendLists
  <2>2. (dirty \ processing)' = (dirty \ processing) \cup {k}
    BY <1>3
  <2> QED
    BY <2>1, <2>2 DEF QueueIsDirty, InQueue, Lists
<1> QED
  BY <1>1, <1>2, <1>3 DEF Enter, Push

(* Deduplication: every step keeps the queue the list of the dirty keys    *)
(* that are not in flight.                                                 *)
LEMMA QueueStep == TypeOK /\ JobInv /\ QueueIsDirty /\ [Next]_vars => QueueIsDirty'
<1> SUFFICES ASSUME TypeOK, JobInv, QueueIsDirty, [Next]_vars PROVE QueueIsDirty'
  OBVIOUS
<1>1. items \in Seq(Key)
  BY DEF TypeOK, QueueTypeOK
<1>2. CASE UNCHANGED <<items, dirty, processing>>
  BY <1>2 DEF QueueIsDirty, InQueue
<1>3. ASSUME NEW k \in Key, Add(k) \/ PromoteAdd(k) PROVE QueueIsDirty'
  BY <1>1, <1>3, EnterLists DEF Add, PromoteAdd
<1>4. ASSUME NEW w \in Worker, Take(w) PROVE QueueIsDirty'
  <2>1. Lists(Tail(items), (dirty \ processing) \ {Head(items)})
    BY <1>1, <1>4, QueueLists, TailLists DEF Take, GetTakes
  <2>2. items' = Tail(items)
        /\ (dirty \ processing)' = (dirty \ processing) \ {Head(items)}
    BY <1>4 DEF Take, GetTakes
  <2>3. Lists(items', dirty' \ processing')
    BY <2>1, <2>2
  <2> QED
    BY <2>3 DEF QueueIsDirty, InQueue, Lists
<1>5. ASSUME NEW w \in Worker, Finish(w) PROVE QueueIsDirty'
  <2> DEFINE k == job[w]
  <2>1. k \in Key /\ k \in processing /\ Done(k)
    BY <1>5, BusyHasJob DEF Finish, JobInv
  <2>2. CASE k \in dirty
    <3>1. items' = Append(items, k)
          /\ (dirty \ processing)' = (dirty \ processing) \cup {k}
      BY <2>1, <2>2 DEF Done, Push
    <3>2. Lists(items', (dirty \ processing) \cup {k})
      BY <1>1, <2>1, <3>1, QueueLists, AppendLists
    <3> QED
      BY <3>1, <3>2 DEF QueueIsDirty, InQueue, Lists
  <2>3. CASE k \notin dirty
    BY <2>1, <2>3 DEF Done, QueueIsDirty, InQueue
  <2> QED
    BY <2>2, <2>3
<1>6. ASSUME NEW w \in Worker, WorkerStep(w) PROVE QueueIsDirty'
  <2>1. CASE Requeue(w)
    BY <1>3, <2>1, BusyHasJob DEF Requeue
  <2>2. CASE ~ (Take(w) \/ Finish(w) \/ Requeue(w))
    BY <1>2, <1>6, <2>2
    DEF WorkerStep, Wait, Exit, StartReconcile, SkipNotLeader, ReconcileFails,
        ReconcileSucceeds, RequeueAfter, GetWaits, GetShutsDown, CountFailure,
        Forget, AddAfter, queueVars
  <2> QED
    BY <1>4, <1>5, <2>1, <2>2
<1>7. ASSUME NEW k \in Key, Enqueue(k) PROVE QueueIsDirty'
  BY <1>3, <1>7 DEF Enqueue
<1>8. CASE \/ \E k \in Key : EnqueueAfter(k)
           \/ PromoteTake \/ AcquireLease \/ LoseLease \/ Cancel \/ StopStep
           \/ UNCHANGED vars
  BY <1>2, <1>8 DEF EnqueueAfter, AddAfter, PromoteTake, AcquireLease, LoseLease,
                    Cancel, StopStep, Resign, ShutDownQueue, ShutDown, Stopped,
                    queueVars, vars
<1> QED
  BY <1>3, <1>6, <1>7, <1>8 DEF Next, Promote

-----------------------------------------------------------------------------
(* A request that is on its way to a worker stays on its way until a       *)
(* reconciliation of it starts or the queue is shut down.                  *)
LEMMA StaysScheduled ==
    ASSUME TypeOK, JobInv, [Next]_vars, NEW k \in Key, Scheduled(k), ~ shutdown'
    PROVE  Scheduled(k)' \/ \E w \in Worker : StartReconcile(w) /\ job[w] = k
<1>1. /\ delayed \in [Key -> Nat] /\ promoting \in [Key -> Nat]
      /\ pc \in [Worker -> PC] /\ job \in [Worker -> Key \cup {NoKey}]
  BY DEF TypeOK, QueueTypeOK
<1>2. ASSUME UNCHANGED <<pc, job, delayed, promoting>>, dirty \subseteq dirty'
      PROVE  Scheduled(k)'
  BY <1>2 DEF Scheduled
<1>3. ASSUME NEW l \in Key, Enqueue(l) PROVE Scheduled(k)'
  <2>1. UNCHANGED <<pc, job, delayed, promoting>> /\ dirty \subseteq dirty'
    BY <1>3 DEF Enqueue, Add, Enter, ctlVars
  <2> QED
    BY <2>1, <1>2
<1>4. ASSUME NEW l \in Key, EnqueueAfter(l) PROVE Scheduled(k)'
  <2>1. UNCHANGED <<pc, job, dirty, promoting>> /\ ~ shutdown
    BY <1>4 DEF EnqueueAfter, AddAfter, ctlVars
  <2>2. delayed[k] > 0 => delayed'[k] > 0
    BY <1>1, <1>4, <2>1 DEF EnqueueAfter, AddAfter
  <2> QED
    BY <2>1, <2>2 DEF Scheduled
<1>5. CASE PromoteTake /\ UNCHANGED <<ctlVars, owed>>
  <2>1. UNCHANGED <<pc, job, dirty>>
    BY <1>5 DEF PromoteTake, ctlVars
  <2>2. promoting[k] = 0 /\ (delayed[k] > 0 => delayed'[k] > 0 \/ promoting'[k] > 0)
    <3>1. PICK due \in [Key -> UNION {0..delayed[l] : l \in Key}] :
              promoting' = due /\ delayed' = [l \in Key |-> delayed[l] - due[l]]
      BY <1>5 DEF PromoteTake
    <3>2. due[k] \in Nat /\ delayed[k] \in Nat /\ promoting'[k] = due[k]
          /\ delayed'[k] = delayed[k] - due[k]
      BY <1>1, <3>1
    <3>3. promoting[k] = 0
      BY <1>5 DEF PromoteTake
    <3> QED
      BY <3>2, <3>3
  <2> QED
    BY <2>1, <2>2 DEF Scheduled
<1>6. ASSUME NEW l \in Key, PromoteAdd(l), UNCHANGED <<ctlVars, owed>>
      PROVE  Scheduled(k)'
  <2>1. /\ UNCHANGED <<pc, job, delayed>> /\ dirty \subseteq dirty' /\ l \in dirty'
        /\ promoting' = [promoting EXCEPT ![l] = @ - 1]
    BY <1>6 DEF PromoteAdd, Enter, ctlVars
  <2>2. k # l => promoting'[k] = promoting[k]
    BY <1>1, <2>1
  <2> QED
    BY <2>1, <2>2 DEF Scheduled
<1>7. ASSUME NEW w \in Worker, WorkerStep(w), ~ (StartReconcile(w) /\ job[w] = k)
      PROVE  Scheduled(k)'
  <2>1. ASSUME NEW l \in PC, UNCHANGED <<job, dirty, delayed, promoting>>, Goto(w, l),
               \/ pc[w] \notin {"check", "requeueAfter", "requeue"}
               \/ l \in {"check", "requeueAfter", "requeue"}
               \/ job[w] # k
        PROVE  Scheduled(k)'
    BY <1>1, <2>1 DEF Scheduled, Goto
  <2>2. CASE Wait(w)
    <3>1. UNCHANGED <<pc, job, dirty, delayed, promoting>>
      BY <2>2 DEF Wait, GetWaits, ctlVars
    <3> QED
      BY <3>1 DEF Scheduled
  <2>3. CASE Exit(w)
    BY <2>1, <2>3 DEF Exit, GetShutsDown, queueVars, PC
  <2>4. CASE StartReconcile(w) \/ SkipNotLeader(w)
    BY <1>7, <2>1, <2>4 DEF StartReconcile, SkipNotLeader, queueVars, PC
  <2>5. CASE ReconcileFails(w) \/ ReconcileSucceeds(w)
    BY <2>1, <2>5 DEF ReconcileFails, ReconcileSucceeds, CountFailure, Forget, PC
  <2>6. CASE Take(w)
    <3>1. /\ UNCHANGED <<delayed, promoting>>
          /\ dirty' = dirty \ {Head(items)}
          /\ job' = [job EXCEPT ![w] = Head(items)]
          /\ pc' = [pc EXCEPT ![w] = "check"]
          /\ pc[w] = "get"
      BY <2>6 DEF Take, GetTakes, Goto
    <3> QED
      BY <1>1, <3>1 DEF Scheduled
  <2>7. CASE RequeueAfter(w)
    <3>1. /\ UNCHANGED <<job, dirty, promoting>>
          /\ delayed' = [delayed EXCEPT ![job[w]] = @ + 1]
          /\ pc' = [pc EXCEPT ![w] = "done"]
          /\ job[w] \in Key
      BY <2>7, BusyHasJob DEF RequeueAfter, AddAfter, Goto
    <3>2. delayed'[k] >= delayed[k] /\ (job[w] = k => delayed'[k] > 0)
      BY <1>1, <3>1
    <3> QED
      BY <1>1, <3>1, <3>2 DEF Scheduled
  <2>8. CASE Requeue(w)
    <3>1. /\ UNCHANGED <<job, delayed, promoting>>
          /\ dirty \subseteq dirty' /\ job[w] \in dirty'
          /\ pc' = [pc EXCEPT ![w] = "done"]
      BY <2>8 DEF Requeue, Add, Enter, Goto
    <3> QED
      BY <1>1, <3>1 DEF Scheduled
  <2>9. CASE Finish(w)
    <3>1. /\ UNCHANGED <<dirty, delayed, promoting>>
          /\ job' = [job EXCEPT ![w] = NoKey]
          /\ pc' = [pc EXCEPT ![w] = "get"]
          /\ pc[w] = "done"
      BY <2>9 DEF Finish, Done, Goto
    <3> QED
      BY <1>1, <3>1 DEF Scheduled
  <2> QED
    BY <1>7, <2>2, <2>3, <2>4, <2>5, <2>6, <2>7, <2>8, <2>9 DEF WorkerStep
<1>8. CASE AcquireLease \/ LoseLease \/ Cancel \/ StopStep \/ UNCHANGED vars
  BY <1>2, <1>8 DEF AcquireLease, LoseLease, Cancel, StopStep, Resign, ShutDownQueue,
                    ShutDown, Stopped, ctlVars, queueVars, vars
<1> QED
  BY <1>3, <1>4, <1>5, <1>6, <1>7, <1>8 DEF Next, Promote

(* A reconciliation becomes owed, and a failure is counted, only together  *)
(* with what schedules the request.                                        *)
LEMMA OwedIsScheduled ==
    ASSUME TypeOK, JobInv, [Next]_vars, NEW k \in Key, ~ shutdown'
    PROVE  /\ k \in owed' \ owed => Scheduled(k)'
           /\ k \in backoff' \ backoff => Scheduled(k)'
<1>1. /\ delayed \in [Key -> Nat]
      /\ pc \in [Worker -> PC] /\ job \in [Worker -> Key \cup {NoKey}]
  BY DEF TypeOK, QueueTypeOK
<1>2. CASE UNCHANGED <<owed, backoff>>
  BY <1>2
<1>3. ASSUME NEW l \in Key, Enqueue(l) PROVE k \in owed' \ owed => Scheduled(k)'
  BY <1>3 DEF Enqueue, Add, Enter, Owe, Scheduled
<1>4. ASSUME NEW l \in Key, EnqueueAfter(l) PROVE k \in owed' \ owed => Scheduled(k)'
  BY <1>1, <1>4 DEF EnqueueAfter, AddAfter, Owe, Scheduled
<1>5. ASSUME NEW l \in Key, Enqueue(l) \/ EnqueueAfter(l) PROVE backoff' = backoff
  BY <1>5 DEF Enqueue, Add, EnqueueAfter, AddAfter
<1>6. ASSUME NEW w \in Worker, ReconcileFails(w) \/ ReconcileSucceeds(w)
      PROVE  k \in (owed' \ owed) \cup (backoff' \ backoff) => Scheduled(k)'
  BY <1>1, <1>6 DEF ReconcileFails, ReconcileSucceeds, CountFailure, Forget, Owe,
                    Goto, Scheduled
<1>7. ASSUME NEW w \in Worker, WorkerStep(w), ~ (ReconcileFails(w) \/ ReconcileSucceeds(w))
      PROVE  owed' \subseteq owed /\ backoff' = backoff
  BY <1>7 DEF WorkerStep, Wait, Exit, Take, StartReconcile, SkipNotLeader, RequeueAfter,
              Requeue, Finish, GetWaits, GetShutsDown, GetTakes, AddAfter, Add, Done,
              queueVars
<1>8. CASE \/ Promote /\ UNCHANGED <<ctlVars, owed>>
           \/ AcquireLease \/ LoseLease \/ Cancel \/ StopStep \/ UNCHANGED vars
  BY <1>2, <1>8 DEF Promote, PromoteTake, PromoteAdd, AcquireLease, LoseLease, Cancel,
                    StopStep, Resign, ShutDownQueue, ShutDown, Stopped, queueVars, vars
<1> QED
  BY <1>3, <1>4, <1>5, <1>6, <1>7, <1>8 DEF Next

(* A queue that was shut down stays shut down.                             *)
LEMMA ShutdownStays == [Next]_vars /\ shutdown => shutdown'
<1> SUFFICES ASSUME [Next]_vars, shutdown PROVE shutdown'
  OBVIOUS
<1>1. ASSUME NEW w \in Worker, WorkerStep(w) PROVE shutdown'
  BY <1>1 DEF WorkerStep, Wait, Exit, Take, StartReconcile, SkipNotLeader,
              ReconcileFails, ReconcileSucceeds, RequeueAfter, Requeue, Finish,
              GetWaits, GetShutsDown, GetTakes, CountFailure, Forget, AddAfter, Add,
              Done, queueVars
<1>2. CASE ~ \E w \in Worker : WorkerStep(w)
  BY <1>2 DEF Next, Enqueue, EnqueueAfter, Add, AddAfter, Promote, PromoteTake,
              PromoteAdd, AcquireLease, LoseLease, Cancel, StopStep, Resign,
              ShutDownQueue, ShutDown, Stopped, queueVars, vars
<1> QED
  BY <1>1, <1>2

(* While the queue is open, no change and no retry is ever lost.           *)
LEMMA LostStep == TypeOK /\ JobInv /\ NothingLost /\ [Next]_vars => NothingLost'
<1> SUFFICES ASSUME TypeOK, JobInv, NothingLost, [Next]_vars, ~ shutdown',
                    NEW k \in owed'
             PROVE  Scheduled(k)'
  BY DEF NothingLost
<1>1. ~ shutdown /\ k \in Key
  BY ShutdownStays, TypeStep DEF TypeOK
<1>2. CASE k \in owed
  <2>1. Scheduled(k)
    BY <1>1, <1>2 DEF NothingLost
  <2>2. ASSUME NEW w \in Worker, StartReconcile(w), job[w] = k PROVE FALSE
    BY <2>2 DEF StartReconcile
  <2> QED
    BY <1>1, <2>1, <2>2, StaysScheduled
<1> QED
  BY <1>1, <1>2, OwedIsScheduled

(* While the queue is open, a counted failure has its retry due or running. *)
LEMMA BackoffStep == TypeOK /\ JobInv /\ BackoffMeansRetry /\ [Next]_vars => BackoffMeansRetry'
<1> DEFINE Running(k) == \E w \in Worker : job[w] = k /\ pc[w] = "reconcile"
<1> SUFFICES ASSUME TypeOK, JobInv, BackoffMeansRetry, [Next]_vars, ~ shutdown',
                    NEW k \in backoff'
             PROVE  Scheduled(k)' \/ Running(k)'
  BY DEF BackoffMeansRetry
<1>1. ~ shutdown /\ k \in Key /\ pc \in [Worker -> PC] /\ job \in [Worker -> Key \cup {NoKey}]
  BY ShutdownStays, TypeStep DEF TypeOK, QueueTypeOK
<1>2. ASSUME NEW w \in Worker, StartReconcile(w), job[w] = k PROVE Running(k)'
  BY <1>1, <1>2 DEF StartReconcile, Goto
<1>3. CASE Scheduled(k)
  BY <1>1, <1>2, <1>3, StaysScheduled
<1>4. ASSUME NEW w \in Worker, job[w] = k, pc[w] = "reconcile", k \in backoff
      PROVE  Scheduled(k)' \/ Running(k)'
  <2>1. CASE UNCHANGED <<pc, job>>
    BY <1>4, <2>1
  <2>2. ASSUME NEW v \in Worker, WorkerStep(v), v # w PROVE Running(k)'
    <3>1. pc'[w] = pc[w] /\ job'[w] = job[w]
      BY <1>1, <2>2 DEF WorkerStep, Wait, Exit, Take, StartReconcile, SkipNotLeader,
                 ReconcileFails, ReconcileSucceeds, RequeueAfter, Requeue, Finish,
                 Goto, ctlVars
    <3> QED
      BY <1>4, <3>1
  <2>3. CASE WorkerStep(w)
    <3>1. ReconcileFails(w) \/ ReconcileSucceeds(w)
      BY <1>4, <2>3 DEF WorkerStep, Wait, Exit, Take, StartReconcile, SkipNotLeader,
                        RequeueAfter, Requeue, Finish
    <3>2. CASE ReconcileSucceeds(w)
      BY <1>4, <3>2 DEF ReconcileSucceeds, Forget
    <3>3. CASE ReconcileFails(w)
      BY <1>1, <1>4, <3>3 DEF ReconcileFails, Goto, Scheduled
    <3> QED
      BY <3>1, <3>2, <3>3
  <2>4. CASE ~ \E v \in Worker : WorkerStep(v)
    <3>1. UNCHANGED <<pc, job>>
      BY <2>4 DEF Next, Enqueue, EnqueueAfter, AcquireLease, LoseLease, Cancel,
                  StopStep, Resign, ShutDownQueue, Stopped, ctlVars, vars
    <3> QED
      BY <2>1, <3>1
  <2> QED
    BY <2>2, <2>3, <2>4
<1> QED
  BY <1>1, <1>3, <1>4, OwedIsScheduled DEF BackoffMeansRetry

-----------------------------------------------------------------------------
(* What the number of awake workers has to cover.                          *)
LEMMA AwakeIsFinite == IsFiniteSet(Awake) /\ Cardinality(Awake) \in Nat
BY WorkersAreFinite, FS_Subset, FS_CardinalityType DEF Awake

(* The same with the awake workers of the next state.                      *)
LEMMA AwakeIsFiniteNext == IsFiniteSet(Awake') /\ Cardinality(Awake') \in Nat
<1>1. Awake' \subseteq Worker
  BY DEF Awake
<1> QED
  BY <1>1, WorkersAreFinite, FS_Subset, FS_CardinalityType

(* Adding to the queue wakes a worker, if any sleeps.                      *)
LEMMA PushWakes ==
    ASSUME TypeOK, SleepInv, NoLostWakeup, NEW k \in Key, Push(k),
           \A w \in Worker : pc[w] = "get" => pc'[w] = "get"
    PROVE  SleepInv' /\ NoLostWakeup'
<1>1. /\ waiting \subseteq Worker /\ items \in Seq(Key)
      /\ items' = Append(items, k) /\ Signal
  BY DEF TypeOK, QueueTypeOK, Push
<1>2. Len(items) \in Nat /\ Len(items') = Len(items) + 1
  BY <1>1
<1>3. CASE waiting = {} /\ waiting' = {}
  BY <1>3 DEF SleepInv, NoLostWakeup
<1>4. ASSUME NEW w \in waiting, waiting' = waiting \ {w} PROVE SleepInv' /\ NoLostWakeup'
  <2>1. SleepInv'
    BY <1>1, <1>4 DEF SleepInv
  <2>2. Awake \cup {w} \subseteq Awake' /\ w \notin Awake
    BY <1>1, <1>4 DEF Awake, SleepInv
  <2>3. Cardinality(Awake \cup {w}) = Cardinality(Awake) + 1
    BY <2>2, FS_AddElement, AwakeIsFinite
  <2>4. Cardinality(Awake) + 1 <= Cardinality(Awake')
    BY <2>2, <2>3, FS_Subset, AwakeIsFiniteNext
  <2>5. Len(items) <= Cardinality(Awake)
    BY <1>4 DEF NoLostWakeup, Awake
  <2>6. Len(items') <= Cardinality(Awake')
    BY <1>2, <2>4, <2>5, AwakeIsFinite, AwakeIsFiniteNext
  <2> QED
    BY <2>1, <2>6 DEF NoLostWakeup, Awake
<1> QED
  BY <1>1, <1>3, <1>4 DEF Signal

(* No wake-up is lost: every step keeps enough workers awake for the items *)
(* in the queue.                                                           *)
LEMMA WakeStep ==
    TypeOK /\ JobInv /\ SleepInv /\ NoLostWakeup /\ [Next]_vars => SleepInv' /\ NoLostWakeup'
<1> SUFFICES ASSUME TypeOK, JobInv, SleepInv, NoLostWakeup, [Next]_vars
             PROVE  SleepInv' /\ NoLostWakeup'
  OBVIOUS
<1>1. /\ waiting \subseteq Worker /\ items \in Seq(Key) /\ Len(items) \in Nat
      /\ pc \in [Worker -> PC]
  BY DEF TypeOK, QueueTypeOK
<1>2. ASSUME UNCHANGED <<items, waiting>>,
             \A w \in Worker : pc[w] = "get" => pc'[w] = "get"
      PROVE  SleepInv' /\ NoLostWakeup'
  <2>1. SleepInv' /\ Awake \subseteq Awake'
    BY <1>1, <1>2 DEF SleepInv, Awake
  <2>2. Cardinality(Awake) <= Cardinality(Awake')
    BY <2>1, FS_Subset, AwakeIsFiniteNext
  <2>3. waiting # {} => Len(items) <= Cardinality(Awake)
    BY DEF NoLostWakeup, Awake
  <2>4. waiting' # {} => Len(items') <= Cardinality(Awake')
    BY <1>1, <1>2, <2>2, <2>3, AwakeIsFinite, AwakeIsFiniteNext
  <2> QED
    BY <2>1, <2>4 DEF NoLostWakeup, Awake
<1>3. ASSUME NEW k \in Key, Enter(k), \A w \in Worker : pc[w] = "get" => pc'[w] = "get"
      PROVE  SleepInv' /\ NoLostWakeup'
  BY <1>2, <1>3, PushWakes DEF Enter
<1>4. ASSUME items' = <<>>, SleepInv' PROVE NoLostWakeup'
  <2>1. Len(items') = 0
    BY <1>4
  <2>2. Len(items') <= Cardinality(Awake')
    BY <2>1, AwakeIsFiniteNext
  <2> QED
    BY <2>2 DEF NoLostWakeup, Awake
<1>5. ASSUME NEW w \in Worker, Wait(w) \/ Exit(w) PROVE SleepInv' /\ NoLostWakeup'
  <2>1. items' = <<>>
    BY <1>5 DEF Wait, Exit, GetWaits, GetShutsDown, queueVars
  <2>2. SleepInv'
    BY <1>1, <1>5 DEF Wait, Exit, GetWaits, GetShutsDown, queueVars, ctlVars, Goto, SleepInv
  <2> QED
    BY <1>4, <2>1, <2>2
<1>6. ASSUME NEW w \in Worker, Take(w) PROVE SleepInv' /\ NoLostWakeup'
  <2>1. /\ items # <<>> /\ items' = Tail(items) /\ UNCHANGED waiting
        /\ w \notin waiting /\ pc[w] = "get" /\ pc' = [pc EXCEPT ![w] = "check"]
    BY <1>6 DEF Take, GetTakes, Goto
  <2>2. SleepInv' /\ Awake' = Awake \ {w} /\ w \in Awake
    BY <1>1, <2>1 DEF SleepInv, Awake
  <2>3. Cardinality(Awake') = Cardinality(Awake) - 1
    BY <2>2, FS_RemoveElement, AwakeIsFinite
  <2>4. Len(items') = Len(items) - 1
    BY <1>1, <2>1
  <2>5. waiting # {} => Len(items) <= Cardinality(Awake)
    BY DEF NoLostWakeup, Awake
  <2>6. waiting' # {} => Len(items') <= Cardinality(Awake')
    BY <1>1, <2>1, <2>3, <2>4, <2>5, AwakeIsFinite
  <2> QED
    BY <2>2, <2>6 DEF NoLostWakeup, Awake
<1>7. ASSUME NEW w \in Worker, Finish(w) PROVE SleepInv' /\ NoLostWakeup'
  <2>1. job[w] \in Key /\ Done(job[w]) /\ \A v \in Worker : pc[v] = "get" => pc'[v] = "get"
    BY <1>1, <1>7, BusyHasJob DEF Finish, Goto
  <2> QED
    BY <1>2, <2>1, PushWakes DEF Done
<1>8. ASSUME NEW w \in Worker, WorkerStep(w) PROVE SleepInv' /\ NoLostWakeup'
  <2>1. CASE Requeue(w)
    <3>1. job[w] \in Key /\ Enter(job[w]) /\ \A v \in Worker : pc[v] = "get" => pc'[v] = "get"
      BY <1>1, <2>1, BusyHasJob DEF Requeue, Add, Goto
    <3> QED
      BY <1>3, <3>1
  <2>2. CASE ~ (Wait(w) \/ Exit(w) \/ Take(w) \/ Finish(w) \/ Requeue(w))
    <3>1. UNCHANGED <<items, waiting>> /\ \A v \in Worker : pc[v] = "get" => pc'[v] = "get"
      BY <1>1, <1>8, <2>2
      DEF WorkerStep, StartReconcile, SkipNotLeader, ReconcileFails, ReconcileSucceeds,
          RequeueAfter, CountFailure, Forget, AddAfter, queueVars, Goto
    <3> QED
      BY <1>2, <3>1
  <2> QED
    BY <1>5, <1>6, <1>7, <2>1, <2>2
<1>9. ASSUME NEW k \in Key, Enqueue(k) \/ (PromoteAdd(k) /\ UNCHANGED <<ctlVars, owed>>)
      PROVE  SleepInv' /\ NoLostWakeup'
  BY <1>3, <1>9 DEF Enqueue, Add, PromoteAdd, ctlVars
<1>10. CASE ShutDownQueue
  BY <1>10 DEF ShutDownQueue, ShutDown, SleepInv, NoLostWakeup
<1>11. CASE \/ \E k \in Key : EnqueueAfter(k)
            \/ PromoteTake /\ UNCHANGED <<ctlVars, owed>>
            \/ AcquireLease \/ LoseLease \/ Cancel \/ Resign \/ Stopped
            \/ UNCHANGED vars
  <2>1. UNCHANGED <<items, waiting, pc>>
    BY <1>11 DEF EnqueueAfter, AddAfter, PromoteTake, AcquireLease, LoseLease, Cancel,
                 Resign, Stopped, ctlVars, queueVars, vars
  <2> QED
    BY <1>2, <2>1
<1> QED
  BY <1>8, <1>9, <1>10, <1>11 DEF Next, Promote, StopStep

-----------------------------------------------------------------------------
(* The invariant holds initially.                                          *)
LEMMA InvInit == Init => Inv
<1> SUFFICES ASSUME Init PROVE Inv
  OBVIOUS
<1>1. /\ items = <<>> /\ dirty = {} /\ processing = {} /\ waiting = {}
      /\ backoff = {} /\ owed = {}
      /\ pc = [w \in Worker |-> "get"] /\ job = [w \in Worker |-> NoKey]
  BY DEF Init, QueueInit
<1>2. JobInv
  BY <1>1, NoKeyIsNoKey DEF JobInv
<1>3. QueueIsDirty
  BY <1>1 DEF QueueIsDirty, InQueue
<1> QED
  BY <1>1, <1>2, <1>3, TypeInit DEF Inv, SleepInv, NothingLost, BackoffMeansRetry, NoLostWakeup

(* The inductive invariant of the controller holds in every behaviour.     *)
THEOREM InvCorrect == Spec => []Inv
<1>1. Inv /\ [Next]_vars => Inv'
  BY TypeStep, JobStep, QueueStep, LostStep, BackoffStep, WakeStep DEF Inv
<1> QED
  BY InvInit, <1>1, PTL DEF Spec

(* Every variable stays in its type.                                       *)
THEOREM TypeCorrect == Spec => []TypeOK
<1>1. Inv => TypeOK
  BY DEF Inv
<1> QED
  BY InvCorrect, <1>1, PTL

(* However many workers there are, no request is reconciled by two of them *)
(* at the same time: Add leaves a key in flight to Done.                   *)
THEOREM NoConcurrentReconcileCorrect == Spec => []NoConcurrentReconcile
<1>1. Inv => NoConcurrentReconcile
  BY DEF Inv, JobInv, NoConcurrentReconcile
<1> QED
  BY InvCorrect, <1>1, PTL

(* The queue lists each dirty key that is not in flight exactly once.      *)
THEOREM QueueIsDirtyCorrect == Spec => []QueueIsDirty
<1>1. Inv => QueueIsDirty
  BY DEF Inv
<1> QED
  BY InvCorrect, <1>1, PTL

(* Until the shutdown no change and no retry is lost.                      *)
THEOREM NothingLostCorrect == Spec => []NothingLost
<1>1. Inv => NothingLost
  BY DEF Inv
<1> QED
  BY InvCorrect, <1>1, PTL

(* One Signal for each Append is enough: no item waits in the queue while  *)
(* all the workers that could take it sleep.                               *)
THEOREM NoLostWakeupCorrect == Spec => []NoLostWakeup
<1>1. Inv => NoLostWakeup
  BY DEF Inv
<1> QED
  BY InvCorrect, <1>1, PTL

(* A counted failure has its retry due or running until the shutdown.      *)
THEOREM BackoffMeansRetryCorrect == Spec => []BackoffMeansRetry
<1>1. Inv => BackoffMeansRetry
  BY DEF Inv
<1> QED
  BY InvCorrect, <1>1, PTL
-----------------------------------------------------------------------------
(* The controller refines KeyedQueue.                                      *)

(* A key becomes wanted once it is dirty or delayed, and stays wanted      *)
(* while one of the three holds.                                           *)
LEMMA EnterWants ==
    ASSUME QueueTypeOK, NEW k \in Key, Enter(k), UNCHANGED <<delayed, promoting>>
    PROVE  Wanted' = IF shutdown THEN Wanted ELSE Wanted \cup {k}
<1>1. dirty' = IF shutdown THEN dirty ELSE dirty \cup {k}
  BY DEF Enter
<1> QED
  BY <1>1 DEF Wanted

(* A delayed request makes its key wanted.                                 *)
LEMMA AddAfterWants ==
    ASSUME QueueTypeOK, NEW k \in Key, AddAfter(k)
    PROVE  Wanted' = IF shutdown THEN Wanted ELSE Wanted \cup {k}
<1>1. delayed \in [Key -> Nat]
  BY DEF QueueTypeOK
<1> QED
  BY <1>1 DEF AddAfter, Wanted

(* Moving items from delayed to promoting makes no difference, and adding  *)
(* one makes none unless the queue is shut down and drops it.              *)
LEMMA PromoteWants ==
    ASSUME QueueTypeOK, Promote
    PROVE  \/ Wanted' = Wanted
           \/ shutdown /\ \E k \in Key : Wanted' = Wanted \ {k}
<1>1. delayed \in [Key -> Nat] /\ promoting \in [Key -> Nat] /\ dirty \subseteq Key
  BY DEF QueueTypeOK
<1>2. CASE PromoteTake
  <2> DEFINE Most == UNION {0..delayed[k] : k \in Key}
  <2>1. PICK due \in [Key -> Most] :
            /\ \A k \in Key : due[k] <= delayed[k]
            /\ promoting' = due
            /\ delayed' = [k \in Key |-> delayed[k] - due[k]]
    BY <1>2 DEF PromoteTake
  <2>2. ASSUME NEW k \in Key
        PROVE  delayed[k] > 0 \/ promoting[k] > 0 <=> delayed'[k] > 0 \/ promoting'[k] > 0
    <3>1. Most \subseteq Nat
      BY <1>1
    <3>2. due[k] \in Nat /\ delayed[k] \in Nat /\ due[k] <= delayed[k]
      BY <1>1, <2>1, <3>1
    <3>3. promoting[k] = 0 /\ promoting'[k] = due[k] /\ delayed'[k] = delayed[k] - due[k]
      BY <1>2, <2>1 DEF PromoteTake
    <3> QED
      BY <3>2, <3>3
  <2>3. dirty' = dirty
    BY <1>2 DEF PromoteTake
  <2> QED
    BY <2>2, <2>3 DEF Wanted
<1>3. ASSUME NEW k \in Key, PromoteAdd(k)
      PROVE  IF shutdown THEN Wanted' = Wanted \/ Wanted' = Wanted \ {k}
                         ELSE Wanted' = Wanted
  <2>1. /\ promoting[k] > 0 /\ promoting' = [promoting EXCEPT ![k] = @ - 1]
        /\ delayed' = delayed /\ Enter(k)
    BY <1>3 DEF PromoteAdd
  <2>2. dirty' = IF shutdown THEN dirty ELSE dirty \cup {k}
    BY <2>1 DEF Enter
  <2>3. \A l \in Key \ {k} : l \in Wanted' <=> l \in Wanted
    BY <1>1, <2>1, <2>2 DEF Wanted
  <2>4. k \in Wanted /\ (~ shutdown => k \in Wanted')
    BY <1>1, <2>1, <2>2 DEF Wanted
  <2>5. Wanted \subseteq Key /\ Wanted' \subseteq Key
    BY DEF Wanted
  <2> QED
    BY <2>3, <2>4, <2>5
<1> QED
  BY <1>2, <1>3 DEF Promote

(* Get begins an execution of a key that is wanted and that nobody         *)
(* executes, because the queue lists no other.                             *)
LEMMA TakeBegins ==
    ASSUME Inv, NEW w \in Worker, Take(w)
    PROVE  \E k \in Key : KQ!Begin(k)
<1> DEFINE k == Head(items)
<1>1. /\ items # <<>> /\ dirty' = dirty \ {k} /\ processing' = processing \cup {k}
      /\ UNCHANGED <<delayed, promoting, shutdown>>
  BY DEF Take, GetTakes
<1>2. k \in Key /\ k \in dirty \ processing
  <2>1. items \in Seq(Key) /\ Lists(items, dirty \ processing)
    BY QueueLists DEF Inv, TypeOK, QueueTypeOK
  <2> QED
    BY <1>1, <2>1, TailLists
<1>3. Wanted' = Wanted \/ Wanted' = Wanted \ {k}
  <2>1. \A l \in Key \ {k} : l \in Wanted' <=> l \in Wanted
    BY <1>1 DEF Wanted
  <2>2. k \in Wanted /\ Wanted \subseteq Key /\ Wanted' \subseteq Key
    BY <1>2 DEF Wanted
  <2> QED
    BY <2>1, <2>2
<1>4. k \in Wanted
  BY <1>2 DEF Wanted
<1> QED
  BY <1>1, <1>2, <1>3, <1>4 DEF KQ!Begin

(* Every step of a worker is a step of KeyedQueue or none.                 *)
LEMMA WorkerRefines ==
    ASSUME Inv, NEW w \in Worker, WorkerStep(w)
    PROVE  [KQ!Next]_(KQ!vars)
<1>1. TypeOK /\ QueueTypeOK /\ JobInv
  BY DEF Inv, TypeOK
<1>2. CASE UNCHANGED <<dirty, delayed, promoting, processing, shutdown>>
  BY <1>2 DEF Wanted, KQ!vars
<1>3. CASE Wait(w) \/ Exit(w) \/ StartReconcile(w) \/ SkipNotLeader(w)
           \/ ReconcileFails(w) \/ ReconcileSucceeds(w)
  BY <1>2, <1>3 DEF Wait, GetWaits, Exit, GetShutsDown, StartReconcile, SkipNotLeader,
                    ReconcileFails, CountFailure, ReconcileSucceeds, Forget, queueVars
<1>4. CASE Take(w)
  BY <1>4, TakeBegins DEF KQ!Next
<1>5. CASE RequeueAfter(w) \/ Requeue(w)
  <2>1. job[w] \in Key /\ (AddAfter(job[w]) \/ Add(job[w]))
    BY <1>1, <1>5, BusyHasJob DEF RequeueAfter, Requeue
  <2>2. Wanted' = (IF shutdown THEN Wanted ELSE Wanted \cup {job[w]})
        /\ UNCHANGED <<processing, shutdown>>
    BY <1>1, <2>1, EnterWants, AddAfterWants DEF Add, AddAfter
  <2> QED
    BY <2>1, <2>2 DEF KQ!Next, KQ!Request, KQ!vars
<1>6. CASE Finish(w)
  <2>1. job[w] \in Key /\ Done(job[w])
    BY <1>1, <1>6, BusyHasJob DEF Finish
  <2>2. job[w] \in processing
    BY <1>1, <2>1 DEF JobInv
  <2>3. Wanted' = Wanted /\ processing' = processing \ {job[w]} /\ UNCHANGED shutdown
    BY <2>1 DEF Done, Wanted
  <2> QED
    BY <2>1, <2>2, <2>3 DEF KQ!Next, KQ!End
<1> QED
  BY <1>3, <1>4, <1>5, <1>6 DEF WorkerStep

(* Every step of the controller is a step of KeyedQueue or none.           *)
LEMMA QueueRefines == Inv /\ [Next]_vars => [KQ!Next]_(KQ!vars)
<1> SUFFICES ASSUME Inv, [Next]_vars PROVE [KQ!Next]_(KQ!vars)
  OBVIOUS
<1>1. QueueTypeOK
  BY DEF Inv, TypeOK
<1>2. ASSUME NEW k \in Key, Enqueue(k) \/ EnqueueAfter(k) PROVE [KQ!Next]_(KQ!vars)
  <2>1. Wanted' = (IF shutdown THEN Wanted ELSE Wanted \cup {k})
        /\ UNCHANGED <<processing, shutdown>>
    BY <1>1, <1>2, EnterWants, AddAfterWants DEF Enqueue, EnqueueAfter, Add, AddAfter
  <2> QED
    BY <2>1 DEF KQ!Next, KQ!Request, KQ!vars
<1>3. CASE Promote /\ UNCHANGED <<ctlVars, owed>>
  <2>1. UNCHANGED <<processing, shutdown>>
    BY <1>3 DEF Promote, PromoteTake, PromoteAdd
  <2> QED
    BY <1>1, <1>3, <2>1, PromoteWants DEF KQ!Next, KQ!Drop, KQ!vars
<1>4. ASSUME NEW w \in Worker, WorkerStep(w) PROVE [KQ!Next]_(KQ!vars)
  BY <1>4, WorkerRefines
<1>5. CASE ShutDownQueue
  BY <1>5 DEF ShutDownQueue, ShutDown, Wanted, KQ!Next, KQ!Close
<1>6. CASE AcquireLease \/ LoseLease \/ Cancel \/ Resign \/ Stopped \/ UNCHANGED vars
  BY <1>6 DEF AcquireLease, LoseLease, Cancel, Resign, Stopped, vars, queueVars,
              Wanted, KQ!vars
<1> QED
  BY <1>2, <1>3, <1>4, <1>5, <1>6 DEF Next, StopStep

(* However many keys and workers there are, the queue with its lists, its  *)
(* timers and its condition variable implements KeyedQueue.                *)
THEOREM ImplementsKeyedQueueCorrect == Spec => ImplementsKeyedQueue
<1>1. Init => KQ!Init
  BY DEF Init, QueueInit, Wanted, KQ!Init
<1>2. Inv /\ [Next]_vars => [KQ!Next]_(KQ!vars)
  BY QueueRefines
<1> QED
  BY <1>1, <1>2, InvCorrect, PTL DEF Spec, ImplementsKeyedQueue, KQ!Spec
-----------------------------------------------------------------------------
(* No owed key stalls                                                      *)

(* Workers leave only after a shutdown. *)
ExitInv == \A w \in Worker : pc[w] = "exited" => shutdown

LEMMA ExitStep == TypeOK /\ ExitInv /\ [Next]_vars => ExitInv'
<1> SUFFICES ASSUME TypeOK, ExitInv, [Next]_vars, NEW v \in Worker, pc'[v] = "exited"
             PROVE  shutdown'
  BY DEF ExitInv
<1>1. pc[v] = "exited" => shutdown'
  BY ShutdownStays DEF ExitInv
<1>2. ASSUME NEW w \in Worker, WorkerStep(w) PROVE shutdown'
  <2>1. CASE Exit(w)
    BY <2>1 DEF Exit, GetShutsDown, queueVars
  <2>2. CASE ~ Exit(w)
    <3>1. pc[v] = "exited"
      BY <1>2, <2>2 DEF WorkerStep, Wait, Take, StartReconcile, SkipNotLeader,
                        ReconcileFails, ReconcileSucceeds, RequeueAfter, Requeue,
                        Finish, Goto, TypeOK, ctlVars
    <3> QED
      BY <1>1, <3>1
  <2> QED
    BY <2>1, <2>2
<1>3. CASE pc' = pc
  BY <1>1, <1>3
<1> QED
  BY <1>2, <1>3 DEF Next, Enqueue, EnqueueAfter, Promote, AcquireLease, LoseLease,
                    Cancel, StopStep, Resign, ShutDownQueue, Stopped, ctlVars, vars

(* What NothingLost, QueueIsDirty and NoLostWakeup say of one key together.*)
LEMMA OwedMoves == Inv /\ ExitInv => NoStall
<1> SUFFICES ASSUME Inv, ExitInv, ~ shutdown, Worker # {}, NEW k \in owed,
                    ~ (delayed[k] > 0 \/ promoting[k] > 0),
                    ~ \E w \in Worker : job[w] = k
             PROVE  InQueue(k) /\ \E w \in Worker \ waiting : pc[w] # "exited"
  BY DEF NoStall
<1>1. k \in Key /\ k \in dirty /\ k \notin processing
  BY DEF Inv, TypeOK, NothingLost, Scheduled, JobInv
<1>2. InQueue(k)
  BY <1>1 DEF Inv, QueueIsDirty
<1>3. \A w \in Worker : pc[w] # "exited"
  BY DEF ExitInv
<1>4. CASE waiting = {}
  BY <1>2, <1>3, <1>4
<1>5. CASE waiting # {}
  <2>1. items \in Seq(Key) /\ Len(items) \in Nat \ {0}
    BY <1>2 DEF Inv, TypeOK, QueueTypeOK, InQueue
  <2>2. Len(items) <= Cardinality(Awake)
    BY <1>5 DEF Inv, NoLostWakeup, Awake
  <2>3. Awake # {}
    <3>1. Cardinality(Awake) # 0
      BY <2>1, <2>2, AwakeIsFinite
    <3> QED
      BY <3>1, AwakeIsFinite, FS_EmptySet
  <2> QED
    BY <1>2, <1>3, <2>3 DEF Awake
<1> QED
  BY <1>4, <1>5

(* While the queue is open, an owed key has somebody or something on the   *)
(* way to it: the queue never stalls, for any number of keys and workers.  *)
THEOREM NoStallCorrect == Spec => []NoStall
<1>1. Init => ExitInv
  BY DEF Init, ExitInv
<1>2. Inv => TypeOK
  BY DEF Inv
<1> QED
  BY <1>1, <1>2, ExitStep, OwedMoves, InvCorrect, PTL DEF Spec
-----------------------------------------------------------------------------
(* A stop drains the queue                                                 *)

(* Start closes the queue before it waits for the workers, and what is in  *)
(* a closed queue has a worker that has not left.                          *)
DrainInv ==
    /\ main \in {"draining", "stopped"} => shutdown
    /\ main = "stopped" => \A w \in Worker : pc[w] = "exited"
    /\ shutdown /\ Worker # {} /\ items # <<>> => \E w \in Worker : pc[w] # "exited"

(* A closed queue takes nothing new. *)
LEMMA ClosedStays == ASSUME NEW k \in Key, shutdown, Enter(k) PROVE items' = items
BY DEF Enter

LEMMA DrainStep == TypeOK /\ ExitInv /\ DrainInv /\ [Next]_vars => DrainInv'
<1> SUFFICES ASSUME TypeOK, ExitInv, DrainInv, [Next]_vars PROVE DrainInv'
  OBVIOUS
<1>1. shutdown => shutdown'
  BY ShutdownStays
<1>2. ASSUME main' = main, pc' = pc, shutdown' = shutdown, shutdown => items' = items
      PROVE  DrainInv'
  BY <1>2 DEF DrainInv
<1>3. ASSUME NEW k \in Key, Enqueue(k) \/ EnqueueAfter(k) PROVE DrainInv'
  BY <1>2, <1>3, ClosedStays DEF Enqueue, EnqueueAfter, Add, AddAfter, ctlVars
<1>4. CASE Promote /\ UNCHANGED <<ctlVars, owed>>
  BY <1>2, <1>4, ClosedStays DEF Promote, PromoteTake, PromoteAdd, ctlVars
<1>5. ASSUME NEW w \in Worker, WorkerStep(w) PROVE DrainInv'
  <2>1. /\ main' = main /\ shutdown' = shutdown /\ pc[w] # "exited"
        /\ \A v \in Worker : v # w => pc'[v] = pc[v]
    BY <1>5 DEF WorkerStep, Wait, Exit, Take, StartReconcile, SkipNotLeader,
                ReconcileFails, ReconcileSucceeds, RequeueAfter, Requeue, Finish,
                Goto, TypeOK, ctlVars, queueVars, GetWaits, GetShutsDown, GetTakes,
                CountFailure, Forget, AddAfter, Add, Done
  <2>2. main # "stopped"
    BY <2>1 DEF DrainInv
  <2>3. CASE Exit(w)
    BY <2>1, <2>2, <2>3 DEF Exit, GetShutsDown, queueVars, DrainInv
  <2>4. CASE ~ Exit(w)
    <3>1. pc'[w] # "exited"
      BY <1>5, <2>1, <2>4
      DEF WorkerStep, Wait, Take, StartReconcile, SkipNotLeader, ReconcileFails,
          ReconcileSucceeds, RequeueAfter, Requeue, Finish, Goto, TypeOK, ctlVars
    <3> QED
      BY <2>1, <2>2, <3>1 DEF DrainInv
  <2> QED
    BY <2>3, <2>4
<1>6. CASE AcquireLease \/ LoseLease
  BY <1>2, <1>6 DEF AcquireLease, LoseLease, queueVars
<1>7. CASE Cancel \/ Resign
  BY <1>7 DEF Cancel, Resign, queueVars, DrainInv
<1>8. CASE ShutDownQueue
  BY <1>8 DEF ShutDownQueue, ShutDown, DrainInv, ExitInv
<1>9. CASE Stopped
  BY <1>9 DEF Stopped, queueVars, DrainInv
<1>10. CASE UNCHANGED vars
  BY <1>2, <1>10 DEF vars, ctlVars, queueVars
<1> QED
  BY <1>3, <1>4, <1>5, <1>6, <1>7, <1>8, <1>9, <1>10 DEF Next, StopStep

(* Start returns with an empty queue: no key is queued, dirty or in        *)
(* flight, for any number of workers that leave in any order.              *)
THEOREM StopsDrainedCorrect == Spec => []StopsDrained
<1>1. Init => ExitInv /\ DrainInv
  BY DEF Init, QueueInit, ExitInv, DrainInv
<1>2. Inv => TypeOK
  BY DEF Inv
<1>3. Inv /\ DrainInv => StopsDrained
  <2> SUFFICES ASSUME Inv, DrainInv, main = "stopped", Worker # {}
               PROVE  items = <<>> /\ dirty = {} /\ processing = {}
    BY DEF StopsDrained
  <2>1. items = <<>>
    BY DEF DrainInv
  <2>2. processing = {}
    <3>1. \A w \in Worker : job[w] = NoKey
      BY DEF DrainInv, Inv, JobInv
    <3> QED
      BY <3>1, NoKeyIsNoKey DEF Inv, TypeOK, QueueTypeOK, JobInv
  <2>3. dirty = {}
    <3>1. \A k \in Key : ~ InQueue(k)
      BY <2>1 DEF InQueue
    <3> QED
      BY <2>2, <3>1 DEF Inv, TypeOK, QueueTypeOK, QueueIsDirty
  <2> QED
    BY <2>1, <2>2, <2>3
<1> QED
  BY <1>1, <1>2, <1>3, ExitStep, DrainStep, InvCorrect, PTL DEF Spec
===============================================================================
