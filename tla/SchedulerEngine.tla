---------------------------- MODULE SchedulerEngine ----------------------------
(***************************************************************************)
(* The scheduling engine of pkg/scheduler as cmd/scheduler runs it: the    *)
(* goroutine of Engine.Run (recovery, scheduling cycles, snapshots), the   *)
(* HTTP handlers that submit and preempt, the shutdown in main, and the    *)
(* database with one snapshot row and one row per workload.  The process   *)
(* may end at any step and is started again.                               *)
(*                                                                         *)
(* Whether a workload fits a node depends only on the node data and the    *)
(* request: nothing is debited when a workload is placed.  So the set of   *)
(* those that fit is any set that does not change; the scores, the chosen  *)
(* node and QueuedAt are left out (workloads of one priority are sorted in *)
(* any order).                                                             *)
(***************************************************************************)
EXTENDS Naturals, Sequences, FiniteSets

CONSTANTS Workload,
          Priority,   \* Priority[w]
          MaxVersion  \* bound on the snapshots one history may take

ASSUME WorkloadsAreFinite == IsFiniteSet(Workload)
ASSUME PriorityIsNat == Priority \in [Workload -> Nat]
ASSUME MaxVersionIsNat == MaxVersion \in Nat

VARIABLES
    placeable,  \* the workloads for which some node passes the filters
    process,  \* what main does: "serving", "stopping" (after Engine.Stop), "down"
    pc,       \* where Run stands
    queue,    \* e.queue
    running,  \* e.running
    version,  \* e.snapshotVersion
    draft,    \* the snapshot SaveSnapshot has copied and not yet stored
    status,   \* status[w]: the Status of w's object, "gone" if no process has it
    handler,  \* handler[w]: where the request that submits w stands
    snap,     \* the snapshot row, version 0 while there is none
    row,      \* row[w]: the status column of w's workload row
    lossy,    \* history: LoadSnapshot failed or found the queue in use
    late      \* history: the workloads submitted after the final snapshot was copied

runVars == <<process, pc>>
memory == <<queue, running, version, status>>
database == <<snap, row>>
vars == <<placeable, process, pc, queue, running, version, draft, status, handler, snap, row, lossy, late>>

Snapshot == [version : Nat, queue : Seq(Workload), running : SUBSET Workload]
NoSnapshot == [version |-> 0, queue |-> <<>>, running |-> {}]

Elements(s) == {s[i] : i \in DOMAIN s}
Work(s) == Elements(s.queue) \cup s.running

(* "appended": in the queue, wl.Status not yet copied for the row; the     *)
(* others but "idle": the copy CreateWorkload will store.  A copy that     *)
(* races with a write of wl.Status may be torn.                            *)
Handler == {"idle", "appended", "queued", "scheduled", "preempted", "torn"}

TypeOK == /\ placeable \subseteq Workload
          /\ process \in {"down", "serving", "stopping"}
          /\ pc \in {"down", "starting", "loop", "saving", "final", "exited"}
          /\ queue \in Seq(Workload)
          /\ running \subseteq Workload
          /\ version \in 0..MaxVersion
          /\ draft \in Snapshot
          /\ status \in [Workload -> {"new", "queued", "scheduled", "preempted", "gone"}]
          /\ handler \in [Workload -> Handler]
          /\ snap \in Snapshot
          /\ row \in [Workload -> {"none", "queued", "scheduled", "preempted", "torn"}]
          /\ lossy \in BOOLEAN
          /\ late \subseteq Workload

Init == /\ placeable \in SUBSET Workload
        /\ process = "down"
        /\ pc = "down"
        /\ queue = <<>>
        /\ running = {}
        /\ version = 0
        /\ draft = NoSnapshot
        /\ status = [w \in Workload |-> "new"]
        /\ handler = [w \in Workload |-> "idle"]
        /\ snap = NoSnapshot
        /\ row = [w \in Workload |-> "none"]
        /\ lossy = FALSE
        /\ late = {}

-----------------------------------------------------------------------------
(* main                                                                    *)

(* NewEngine, go engine.Run, and the server: in no order among themselves. *)
Start == /\ process = "down"
         /\ process' = "serving"
         /\ pc' = "starting"
         /\ UNCHANGED <<memory, draft, handler, database, lossy, late>>

(* A signal: Engine.Stop closes stopCh.                                    *)
Stop == /\ process = "serving"
        /\ process' = "stopping"
        /\ UNCHANGED <<pc, memory, draft, handler, database, lossy, late>>

Ended == /\ process' = "down"
         /\ pc' = "down"
         /\ queue' = <<>>
         /\ running' = {}
         /\ version' = 0
         /\ draft' = NoSnapshot
         /\ status' = [w \in Workload |-> IF status[w] = "new" THEN "new" ELSE "gone"]
         /\ handler' = [w \in Workload |-> "idle"]
         /\ lossy' = FALSE
         /\ late' = {}
         /\ UNCHANGED database

(* main returns when the server has shut down, or after 30 s.  It does not *)
(* wait for Run.                                                           *)
Exit == process = "stopping" /\ Ended
Crash == process # "down" /\ Ended

-----------------------------------------------------------------------------
(* The handlers.  The server takes requests until Shutdown, also before    *)
(* LoadSnapshot and after Stop.                                            *)

(* HandleScheduleRequest, under the lock.                                  *)
Submit(w) ==
    /\ process # "down"
    /\ status[w] = "new"
    /\ queue' = Append(queue, w)
    /\ status' = [status EXCEPT ![w] = "queued"]
    /\ handler' = [handler EXCEPT ![w] = "appended"]
    /\ late' = IF pc \in {"final", "exited"} THEN late \cup {w} ELSE late
    /\ UNCHANGED <<runVars, running, version, draft, database, lossy>>

(* persistQueuedWorkload copies wl.Status without the lock, ...            *)
CopyStatus(w) ==
    /\ handler[w] = "appended"
    /\ \/ handler' = [handler EXCEPT ![w] = status[w]]
       \/ status[w] # "queued" /\ handler' = [handler EXCEPT ![w] = "torn"]
    /\ UNCHANGED <<runVars, memory, draft, database, lossy, late>>

(* ... and stores the row, or logs a warning.  The answer is 202.          *)
CreateRow(w) ==
    /\ handler[w] \notin {"idle", "appended"}
    /\ row' \in {row, [row EXCEPT ![w] = handler[w]]}
    /\ handler' = [handler EXCEPT ![w] = "idle"]
    /\ UNCHANGED <<runVars, memory, draft, snap, lossy, late>>

(* HandlePreemptRequest.  The row is not written.                          *)
Preempt(w) ==
    /\ w \in running
    /\ status' = [status EXCEPT ![w] = "preempted"]
    /\ running' = running \ {w}
    /\ UNCHANGED <<runVars, queue, version, draft, handler, database, lossy, late>>

-----------------------------------------------------------------------------
(* Run                                                                     *)

(* The lists without repetition of the members of S.                       *)
Lists(S) == {l \in [1..Cardinality(S) -> S] : \A i, j \in DOMAIN l : l[i] = l[j] => i = j}

(* Mutation: the running workloads are not queued again.                   *)
MutForgetRunning(r) ==
    /\ queue' = IF queue = <<>> THEN snap.queue ELSE queue
    /\ version' = snap.version
    /\ status' = [w \in Workload |-> IF w \in Elements(queue') THEN "queued" ELSE status[w]]

(* Mutation: the version starts over.                                      *)
MutNoVersion(r) ==
    /\ queue' = (IF queue = <<>> THEN snap.queue ELSE queue) \o r
    /\ version' = version
    /\ status' = [w \in Workload |-> IF w \in Elements(queue') THEN "queued" ELSE status[w]]

(* Mutation: the version of the next snapshot is taken for the last one.   *)
MutSkipVersion(r) ==
    /\ queue' = (IF queue = <<>> THEN snap.queue ELSE queue) \o r
    /\ version' = snap.version + 1
    /\ status' = [w \in Workload |-> IF w \in Elements(queue') THEN "queued" ELSE status[w]]

(* LoadSnapshot, under the lock; r is snap.Running in the order in which   *)
(* the map was ranged over.                                                *)
Recover(r) ==
    /\ queue' = (IF queue = <<>> THEN snap.queue ELSE queue) \o r
    /\ version' = snap.version
    /\ status' = [w \in Workload |-> IF w \in Elements(queue') THEN "queued" ELSE status[w]]

LoadSnapshot ==
    /\ pc = "starting"
    /\ pc' = "loop"
    /\ IF snap.version = 0
       THEN UNCHANGED memory
       ELSE \E r \in Lists(snap.running) : Recover(r) /\ UNCHANGED running
    /\ lossy' = (snap.queue # <<>> /\ queue # <<>>)
    /\ UNCHANGED <<process, draft, handler, database, late>>

(* The query fails, whether the store reports it or takes it for an absent *)
(* row: Run starts with what it has.                                       *)
LoadFails == /\ pc = "starting"
             /\ pc' = "loop"
             /\ lossy' = TRUE
             /\ UNCHANGED <<process, memory, draft, handler, database, late>>

(* sortQueueByPriority: queue' before the removal.                         *)
Sorted(q) == \A i, j \in DOMAIN q : i < j => Priority[q[i]] >= Priority[q[j]]

Sortings == {q \in {[i \in DOMAIN queue |-> queue[p[i]]] : p \in Lists(DOMAIN queue)} : Sorted(q)}

(* Mutation: break for continue after a workload that fits nowhere.        *)
MutStopAtFirst(q) == {i \in DOMAIN q : \A j \in 1..i : q[j] \in placeable}

(* tryScheduleAll: the indices it returns.                                 *)
Scheduled(q) == {i \in DOMAIN q : status[q[i]] = "queued" /\ q[i] \in placeable}

(* Mutation: removal in increasing order, so that later indices are stale. *)
MutForwardRemoval(q, S) ==
    LET T == {i + Cardinality({j \in S : j < i}) : i \in S}
    IN {[i \in DOMAIN k |-> q[k[i]]] : k \in
           {l \in Lists(DOMAIN q \ T) : \A i, j \in DOMAIN l : i < j => l[i] < l[j]}}

(* removeScheduled: q without the indices of S.                            *)
Without(q, S) ==
    {[i \in DOMAIN k |-> q[k[i]]] : k \in
        {l \in Lists(DOMAIN q \ S) : \A i, j \in DOMAIN l : i < j => l[i] < l[j]}}

(* Mutation: the decision is stored for all workloads of the queue.        *)
MutPersistAll(W) ==
    \E U \in SUBSET Elements(queue) :
        row' = [w \in Workload |-> IF w \in U /\ row[w] = "queued" THEN "scheduled" ELSE row[w]]

(* persistSchedulingDecision for the workloads of W: the update is         *)
(* conditional on the row's status and may fail.                           *)
PersistDecisions(W) ==
    \E U \in SUBSET W :
        row' = [w \in Workload |-> IF w \in U /\ row[w] = "queued" THEN "scheduled" ELSE row[w]]

SchedulingCycle ==
    /\ pc = "loop"
    /\ \E q \in Sortings :
           LET placed == {q[i] : i \in Scheduled(q)}
           IN /\ queue' \in Without(q, Scheduled(q))
              /\ running' = running \cup placed
              /\ status' = [w \in Workload |-> IF w \in placed THEN "scheduled" ELSE status[w]]
              /\ PersistDecisions(placed)
    /\ UNCHANGED <<runVars, version, draft, handler, snap, lossy, late>>

(* SaveSnapshot up to the unlock.                                          *)
Copy == /\ version < MaxVersion
        /\ queue # <<>> \/ running # {}
        /\ version' = version + 1
        /\ draft' = [version |-> version + 1, queue |-> queue, running |-> running]
        /\ UNCHANGED <<process, queue, running, status, handler, database, lossy, late>>

SaveSnapshot == pc = "loop" /\ pc' = "saving" /\ Copy

FinalSnapshot == pc = "loop" /\ process = "stopping" /\ pc' = "final" /\ Copy

(* Mutation: nothing is saved if nothing is queued.                        *)
MutQueueOnly == queue = <<>>

(* SaveSnapshot has nothing to save: it returns.                           *)
NothingToSave == queue = <<>> /\ running = {}

FinalSkipped == /\ pc = "loop"
                /\ process = "stopping"
                /\ NothingToSave
                /\ pc' = "exited"
                /\ UNCHANGED <<process, memory, draft, handler, database, lossy, late>>

(* SaveSchedulerSnapshot stores the draft, or fails and is logged.         *)
StoreSnapshot == /\ pc \in {"saving", "final"}
                 /\ pc' = IF pc = "saving" THEN "loop" ELSE "exited"
                 /\ snap' = draft
                 /\ UNCHANGED <<process, memory, draft, handler, row, lossy, late>>

StoreFails == /\ pc \in {"saving", "final"}
              /\ pc' = IF pc = "saving" THEN "loop" ELSE "exited"
              /\ UNCHANGED <<process, memory, draft, handler, database, lossy, late>>

Run == \/ LoadSnapshot \/ LoadFails \/ SchedulingCycle
       \/ SaveSnapshot \/ FinalSnapshot \/ FinalSkipped
       \/ StoreSnapshot \/ StoreFails

Step == \/ Start \/ Stop \/ Exit \/ Crash
        \/ Run
        \/ \E w \in Workload : \/ Submit(w) \/ CopyStatus(w) \/ CreateRow(w)
                               \/ Preempt(w)

Next == Step /\ UNCHANGED placeable

Spec == Init /\ [][Next]_vars

-----------------------------------------------------------------------------
(* Properties                                                              *)

NoRepeats(q) == \A i, j \in DOMAIN q : q[i] = q[j] => i = j

(* No workload is lost or doubled inside a process: whatever the handlers, *)
(* the cycles and the recovery do, each workload the process knows is      *)
(* exactly once in the queue, in the running set, or preempted; and the    *)
(* same holds of every snapshot.                                           *)
OnePlace ==
    /\ NoRepeats(queue)
    /\ Elements(queue) = {w \in Workload : status[w] = "queued"}
    /\ running = {w \in Workload : status[w] = "scheduled"}
    /\ \A s \in {snap, draft} : NoRepeats(s.queue) /\ Elements(s.queue) \cap s.running = {}

(* A workload leaves the stored snapshot only because somebody preempted   *)
(* it, over any number of crashes and restarts, unless this process's      *)
(* recovery failed or came after the first request (lossy).                *)
SavedWorkStays ==
    [][\A w \in Work(snap) \ Work(snap)' : status[w] = "preempted" \/ lossy]_vars

(* The version of the stored snapshot rises with every save ("monotonic    *)
(* int64"), over restarts too, unless the recovery failed.                 *)
VersionsRise ==
    [][snap' # snap => snap'.version > snap.version \/ lossy]_vars

(* When Run has returned after it stored its final snapshot, everything    *)
(* that was submitted before is in it: a graceful restart loses nothing    *)
(* but what the server accepted after the copy.                            *)
GracefulStopKeeps ==
    (pc = "exited" /\ draft.version # 0 /\ snap = draft)
        => \A w \in Workload : status[w] \in {"queued", "scheduled"} => w \in Work(snap) \cup late

(* A row says "scheduled" only from a moment on at which the engine has    *)
(* placed the workload: the race between the handler's insert and the      *)
(* cycle's update can leave the row behind, never ahead.                   *)
RowNeverAhead ==
    [][\A w \in Workload : (row'[w] = "scheduled" /\ row[w] # "scheduled")
                               => status'[w] \in {"scheduled", "preempted"}]_vars

(* A cycle places exactly the queued workloads that fit some node: one     *)
(* that fits nowhere does not hold up those behind it, the removal by      *)
(* index takes out what was placed, and the rest stays in the order of     *)
(* priority.                                                               *)
CycleIsExact ==
    [][SchedulingCycle => /\ running' = running \cup (Elements(queue) \cap placeable)
                          /\ Elements(queue') = Elements(queue) \ placeable
                          /\ Sorted(queue')]_vars

(* A workload leaves the queue only by being placed, or with its process.  *)
QueuedUntilPlaced ==
    [][\A w \in Elements(queue) \ Elements(queue') :
           \/ SchedulingCycle /\ w \in placeable \cap running'
           \/ (Exit \/ Crash)]_vars

(* The comment on the snapshot lifecycle: "On graceful shutdown            *)
(* (Stop/ctx.Done), a final snapshot is saved".  So Run returns without    *)
(* storing one only if the stored one is what it leaves.                   *)
FinalSnapshotIsSaved ==
    [][(pc = "loop" /\ pc' = "exited") => Work(snap) = Elements(queue) \cup running]_vars

(* Scheduled goroutines run; select picks among its ready cases at random, *)
(* so a tick of the scheduling ticker is not ignored for ever.             *)
FairSpec == /\ Spec
            /\ WF_vars(LoadSnapshot /\ UNCHANGED placeable)
            /\ WF_vars((StoreSnapshot \/ StoreFails) /\ UNCHANGED placeable)
            /\ SF_vars(SchedulingCycle /\ UNCHANGED placeable)
            /\ WF_vars(Exit /\ UNCHANGED placeable)

(* A workload that fits some node does not stay queued behind others that  *)
(* do not: it is placed, or the process ends.                              *)
EventuallyPlaced ==
    \A w \in Workload : (w \in placeable /\ status[w] = "queued") ~> status[w] # "queued"
=============================================================================
