# TLA+ models of CloudAI Fusion's core logic

CloudAI Fusion is a Go control plane for AI clusters.  Much of the repository
is scoring heuristics, drivers, HTTP handlers and front ends; its core logic is
a set of small concurrent components under `src/pkg` that must stay right when
goroutines interleave, calls fail and processes restart.  The modules here
describe those components, TLC checks them on small instances, and TLAPS proves
their main invariants for every value of the constants.

Every definition is translated from the Go source.  `PROJECT.json` maps each
definition to the lines it stands for, lists the hazards that the properties
are for, and records a mutation of the code that every property catches.

    tlc -workers 2 -config TwoPC.cfg MCTwoPC.tla     # one run
    tlapm ControllerProofs.tla                              # one module of proofs

## 1. Inventory

The state each component keeps, what works on it, and what makes it correct.

### Two-phase commit (`pkg/store/twopc.go`) - modelled
* State: one `Transaction` per id in a map (phase, votes), and in each
  participant the operations it holds and the set of committed transactions.
* Operations: `Execute` (prepare, then commit or abort), a goroutine per
  participant call, `recoverIncomplete` at each tick of the recovery loop.
* Hard: `txn.Phase` and `txn.Votes` are shared without a lock; a `Prepare` call
  outlives `prepareCtx`; a COMMIT that returned an error may have had effect;
  recovery commits or aborts beside `Execute`.
* Correct when: COMMIT needs every vote; no two participants end on different
  sides; success means everyone committed; nothing is held for ever; a
  transaction settles.

### Controller: work queue and manager (`pkg/controller`) - modelled
* State: `WorkQueue` (items, dirty, processing, delayed, backoff, shutdown, one
  condition variable), the workers of each controller, the goroutine of `Start`.
* Operations: `Add`, `AddAfter`, `AddRateLimited`, `Get`, `Done`, `Forget`,
  `ShutDown`, the promotion loop; `runWorker`, `processItem`; cancellation.
* Interactions: workers call the queue; `processItem` asks the elector whether
  this instance leads; `Start` resigns, shuts the queues down and waits.
* Hard: a key added while it is in flight; the promotion loop holds items
  between two critical sections; one `Signal` per item; retries counted in one
  critical section and scheduled in another; shutdown at any point.
* Correct when: no key is reconciled twice at a time, no change and no retry is
  lost, no worker sleeps beside work, every request is reconciled in the end and
  a cancelled manager stops.

### Leader election (`pkg/election`) - partly
* State: lease record (memory, Kubernetes Lease, raft), `isLeader`, callbacks.
* Hard: callbacks run as goroutines of their own; resignation happens before the
  workers have drained; after a lost lease the elector does not campaign again.
* Modelled so far: what one manager sees of it (in `Controller`).
* Correct when: one instance reconciles at a time; some instance leads in the end.

### Write-ahead log (`pkg/store/wal.go`, `wal_segment.go`) - partly modelled
* State: segment files of checksummed entries, an in-memory index of records
  (PENDING, APPLIED, ABORTED), the sequence counter, the fsync state.
* Operations: `Append`, `MarkApplied`, `MarkAborted`, `FlushSync`, `Checkpoint`,
  replay at open, rotation; `WALStore.Write` and `Recover` on top of them.
* Interactions: the API server opens the log and checkpoints it before anything
  recovers; `Write`, `Recover` and checkpoints run in goroutines of their own.
* Hard: a crash at any point, torn tails, numbers given back by a crash, writes
  that fail after they reached the file, segments removed while a record or a
  marker in them is still needed.
* Correct when: numbers are on disk once; a marker settles its own record and
  goes no earlier than it; recovery does all that the start found pending; what
  was fsynced is read again.

### Gang scheduling (`pkg/training/gang.go`, `gang_barrier.go`) - modelled, barrier partly
* State: cluster capacity and `allocated`; for each job its state, its
  reservation, the members admitted and its signed receipts; the map of barriers;
  in a barrier an atomic counter, `released` and `failErr` under a lock, and the
  channel the workers wait on.
* Operations: `Submit`, `Admit`, `Start`, `Succeed`, `Fail`, `GetBarrier`;
  `Arrive`, `Wait`, `Fail`, `SpinUntilAllReady`, the watcher of `WithTimeout`.
* Interactions: a worker holds the barrier pointer it looked up, so it meets its
  peers while the scheduler ends the gang and deletes the barrier.
* Hard: the last arrival counts before it locks, so failures, timeouts and the
  end of the gang come between; the outcome is read after the channel closed;
  admission, failure and completion of several gangs share one ledger.
* Correct when: the ledger is exact and within capacity; a barrier has one
  outcome and success needs everybody; the end of a gang leaves nobody behind;
  the receipts are numbered without a gap.

### Scheduler engine (`pkg/scheduler/engine.go`, `handlers.go`, `cmd/scheduler`) - partly modelled
* State: `queue`, `running`, each workload's status, `snapshotVersion`; in the
  database one snapshot row and one row per workload.
* Operations: `Run` (recovery, scheduling cycle, periodic and final snapshot),
  the handlers that submit and preempt, `main`'s start and shutdown.
* Hard: requests arrive before the recovery and after `Stop`; the snapshot is
  copied under the lock and stored outside it; the row of a workload is inserted
  and updated by two goroutines; `main` does not wait for `Run`; crashes.
* Correct when: a workload is in one place; what was saved leaves the snapshot
  only by preemption; versions rise; a row is never ahead of the engine; what
  fits a node is placed.

### Circuit breaker (`pkg/resilience/circuit.go`) - modelled
* State: closed / open / half open, three counters, the time of the last change.
* Operations: `Execute` (admission, the caller's function, the result), `State`,
  `Reset`.
* Hard: a result arrives in a later state than its request was admitted in;
  `State` and `beforeRequest` are two ways into half open; the slots of a half
  open period are counted and never given back.
* Correct when: each half open period is judged on its own and admits no more
  than its slots; a service that is healthy again gets its circuit back.

### Bulkhead, multi-level breaker (`pkg/resilience`) - not modelled
* `MultiLevelBreaker.Execute`, which the API server uses, asks whether a breaker
  is Open and never takes a slot, so a half open level admits every request.
* The bulkhead is a semaphore with a closed flag that is read before the acquire.

### Tenant pools (`pkg/tenants/api.go`, `fsm.go`) - not modelled
* State: pools and tenants in memory and in a file, life-cycle states.
* Hard: memory changes before a save that may fail; deletion of the members of a
  pool may stop half way.
* Correct when: memory and file agree after an error; a deleted pool has no
  live member.

### Evidence (`pkg/consensus/raft.go`, `pkg/evidence`) - not modelled
* State: queue of records, the flusher goroutine, ledger and checkpoints.
* Hard: the queue drops when it is full; the flusher returns after a Flush.
* Correct when: an accepted record is sealed exactly once, in order.

### The rest - not modelled
Raft itself is the vendored hashicorp/raft.  `dr`, `ha`, `hotswap` and
`workload` are candidates for later modules.  The scheduler beside its engine is
mostly numeric scoring; the reconcilers, the repositories, messaging, cache, API server and
front ends are calls to other systems or layout, with little shared state.
`PROJECT.json` lists each with its reason.

## 2. Plan

| # | Modules | Abstract specification | Runs | Theorems |
|---|---------|------------------------|------|----------|
| 1 | `AtomicCommit`, `TwoPC` | atomic commitment | 3 (done) | types, five safety invariants, implementation; when an abort releases all (done) |
| 2 | `WorkQueue`, `Controller` | `KeyedQueue` | 2 (done) | types, seven safety invariants, implementation (done) |
| 3 | `WAL` | - | 3 (done) | types, three safety invariants, two action properties; when the two findings do not arise (done) |
| 4 | `GangBarrier`, `GangScheduler` | `Rendezvous` | 1 (done) | types, four safety invariants, the trail of receipts, implementation (done) |
| 5 | `SchedulerEngine` | - | 2 (done) | types, two safety invariants, five action properties (done) |
| 6 | `CircuitBreaker` | - | 1 (done) | types, three safety invariants, one action property (done) |
| 7 | `MultiLevelBreaker` on `CircuitBreaker` | - | 1 | - |
| 8 | `TenantPool` | - | 1 | - |
| 9 | `Election`: two managers and a Lease | one leader at a time | 1 | - |
| 10 | `EvidenceQueue` | exactly-once sealing | 1 | - |

Runs share instances where they can: each property is listed by the cheapest
run that reaches its interesting states.  The next additions to what is there: a
`Checkpoint` that fails half way and a rotation that cannot open its segment
(`WAL`), and an abstract log of settled operations that `WAL` implements under
the conditions of `SpecOrderedUntorn`.

## 3. Modules and the code they model

### AtomicCommit, TwoPC
`AtomicCommit` states what the header of `twopc.go` promises: each participant
holds its share of the operations, and when the transaction is decided every
held share is applied or every one dropped.  A share may still arrive after an
abort, never after a commit.

`TwoPC` is the coordinator for one transaction (transactions share nothing but
participants, which keep an entry per id).  `phase` and `votes` are the fields
of `Transaction`; `reply` the answers on their way through the results channel;
`fate` and `committed` the two maps of a participant; `stage` the program
counter of `Execute` (task `Exec`) and of the recovery goroutines; `left` and
`failed` the attempts and the error count inside `commit`.

| Actions | Code |
|---|---|
| `BeginPrepare`, `Prepare*`, `CollectVote` | `prepare`: send, answers, receive |
| `PrepareSucceeds`, `PrepareFails` | its returns, the deadline included |
| `BeginCommit`, `CommitReturns`, `CommitAttemptFails`, `EndCommit` | `commit` with its retries and `wg.Wait` |
| `BeginAbort`, `AbortAttempt`, `EndAbort` | `abort` |
| `RecoverCommit`, `RecoverAbort` | the cases of `recoverIncomplete` |

A participant is the `MemoryParticipant` of the file, behind calls that may
return an error before or after they had effect.  A `Prepare` call may return a
vote beside its error: `PrepareError` keeps of it what `abort` looks at.  A recovery task that ends may
start again, so the constant `Recoverer` bounds how many run at a time.

### KeyedQueue, WorkQueue, Controller
`KeyedQueue` is what the queue promises its users, without lists, locks, timers
and workers: a requested key stays wanted until an execution of it begins,
executions of one key never overlap, and only a closed queue drops a key.
`Controller` maps to it by `Wanted`: the keys that are dirty, delayed, or between
the two halves of a promotion; `processing` is the set of keys being executed.

`WorkQueue` has one operator per critical section under `q.mu`.  `Controller`
EXTENDS it with the callers: `pc[w]` and `job[w]` for each worker in
`runWorker`/`processItem`, `main` for `Start` from the cancellation to its
return, `lease` for the elector, and the history variable `owed`: keys that
changed, or asked for a retry, since their last reconciliation started.

| Actions | Code |
|---|---|
| `Enqueue`, `EnqueueAfter` | `Manager.Enqueue*`, the resync loop |
| `Promote` | the two critical sections of `promoteDelayedLoop` |
| `Wait`, `Exit`, `Take` | `Get`: what its loop finds when it has the lock |
| `StartReconcile`, `SkipNotLeader` | the leader check of `processItem` |
| `ReconcileFails`, `ReconcileSucceeds` | the call and `AddRateLimited`'s count or `Forget` |
| `RequeueAfter`, `Requeue`, `Finish` | the rest of `processItem`, the deferred `Done` |
| `AcquireLease`, `LoseLease` | the elector's goroutine |
| `Cancel`, `Resign`, `ShutDownQueue`, `Stopped` | `Start` after `ctx.Done()` |

Abstractions: a request is its key; time is left open (a delayed item is due at
some tick); backoff is the set of keys with an entry; metrics are left out.

### WAL
`log` is the set of entries in the segment files.  An entry is a record with its
number, its kind (DATA, COMMIT, ABORT), the number it settles, its segment, and
the operation it stands for: the payload of a DATA entry, a history field in a
marker (`MarkersMatch` compares the two).  Numbers order the entries, as a number
is taken and its entry written under `w.mu`.  `index` stands for `w.records` and
`w.seqIndex`; `call` and `slot` for the local state of each `WALStore.Write`;
`todo` and `rec` for that of `Recover`; `owed` is a history variable: the
operations the last start found pending on disk, not applied or refused since.

| Actions | Code |
|---|---|
| `AppendRecord`, `AppendFails` | `Append` down to the fsync; its error return |
| `ApplyWrite` | `GetRecord` and `apply` in `Write` |
| `MarkApplied`, `MarkAborted` | `markLocked` for `Write`: marker on disk, then the index |
| `RecoverPending`, `RecoverApply`, `RecoverMark`, `RecoverEnds` | `Recover`: the copy, then each record |
| `FlushSync` | the explicit fsync |
| `Checkpoint` | compaction of the index, bound, removal of segments |
| `Restart` | a crash (or `Close`), `NewWAL`, replay |

`Persist` and `PersistFails` stand for `DiskWAL.Append`: a rotation or none (sizes
are left open), the write, the fsync of the sync mode.  A failing append may have
written its entry.  `Restart` chooses the cut between what is fsynced and what is
written, and whether the entry at the cut is torn; `Replay` builds the index as
`replayFromDisk` does.  `NewDiskWAL` appends to the last segment as it is, so
behind a torn entry `readAllEntries` finds no further header: such entries are
`blind`.  Timestamps rise with the numbers, so a cutoff is a number.  What a
restart read counts as on disk; `Recover` runs at most once after each start.

### Rendezvous, GangBarrier, GangScheduler
`Rendezvous` is what the comments of `gang_barrier.go` promise of one barrier:
workers come, once the outcome becomes "ok", for which everybody must have come,
or "failed", and every answer is that outcome.  `GangBarrier` is the
code, with `arrived` (the atomic counter), `released` and `failed` (the fields
under `mu`), and `at[g][w]`, where worker `w` stands.  `GangScheduler` EXTENDS it
with the methods of the scheduler, each one step as it holds `s.mu` throughout.
A worker's pointer is the barrier itself, so nothing ends when its map entry does.

| Actions | Code |
|---|---|
| `Submit`, `Admit`, `Start`, `Succeed`, `Fail` | the methods, with `transitionLocked` (`Moves`) and `releaseLocked` (`DropBarrier`, `Refund`) |
| `GetBarrier` | the lookup, under `s.mu` |
| `Arrive`, `ReleaseAll` | `Arrive`: the atomic increment; the critical section of the last arrival |
| `Receive`, `ReadOutcome` | `Wait`: the receive from the closed channel; `failErr` under the lock |
| `Spin`, `SpinSees`, `SpinMisses`, `SpinExpires` | `SpinUntilAllReady`: poll, then the clock |
| `WorkerFails`, `WatcherFires` | `Fail` from a worker, from the timeout goroutine |

Abstractions: a worker arrives once (`Arrive` does not look at the worker's id,
and a second call would be counted); signatures and reasons are left out; the
timer of the watcher may fire at any time, also after `CancelTimeout` lost its
race.  An elastic gang's barrier expects all replicas, as `Start` does.  An
expired spin answers `timeout` even when the barrier was released meanwhile: that
answer is not among those `OneOutcome` and `Rendezvous` compare.

### SchedulerEngine
`queue`, `running`, `version` are the fields of `Engine`; `status[w]` the field of
the workload object that queue and running set share; `draft` the snapshot that
`SaveSnapshot` copied and has not stored; `snap` and `row` the database; `pc` and
`process` say where `Run` and `main` stand.  `lossy` and `late` are history: the
recovery failed or found requests in the queue; submitted after the final copy.

| Actions | Code |
|---|---|
| `Start`, `Stop`, `Exit`, `Crash` | `main` of cmd/scheduler; a process that dies |
| `Submit`; `CopyStatus`, `CreateRow` | the submit handler under the lock; its insert of the row after it |
| `Preempt` | the preempt handler |
| `LoadSnapshot`, `LoadFails` | recovery at the start of `Run` |
| `SchedulingCycle` | sort, `tryScheduleAll`, `removeScheduled`, the conditional row updates |
| `SaveSnapshot`, `FinalSnapshot`, `FinalSkipped` | `SaveSnapshot` under the lock: ticker, stop, nothing to save |
| `StoreSnapshot`, `StoreFails` | its write to the database |

Nothing is debited from a node when a workload is placed, so which workloads fit
is a set that the initial state chooses (`placeable`).  `sort.Slice` is not
stable: workloads of one priority come in any order.  A workload has one object
per submission; after a restart its status is "gone" until a snapshot brings it
back.  The unlocked copy of `wl.Status` may be torn.

### CircuitBreaker
The three counters are those of the code, `expired` the comparison of the clock
with `Timeout`, `inside` the callers between `beforeRequest` and `afterRequest`.
`probes` and `granted` are history: who was admitted in this half open period and
how many.  `onSuccess` and `onFailure` have one action per state (`Success*`,
`Failure*`, `ResultOpen`), `beforeRequest` likewise (`Admit*`).  A caller whose
function panics never reports, and is left out.

## 4. Runs

| Run | Question | Result |
|---|---|---|
| `twopc` | 3 participants, 1 recovery task: does COMMIT need every vote, does nobody diverge until recovery presumes an abort, is success total; does the coordinator implement `AtomicCommit` until then; does a transaction settle? | holds |
| `twopc_presumed` | does the header's all-or-nothing survive a recovery tick while votes are collected? | violated |
| `twopc_orphan` | does an abort release what every participant holds? | violated |
| `controller` | 2 keys, 2 workers, elector, promotion loop, shutdown: five invariants; does the queue implement `KeyedQueue`; are requests reconciled while the lease is held, and does a cancelled manager stop? | holds |
| `controller_lease` | are requests reconciled on an instance that lost its lease and keeps running? | violated |
| `wal_safety` | 2 operations, batch mode, crashes at every step: numbers, markers, recovery | holds |
| `wal_torn` | can every fsynced entry be read? | violated |
| `wal_prune` | is every pending record on disk? | violated |
| `gang` | 2 gangs, strict or elastic, that do not fit together, 2 workers: ledger, resources, one outcome; is a barrier a `Rendezvous`; does everybody leave? | holds |
| `engine` | 2 workloads, failing stores, stops, crashes, restarts: one place, saved work stays, versions rise, rows never ahead; is what fits placed? | holds |
| `engine_final` | does a graceful stop store what the process has? | violated |
| `breaker` | 4 callers with late results: fresh counters, limited probes; does a healthy service get its circuit back, and does a broken one trip it for good? | holds |

The violated properties are claims of the repository's own comments:

* **A tick of recovery aborts a healthy transaction.**  `recoverIncomplete`
  aborts every transaction in phase Preparing, also one whose `Execute` is
  still collecting votes.  The recovery task aborts one participant, `Execute`
  commits the other.
* **A late PREPARE is never released.**  `abort` sends ABORT to the votes in
  `txn.Votes` that are Yes or No.  A participant that answered after
  `prepareCtx`, or with an error and no vote, holds its operations for ever.
* **A lost lease is not campaigned for again.**  `processItem` puts the
  requests of a non-leader back "until we become leader"; the elector's `Run`
  has returned, so they circulate for as long as the process runs.
* **What is fsynced behind a torn entry is lost.**  A start after a torn write
  appends to the same segment without cutting the torn entry off.  The next
  start stops reading at it: acknowledged writes are gone, in mode immediate too.
* **A checkpoint removes a pending record.**  Its bound is the highest applied
  number, and a lower one may be pending: a slow `apply`, or a marker that could
  not be written.  Its segment is removed and a crash forgets the record.  With
  the default retention the applied record must be an hour old.
* **A preempted workload comes back.**  `SaveSnapshot` writes nothing when
  queue and running set are empty, also at a graceful stop.  The last stored
  snapshot stays, and the next start queues what it holds: work that was
  preempted since.

Three more properties hold only with a premise that the code does not always meet,
which their text names.  `SavedWorkStays` and `VersionsRise` except the process
whose recovery failed or came after the first request (`lossy`): there the
recovered queue is dropped, against engine.go:732 "workloads already submitted
are not lost".  `NeverStuck` and `Recovers` speak of breakers with a slot for
each success they need; the defaults (2 successes, 1 slot) leave a breaker half
open for ever.

### Bounds
* `Participant`: three participants allow one to be applied, one dropped and one
  undecided at a time; the properties compare two.
* `Recoverer`: one task beside `Execute`; it restarts without limit, so every
  number of ticks one after the other is covered.  Two at a time multiply the
  states and add only another deliverer of the same calls.  The proofs hold for
  any number.
* `MaxRetries = 2`: a first attempt and a retry, so "failed, then succeeded" and
  "failed for good" both occur.
* `MaxTokens = 2` bounds the entries that callers add for one key before the queue
  consumed the others; retries of workers are not bounded by it, so a key may be
  dirty, in flight and delayed at once.  The violation needs only one entry.
* `MaxSeq = 4` numbers and `MaxSeg = 3` segments: one operation with its marker in
  an old segment, another in a later one, and a third segment to append to; a
  crash gives numbers back, so longer histories occur within the bound.
  `batch` may fsync at each write or at none, so its run includes what
  `immediate` and `none` do.  The violation runs use `immediate`, the safest.
* Gangs: capacity 3 with specs of which two fit or exclude each other, so the second
  is admitted only after the first was refunded exactly; one gang has two
  workers, the least with a last arrival and a peer.  The other has none: its
  barrier fails and times out on its own.
* `MaxVersion = 2` snapshots in a history, two workloads of different priority:
  one saved state replaces another, over any number of crashes.
* Four callers and thresholds of 2: two callers admitted while Closed report
  into a half open period whose two slots are taken.
* Two keys and two workers give the deduplication, the wake-up and the
  two-at-a-time cases; the proofs cover the rest.

`CHECK_DEADLOCK FALSE` is set where a run of the system ends: a settled
transaction without recovery, a stopped manager, a log whose bounds are used up,
gangs that ended.

### Fairness
* Coordinator: `prepareCtx` expires and participants' calls return (weak
  fairness of collecting and of each task's steps); the recovery loop is a
  ticker (weak fairness of `RecoverCommit`).  Nothing makes a COMMIT call
  succeed: `Settles` assumes that calls fail only finitely often.
* WAL: no liveness is stated; the log makes no promise of progress of its own.
* Controller: goroutines run and `Reconcile` returns (weak fairness per
  worker); the promotion loop ticks, and an item whose time has come is taken
  (strong fairness: the ticks that find it not due disable nothing for good);
  a campaigning instance gets the lease in the end while the manager runs.
  Cancellation and loss of the lease need not happen.
* Gangs: a goroutine that can go on does (weak fairness of a worker's steps after
  its arrival; a spin ends when it sees the release or its deadline).  Nobody has
  to arrive, and no timer has to fire.
* Engine: `Run` goes on, a stop ends the process, and `select` picks among ready
  cases at random, so the scheduling ticker is not passed over for ever (strong
  fairness of `SchedulingCycle`).  Stores may fail for ever.
* Breaker: time passes and the callers' functions return.  That requests keep
  coming, and that failures stop (`Recovers`) or successes and `Reset` do
  (`Trips`), are premises of the two properties, not of the system.

## 5. Proofs

`TwoPCProofs`, `ControllerProofs`, `WALProofs`, `GangProofs`,
`SchedulerEngineProofs` and `CircuitBreakerProofs` prove the safety properties of
the passing runs for any participants, recovery tasks, retries, keys, workers,
operations, sync modes, gangs, specs, workloads, callers, thresholds and bounds.

* **TwoPC** assumes `MaxRetries` positive and `Exec` not a recovery task.  The
  inductive invariant adds to the safety properties what ties the shared
  variables together: where `Execute` stands determines which votes are in;
  a task that commits does so only after a decision; who is in `failed` or still
  has calls `left` accounts for every Yes voter not yet committed; and a
  participant drops its share only on the abort's side while no abort was
  presumed.  `CommitNeedsEveryYes` alone is not inductive: a recovery task reads
  the phase, and only the invariant says what a phase implies of the votes.
  `Implements` proves that each step of the coordinator without presumed aborts
  is a step of `AtomicCommit` or a stutter, `ImplementsUnless` the same of every
  behaviour in which no abort is ever presumed; `AbstractIsAtomic` that
  `AtomicCommit` is all or nothing.
  About the races on `txn.Phase`: `NoOrphanPhase` (inductive with the types) says
  that a phase that is not final always has a task that will change it, or a failed
  COMMIT that the next tick repeats; `PhaseIsTrue` that the final ones, which
  recovery takes for settled, say what happened to the participants.
  `AbortReleasesIfNoneLeft` says when the finding of `twopc_orphan` does not
  arise: every answer was in when the abort began, no error without a vote hid a share
  that was taken, no call of Abort was without effect, and no abort was presumed
  (`LeavesShare` names the steps, `SpecNoneLeft` excludes them).  With any of the
  first three conditions left out TLC finds a share that stays.  Its invariant
  (`AnswerInv`, `ReleaseInv`) says that a collected vote is the participant's
  answer and that a holder has its call of Abort still to come.
* **Controller** assumes that the set of workers is finite (the wake-up
  property counts them) and that `NoKey` is no key.  The invariant adds
  `JobInv` (the keys in flight are exactly the workers' jobs, without
  repetition) and `SleepInv` (only a worker in `Get` sleeps).  `QueueIsDirty` is
  carried by two lemmas on lists without repetition (`AppendLists`,
  `TailLists`), `NoLostWakeup` by counting the awake workers before and after
  each step.  `ImplementsKeyedQueueCorrect` maps each step to one of
  `KeyedQueue`: `Get` begins an execution, `Done` ends it, an `Add` of a key in
  flight is a request that outlives it.  `NoStall` puts `NothingLost`,
  `QueueIsDirty` and `NoLostWakeup` together: an owed key is due at a tick, with a
  worker, or queued with a worker awake.  `StopsDrained` says that a stopped
  manager left nothing in the queue, though a worker's `Done` may queue a key after
  others have exited; its invariant is that a closed queue with items has a worker
  that has not left.
* **WAL** assumes that the sync mode is one of the three and that the bounds are
  numbers.  The invariant is in four parts.  `DiskInv`: numbers rise along the
  segments and a marker has a higher number than what it settles.  `OwnerInv`:
  whoever may still write a marker for a number (a `Write`, or `Recover` with its
  copy) means the operation whose record has that number, in the index and on
  disk.  `MarkersMatch` needs it, since a crash gives numbers back while markers
  stay.  `CallInv`: an operation that left a trace is not written again.
  `OwedInv`: what is owed is pending in the index until `Recover` begins, then
  among the records it has not come to; no `Write` marks it, as its call
  returned.  Each part has a lemma for every step (`TypeDiskStep`, `MatchStep`,
  `OwedStep`).  `MarkerGoesLast` follows from `DiskInv`: a checkpoint keeps whole
  segments, and the marker lies in the record's segment or a later one.
  The two findings about the log are delimited by theorems.  `Overtakes` is the
  checkpoint that compacts an applied record past a pending one;
  `OnlyOvertakingForgets`: nothing else takes a pending record's DATA entry, in
  every sync mode.  So `PendingIsLogged` holds where no checkpoint overtakes
  (`SpecOrdered`), and where no crash leaves a torn entry either
  (`SpecOrderedUntorn`) the log is a write-ahead log in mode immediate:
  `WriteAhead`, a write let into the store is readable on disk until it has an
  outcome, and `CrashKeepsWrites`, every restart finds it.
* **Gangs** assumes finite sets of gangs, workers and dimensions, natural
  capacities and valid specs.  `GangInv` adds to the invariants of the run what a
  barrier's numbers say of its workers: `arrived` counts those past their
  increment, whoever is at "last" has completed the count, and who has an answer
  saw the release.  That a barrier fails once and never after its release makes the
  outcome stable, which `Rendezvous` needs of every step.  The ledger is a cardinality
  (`Held`), so admission and refund are lemmas on finite sets; that a gang has at most
  four receipts comes from an invariant on its state (`LengthInv`).
  `NobodyIsStranded`: a worker waits at a complete barrier, or at one of a gang
  that ended, only until somebody who is on the way has closed the channel; it
  takes who is in the barrier's count (`CrewInv`, `FullInv`) for every crew.
* **SchedulerEngine** assumes that the workloads are finitely many and priorities
  are numbers.  `EngineInv` says, beside `OnePlace`, what the draft and the stored
  snapshot have to do with memory at each place of `Run`: between copy and
  store only the handlers have moved on, so what the draft lacks was
  submitted later (`late`) and what it has too much was preempted.  `CyclesAreExact`: a
  cycle places the queued workloads that fit, all of them, and the removal by
  index takes out just these; `StaysQueued`: nothing else empties the queue but
  the end of the process.
* **CircuitBreaker** assumes positive thresholds and finitely many callers.  The
  invariant for `NeverStuck` (`SlotInv`) counts: every slot taken belongs to a
  probe still inside or to a success already counted, so with a slot for each
  success a free one is left.  `StuckUntilReset` shows that the premise is
  needed: out of slots and with nobody inside, a half open breaker rejects
  everybody until `Reset`, and with the defaults one successful probe leads there.

`NoStall`, `StopsDrained`, `NobodyStranded`, `CycleIsExact`, `QueuedUntilPlaced`,
`NoOrphanPhase`, `PhaseIsTrue`, `StuckUntilReset`, `ReceiptsAreComplete`, and the
definitions about the log and the abort named above, are stated in the
components' modules and proved; TLC agreed on the runs' instances before.  The
first six are the safety halves of liveness properties: somebody can always take
the next step, and fairness, which stays with TLC, says that he does.

Only model-checked: the liveness properties (`Settles`, `EventuallyReconciled`,
`EventuallyStops`, `TerminatedFreesWorkers`, `FullGangLeaves`, `EventuallyPlaced`,
`Recovers`, `Trips`), as the prover has no ENABLED, and what the violation runs show.
Operators here that need recursion would be written as recursive functions; none
is needed so far.

## 6. What is not modelled

In modelled components: `GetTransaction`, `Stats`, event recorder, metrics,
logging; `Register` and `Status` of the manager; several controllers in one
manager (they share nothing but the elector); Go's abort of the process on a
concurrent map access in `twopc.go`; a crash of the coordinator, which keeps
nothing on disk although its header speaks of a WAL; in the log, a rotation that
closed its segment and cannot open the next (the next write panics), a checkpoint
that fails between two removals, a power failure after a process crash and before
the page cache was written, lost directory entries, `AppendTxn` and
`AppendWithOldData` (the same append, outside `Write`).  `WALStore` has no caller
in the repository besides tests; the API server opens the log and checkpoints it.
In the gang scheduler: a failing signature (it cannot fail on a receipt), the
bitmask barrier (benchmarks only), the close of `doneCh` in `WaitWithContext`,
which panics with a second waiter, duplicate arrivals of a worker.  In the engine: scores
and the chosen node, node data, evidence, the adaptive interval; overcommitment of a
node is not stated, as the engine keeps no capacity that a bound could refer to.
In the breaker: a panic inside `Execute`, which keeps its slot, and callbacks.

Tenant pools, two-instance election, the evidence queue, bulkhead and multi-level
breaker are in the plan and not begun: each is separate from what is here and
would be a module and a run of its own.  The other components (section 1) are
numeric scoring, drivers and wiring, with little state that could be interleaved.
