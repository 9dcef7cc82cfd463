---------------------------------- MODULE WAL ----------------------------------
(***************************************************************************)
(* The write-ahead log: pkg/store/wal_segment.go (DiskWAL, the segment     *)
(* files) and pkg/store/wal.go (WAL, the index in memory; WALStore, the    *)
(* users of the log).  WALStore.Write runs once for each operation in Op,  *)
(* each in its goroutine; Recover, Checkpoint and crashes may come at any  *)
(* time.                                                                   *)
(*                                                                         *)
(* The files hold a set of entries; their order is that of the sequence    *)
(* numbers, as the number is taken and the entry written under w.mu.  A    *)
(* crash loses the end of what was not fsynced and may leave a torn entry. *)
(* The reader stops there, so what is appended behind it in that segment   *)
(* is blind: written, fsynced perhaps, and never read.  Segment sizes are  *)
(* left open: any write to a segment with something in it may rotate.      *)
(* What a restart reads counts as being on disk.                           *)
(***************************************************************************)
EXTENDS Naturals, FiniteSets

CONSTANTS Op,        \* operations that callers write
          SyncMode,  \* config.SyncMode
          MaxSeq,    \* bound on sequence numbers
          MaxSeg     \* bound on segment numbers

ASSUME SyncModeIsKnown == SyncMode \in {"immediate", "batch", "none"}
ASSUME BoundsAreNat == MaxSeq \in Nat /\ MaxSeg \in Nat

VARIABLES log,        \* the entries in the segment files
          cur,        \* number of the current segment
          torn,       \* the current segment has a torn entry
          durable,    \* entries up to this number are fsynced
          sequence,   \* w.sequence
          index,      \* w.records and w.seqIndex
          call,       \* call[o]: where Write of operation o stands
          slot,       \* slot[o]: the sequence number that Write got
          todo,       \* what Recover has still to do of RecoverPending's records
          rec,        \* where Recover stands
          recovered,  \* Recover ran to its end since the last start
          owed        \* history: operations that the last start found pending
                      \* on disk, neither applied nor refused since

diskVars == <<log, cur, torn, durable, sequence>>
callVars == <<call, slot>>
recVars  == <<todo, rec, recovered>>
vars == <<diskVars, index, callVars, recVars, owed>>

Kind  == {"data", "commit", "abort"}
Entry == [seq : Nat, kind : Kind, of : Nat, op : Op, seg : Nat, blind : BOOLEAN]
State == {"pending", "applied", "aborted"}
Record == [op : Op, state : State]
Call  == {"new", "logged", "applied", "refused", "returned"}

TypeOK == /\ log \subseteq Entry
          /\ cur \in Nat \ {0}
          /\ torn \in BOOLEAN
          /\ sequence \in Nat
          /\ durable \in 0..sequence
          /\ DOMAIN index \subseteq 1..sequence
          /\ \A s \in DOMAIN index : index[s] \in Record
          /\ call \in [Op -> Call]
          /\ slot \in [Op -> Nat]
          /\ todo \subseteq Nat \X Op
          /\ rec \in {"idle", "next", "commit", "abort"}
          /\ recovered \in BOOLEAN
          /\ owed \subseteq Op

Init == /\ log = {}
        /\ cur = 1
        /\ torn = FALSE
        /\ durable = 0
        /\ sequence = 0
        /\ index = [s \in {} |-> [op |-> {}, state |-> "pending"]]
        /\ call = [o \in Op |-> "new"]
        /\ slot = [o \in Op |-> 0]
        /\ todo = {}
        /\ rec = "idle"
        /\ recovered = FALSE
        /\ owed = {}

-----------------------------------------------------------------------------
(* DiskWAL.Append, under w.mu: take a number, rotate or not, write, sync.  *)

Started == torn \/ \E e \in log : e.seg = cur

(* maybeSyncLocked: which numbers may be fsynced after the write of n.     *)
Synced(n, before) == CASE SyncMode = "immediate" -> {n}
                       [] SyncMode = "batch"     -> {before, n}
                       [] SyncMode = "none"      -> {before}

(* A rotation fsyncs the segment that it closes.                           *)
Rotate(b) == /\ b => Started /\ cur < MaxSeg
             /\ cur' = IF b THEN cur + 1 ELSE cur
             /\ torn' = (torn /\ ~ b)
Flushed(b) == IF b THEN sequence ELSE durable

TakeNumber == sequence < MaxSeq /\ sequence' = sequence + 1

WriteEntry(kind, of, op) ==
    log' = log \cup {[seq |-> sequence + 1, kind |-> kind, of |-> of, op |-> op,
                      seg |-> cur', blind |-> torn']}

Persist(kind, of, op) ==
    /\ TakeNumber
    /\ \E b \in BOOLEAN : /\ Rotate(b)
                          /\ WriteEntry(kind, of, op)
                          /\ durable' \in Synced(sequence + 1, Flushed(b))

(* The call returns an error: the rotation, the write or the fsync failed. *)
PersistFails(kind, of, op) ==
    /\ TakeNumber
    /\ \E b \in BOOLEAN : /\ Rotate(b)
                          /\ WriteEntry(kind, of, op) \/ UNCHANGED log
                          /\ durable' = Flushed(b)

FlushSync == /\ durable' = sequence
             /\ UNCHANGED <<log, cur, torn, sequence, index, callVars, recVars, owed>>

-----------------------------------------------------------------------------
(* WALStore.Write                                                          *)

Goto(o, l) == call' = [call EXCEPT ![o] = l]

AppendRecord(o) ==
    /\ call[o] = "new"
    /\ Persist("data", sequence + 1, o)
    /\ index' = [s \in DOMAIN index \cup {sequence'} |->
                   IF s = sequence' THEN [op |-> o, state |-> "pending"] ELSE index[s]]
    /\ slot' = [slot EXCEPT ![o] = sequence']
    /\ Goto(o, "logged")
    /\ UNCHANGED <<recVars, owed>>

AppendFails(o) ==
    /\ call[o] = "new"
    /\ PersistFails("data", sequence + 1, o)
    /\ Goto(o, "returned")
    /\ UNCHANGED <<index, slot, recVars, owed>>

(* apply returns; it is skipped where a checkpoint has dropped the record. *)
ApplyWrite(o) ==
    /\ call[o] = "logged"
    /\ \/ Goto(o, "applied")
       \/ slot[o] \in DOMAIN index /\ Goto(o, "refused")
    /\ UNCHANGED <<diskVars, index, slot, recVars, owed>>

(* markLocked: a marker on disk, then the state in the index; it fails if  *)
(* the index has no such record or the disk returns an error.              *)
Outcome(kind) == IF kind = "commit" THEN "applied" ELSE "aborted"

MarkSucceeds(s, kind, o) == /\ s \in DOMAIN index
                            /\ Persist(kind, s, o)
                            /\ index' = [index EXCEPT ![s].state = Outcome(kind)]

MarkFails(s, kind, o) == /\ \/ s \notin DOMAIN index /\ UNCHANGED diskVars
                            \/ s \in DOMAIN index /\ PersistFails(kind, s, o)
                         /\ UNCHANGED index

Mark(s, kind, o) == MarkSucceeds(s, kind, o) \/ MarkFails(s, kind, o)

MarkApplied(o) ==
    /\ call[o] = "applied"
    /\ Mark(slot[o], "commit", o)
    /\ Goto(o, "returned")
    /\ UNCHANGED <<slot, recVars, owed>>

(* The error of MarkAborted is ignored.                                    *)
MarkAborted(o) ==
    /\ call[o] = "refused"
    /\ Mark(slot[o], "abort", o)
    /\ Goto(o, "returned")
    /\ UNCHANGED <<slot, recVars, owed>>

-----------------------------------------------------------------------------
(* WALStore.Recover, which runs at most once after each start.             *)

Pending(idx) == {s \in DOMAIN idx : idx[s].state = "pending"}

RecoverPending ==
    /\ rec = "idle" /\ ~ recovered
    /\ rec' = "next"
    /\ todo' = {<<s, index[s].op>> : s \in Pending(index)}
    /\ UNCHANGED <<diskVars, index, callVars, recovered, owed>>

(* The records are taken in the order of the index.                        *)
IsNext(r) == r \in todo /\ \A q \in todo : r[1] <= q[1]

RecoverApply(r) ==
    /\ rec = "next"
    /\ IsNext(r)
    /\ rec' \in {"commit", "abort"}
    /\ owed' = owed \ {r[2]}
    /\ UNCHANGED <<diskVars, index, callVars, todo, recovered>>

(* The errors of MarkApplied and MarkAborted are ignored.                  *)
RecoverMark(r) ==
    /\ rec \in {"commit", "abort"}
    /\ IsNext(r)
    /\ Mark(r[1], rec, r[2])
    /\ rec' = "next"
    /\ todo' = todo \ {r}
    /\ UNCHANGED <<callVars, recovered, owed>>

RecoverEnds ==
    /\ rec = "next"
    /\ todo = {}
    /\ rec' = "idle"
    /\ recovered' = TRUE
    /\ UNCHANGED <<diskVars, index, callVars, todo, owed>>

-----------------------------------------------------------------------------
(* Checkpoint                                                              *)

(* Mutation: records that are pending are compacted too.                   *)
MutCompactPending(cutoff) == {s \in DOMAIN index : s <= cutoff}

(* Terminal records with a timestamp before the cutoff.                    *)
Compacted(cutoff) ==
    {s \in DOMAIN index : s <= cutoff /\ index[s].state # "pending"}

(* Mutation: the highest number of a segment leaves out its markers.       *)
MutMarkersUncounted(bound) ==
    {e \in log : \/ e.seg = cur
                 \/ \E f \in log : f.seg = e.seg /\ f.kind = "data" /\ f.seq > bound}

(* DiskWAL.Checkpoint keeps the current segment and those with an entry    *)
(* above the bound.                                                        *)
Unpruned(bound) ==
    {e \in log : e.seg = cur \/ \E f \in log : f.seg = e.seg /\ f.seq > bound}

Checkpoint(cutoff) ==
    LET old == Compacted(cutoff)
    IN /\ old # {}
       /\ index' = [s \in DOMAIN index \ old |-> index[s]]
       /\ \E appliedUpTo \in {0} \cup {s \in old : index[s].state = "applied"} :
              /\ \A s \in old : index[s].state = "applied" => s <= appliedUpTo
              /\ log' = Unpruned(appliedUpTo)
       /\ UNCHANGED <<cur, torn, durable, sequence, callVars, recVars, owed>>

-----------------------------------------------------------------------------
(* A crash, or Close, and then NewWAL.                                     *)

(* replayFromDisk: the state of record s after the entries in es.          *)
Markers(es, s) == {m \in es : m.kind # "data" /\ m.of = s}
StateOf(es, s) ==
    IF Markers(es, s) = {} THEN "pending"
    ELSE IF \E m \in Markers(es, s) :
                m.kind = "commit" /\ \A n \in Markers(es, s) : n.seq <= m.seq
         THEN "applied" ELSE "aborted"

Replay(es) ==
    [s \in {e.seq : e \in {d \in es : d.kind = "data"}} |->
        [op |-> (CHOOSE d \in es : d.kind = "data" /\ d.seq = s).op,
         state |-> StateOf(es, s)]]

(* Mutation: the sequence is not restored.                                 *)
MutStartOver(es) == {0}

(* Mutation: the sequence goes on from the number of records.              *)
MutCountRecords(es) == {Cardinality({e \in es : e.kind = "data"})}

(* Mutation: only the numbers of DATA entries are looked at.               *)
MutDataOnly(es) ==
    {n \in {0} \cup {e.seq : e \in es} :
        \A e \in es : e.kind = "data" => e.seq <= n}

(* The sequence goes on from the highest number that was read.             *)
LastSequence(es) == {n \in {0} \cup {e.seq : e \in es} : \A e \in es : e.seq <= n}

(* Some call is, or may be, writing an entry.                              *)
Writing == \/ \E o \in Op : call[o] \in {"new", "applied", "refused"}
           \/ rec \in {"commit", "abort"}

(* readAllEntries might find its way again where the length of a torn      *)
(* entry ends on the boundary of a later one; that chance is left out.     *)
Restart(cut, tear) ==
    LET kept == {e \in log : e.seq <= cut /\ ~ e.blind}
    IN /\ tear => Writing \/ \E e \in log : e.seq > cut
       /\ log' = kept
       /\ torn' = (torn \/ tear)
       /\ sequence' \in LastSequence(kept)
       /\ durable' = sequence'
       /\ index' = Replay(kept)
       /\ call' = [o \in Op |-> IF call[o] \in {"logged", "applied", "refused"}
                                THEN "returned" ELSE call[o]]
       /\ slot' = [o \in Op |-> 0]
       /\ todo' = {}
       /\ rec' = "idle"
       /\ recovered' = FALSE
       /\ owed' = {index'[s].op : s \in Pending(index')}
       /\ UNCHANGED cur

-----------------------------------------------------------------------------
WriteStep(o) == \/ AppendRecord(o) \/ AppendFails(o) \/ ApplyWrite(o)
                \/ MarkApplied(o) \/ MarkAborted(o)

RecoverStep == \/ RecoverPending \/ RecoverEnds
               \/ \E r \in todo : RecoverApply(r) \/ RecoverMark(r)

Next == \/ \E o \in Op : WriteStep(o)
        \/ RecoverStep
        \/ FlushSync
        \/ \E cutoff \in 1..sequence : Checkpoint(cutoff)
        \/ \E cut \in durable..sequence, tear \in BOOLEAN : Restart(cut, tear)

Spec == Init /\ [][Next]_vars

-----------------------------------------------------------------------------
(* Properties                                                              *)

(* Numbers that a crash gave back are never in the files twice: one entry  *)
(* per number, and later segments hold the higher numbers.  Replay and     *)
(* checkpoint rely on it.                                                  *)
SequencesRise ==
    \A e, f \in log : /\ e.seq = f.seq => e = f
                      /\ e.seq < f.seq => e.seg <= f.seg
                      /\ e.seq <= sequence

(* A marker settles the record it was written for, also where numbers are  *)
(* used again after a crash: replay never commits or aborts the record of  *)
(* another operation.                                                      *)
MarkersMatch ==
    \A m, d \in log : m.kind # "data" /\ d.kind = "data" /\ m.of = d.seq
                          => m.op = d.op /\ d.seq < m.seq

(* The marker of a record goes with the record or after it: neither a      *)
(* checkpoint nor a crash takes the fsynced marker of a record and leaves  *)
(* the record, which Recover would then apply again.                       *)
Settled(d, es) == \E m \in es : /\ m.kind # "data" /\ m.of = d.seq
                                /\ m.seq <= durable /\ ~ m.blind
MarkerGoesLast ==
    [][\A d \in log : d.kind = "data" /\ d \in log' /\ Settled(d, log)
           => \E m \in log' : m.kind # "data" /\ m.of = d.seq]_vars

(* "Re-apply DATA records still in PENDING state": when Recover returns,   *)
(* every operation that the start found pending on disk has been applied   *)
(* or refused, whatever checkpoints and writes came in between.            *)
RecoveryIsComplete == recovered => owed = {}

(* "pruning fully-applied segments from disk" (Checkpoint): a record that  *)
(* is PENDING has its DATA entry in some segment.                          *)
PendingIsLogged ==
    \A s \in Pending(index) : \E e \in log : e.kind = "data" /\ e.seq = s

(* "The record is fsynced according to SyncMode (guarantees durability)":  *)
(* recovery can read every entry that was fsynced.                         *)
FsyncedIsReadable == \A e \in log : e.seq <= durable => ~ e.blind

(* What the two findings are about, as steps: a checkpoint compacts an     *)
(* applied record past a pending one; a crash leaves a torn entry.         *)
Overtakes == \E cutoff \in 1..sequence :
                 /\ Checkpoint(cutoff)
                 /\ \E t \in Compacted(cutoff), s \in Pending(index) :
                        index[t].state = "applied" /\ s < t
SpecOrdered == Init /\ [][Next /\ ~ Overtakes]_vars
SpecOrderedUntorn == Init /\ [][Next /\ ~ Overtakes /\ ~ torn']_vars

(* A pending record loses its DATA entry to such a checkpoint and to       *)
(* nothing else: no write, no recovery and no crash forgets one.           *)
OnlyOvertakingForgets ==
    [][PendingIsLogged /\ ~ PendingIsLogged' => Overtakes]_vars

(* "SyncImmediate calls fsync after every write (safest, slowest)": a      *)
(* write that is let into the store, and has no outcome yet, has its DATA  *)
(* entry where recovery reads it.                                          *)
Unsettled(o) == /\ call[o] \in {"logged", "applied", "refused"}
                /\ slot[o] \in Pending(index)
WriteAhead ==
    SyncMode = "immediate" =>
        \A o \in Op : Unsettled(o) =>
            \E d \in log : /\ d.kind = "data" /\ d.seq = slot[o] /\ d.op = o
                           /\ d.seq <= durable /\ ~ d.blind

(* ... so the index that a restart makes has the record of every such      *)
(* write.                                                                  *)
Restarts == \E cut \in durable..sequence, tear \in BOOLEAN : Restart(cut, tear)
CrashKeepsWrites ==
    [][SyncMode = "immediate" /\ Restarts =>
           \A o \in Op : Unsettled(o) => /\ slot[o] \in DOMAIN index'
                                         /\ index'[slot[o]].op = o]_vars
================================================================================
