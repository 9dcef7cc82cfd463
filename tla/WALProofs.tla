------------------------------- MODULE WALProofs -------------------------------
(***************************************************************************)
(* What the safety run of WAL checks on a small instance, for every set of *)
(* operations, every sync mode and any bounds.                             *)
(***************************************************************************)
EXTENDS WAL, TLAPS

Active == {"logged", "applied", "refused"}

(* Numbers rise along the segments; a marker comes after what it settles.  *)
DiskInv == /\ SequencesRise
           /\ \A e \in log : e.seq > 0 /\ e.seg <= cur
           /\ \A m \in log : m.kind # "data" => m.of < m.seq

(* s is the number of o's record, or of no record.                         *)
Owns(o, s) == /\ s <= sequence
              /\ s \in DOMAIN index => index[s].op = o
              /\ \A d \in log : d.kind = "data" /\ d.seq = s => d.op = o

(* Everyone who may write a marker for s means the operation whose record  *)
(* has that number.                                                        *)
OwnerInv == /\ \A s \in DOMAIN index : Owns(index[s].op, s)
            /\ \A o \in Op : call[o] \in Active => Owns(o, slot[o])
            /\ \A r \in todo : Owns(r[2], r[1])
            /\ \A q, r \in todo : q[1] = r[1] => q = r

(* An operation that left a trace is not written again.                    *)
CallInv == /\ \A e \in log : call[e.op] # "new"
           /\ \A s \in DOMAIN index : call[index[s].op] # "new"
           /\ \A r \in todo : call[r[2]] # "new"

(* An operation that is owed waits in the index for Recover to begin, then *)
(* among the records that Recover has not come to.                         *)
OwedInv ==
    /\ recovered => rec = "idle"
    /\ \A o \in owed :
          /\ call[o] = "returned"
          /\ rec = "idle" => /\ ~ recovered
                             /\ \E s \in Pending(index) : index[s].op = o
          /\ rec = "next" => \E r \in todo : r[2] = o
          /\ rec \in {"commit", "abort"} => \E r \in todo : r[2] = o /\ ~ IsNext(r)

Inv == TypeOK /\ DiskInv /\ MarkersMatch /\ OwnerInv /\ CallInv /\ OwedInv

-----------------------------------------------------------------------------
(* What a write, successful or not, does to the disk.                      *)
NewEntry(kind, of, op) ==
    [seq |-> sequence + 1, kind |-> kind, of |-> of, op |-> op,
     seg |-> cur', blind |-> torn']

Grows(kind, of, op) ==
    /\ sequence' = sequence + 1
    /\ cur' \in {cur, cur + 1}
    /\ torn' \in BOOLEAN
    /\ durable' \in 0..sequence'
    /\ log' = log \/ log' = log \cup {NewEntry(kind, of, op)}

(* Persist and PersistFails take one number and add at most one entry.     *)
LEMMA WriteGrows ==
    ASSUME TypeOK, NEW kind, NEW of, NEW op,
           Persist(kind, of, op) \/ PersistFails(kind, of, op)
    PROVE  Grows(kind, of, op)
<1>1. sequence \in Nat /\ durable \in 0..sequence /\ torn \in BOOLEAN /\ cur \in Nat
  BY DEF TypeOK
<1>2. PICK b \in BOOLEAN :
         /\ Rotate(b)
         /\ WriteEntry(kind, of, op) \/ log' = log
         /\ durable' \in {sequence + 1, Flushed(b)}
  <2>1. CASE Persist(kind, of, op)
    <3>1. PICK b \in BOOLEAN : /\ Rotate(b) /\ WriteEntry(kind, of, op)
                               /\ durable' \in Synced(sequence + 1, Flushed(b))
      BY <2>1 DEF Persist
    <3>2. Synced(sequence + 1, Flushed(b)) \subseteq {sequence + 1, Flushed(b)}
      BY SyncModeIsKnown DEF Synced
    <3> QED
      BY <3>1, <3>2
  <2>2. CASE PersistFails(kind, of, op)
    BY <2>2 DEF PersistFails
  <2> QED
    BY <2>1, <2>2
<1>3. sequence' = sequence + 1
  BY DEF Persist, PersistFails, TakeNumber
<1>4. Flushed(b) \in 0..sequence
  BY <1>1 DEF Flushed
<1>5. cur' \in {cur, cur + 1} /\ torn' \in BOOLEAN
  BY <1>1, <1>2 DEF Rotate
<1>6. log' = log \/ log' = log \cup {NewEntry(kind, of, op)}
  BY <1>2 DEF WriteEntry, NewEntry
<1> QED
  BY <1>1, <1>2, <1>3, <1>4, <1>5, <1>6 DEF Grows

(* A new entry keeps the types of the disk and the order of its numbers.   *)
LEMMA GrowsDisk ==
    ASSUME TypeOK, DiskInv, NEW kind \in Kind, NEW of \in Nat, NEW op \in Op,
           Grows(kind, of, op), kind # "data" => of <= sequence
    PROVE  /\ log' \subseteq Entry /\ cur' \in Nat \ {0} /\ sequence' \in Nat
           /\ DiskInv'
<1>1. log \subseteq Entry /\ sequence \in Nat /\ cur \in Nat \ {0}
  BY DEF TypeOK
<1> DEFINE e == NewEntry(kind, of, op)
<1>2. /\ cur' \in Nat \ {0} /\ cur <= cur' /\ torn' \in BOOLEAN
      /\ sequence' = sequence + 1 /\ sequence' \in Nat
  BY <1>1 DEF Grows
<1>3. /\ e.seq = sequence + 1 /\ e.kind = kind /\ e.of = of /\ e.seg = cur'
      /\ e \in Entry
  BY <1>1, <1>2 DEF NewEntry, Entry
<1>4. \A f \in log : /\ f.seq \in Nat /\ f.seq <= sequence /\ f.seg \in Nat
                     /\ f.seg <= cur /\ f.of \in Nat /\ f.seq > 0
  BY <1>1 DEF DiskInv, SequencesRise, Entry
<1>5. \A f, g \in log : (f.seq = g.seq => f = g) /\ (f.seq < g.seq => f.seg <= g.seg)
  BY DEF DiskInv, SequencesRise
<1>6. \A m \in log : m.kind # "data" => m.of < m.seq
  BY DEF DiskInv
<1> HIDE DEF e
<1>7. CASE log' = log
  <2>1. SequencesRise'
    BY <1>1, <1>2, <1>4, <1>5, <1>7 DEF SequencesRise
  <2> QED
    BY <1>1, <1>2, <1>4, <1>6, <1>7, <2>1 DEF DiskInv
<1>8. CASE log' = log \cup {e}
  <2>1. SequencesRise'
    <3> SUFFICES ASSUME NEW f \in log', NEW g \in log'
                 PROVE  /\ f.seq = g.seq => f = g
                        /\ f.seq < g.seq => f.seg <= g.seg
                        /\ f.seq <= sequence'
      BY DEF SequencesRise
    <3>1. (f \in log \/ f = e) /\ (g \in log \/ g = e)
      BY <1>8
    <3> QED
      BY <1>1, <1>2, <1>3, <1>4, <1>5, <3>1
  <2>2. \A f \in log' : f.seq > 0 /\ f.seg <= cur'
    BY <1>1, <1>2, <1>3, <1>4, <1>8
  <2>3. \A m \in log' : m.kind # "data" => m.of < m.seq
    BY <1>1, <1>3, <1>6, <1>8
  <2> QED
    BY <1>1, <1>2, <1>3, <1>8, <2>1, <2>2, <2>3 DEF DiskInv
<1> QED
  BY <1>7, <1>8 DEF Grows, e

(* A marker changes the state of one record at most.                       *)
LEMMA MarkFacts ==
    ASSUME TypeOK, NEW s \in Nat, NEW kind \in {"commit", "abort"}, NEW o,
           Mark(s, kind, o)
    PROVE  /\ \/ s \in DOMAIN index /\ s <= sequence /\ Grows(kind, s, o)
              \/ UNCHANGED diskVars
           /\ DOMAIN index' = DOMAIN index
           /\ \A q \in DOMAIN index : /\ index'[q] \in Record
                                      /\ index'[q].op = index[q].op
                                      /\ q # s => index'[q] = index[q]
<1>1. \A q \in DOMAIN index : index[q] \in Record /\ q \in 1..sequence
  BY DEF TypeOK
<1>2. sequence \in Nat
  BY DEF TypeOK
<1>3. CASE MarkSucceeds(s, kind, o)
  <2>1. s \in DOMAIN index /\ Grows(kind, s, o)
    BY <1>3, WriteGrows DEF MarkSucceeds
  <2>2. index' = [index EXCEPT ![s].state = Outcome(kind)]
    BY <1>3 DEF MarkSucceeds
  <2>3. Outcome(kind) \in State
    BY DEF Outcome, State
  <2>4. DOMAIN index' = DOMAIN index
    BY <2>2
  <2>5. ASSUME NEW q \in DOMAIN index
        PROVE  /\ index'[q] \in Record /\ index'[q].op = index[q].op
               /\ q # s => index'[q] = index[q]
    <3>1. CASE q = s
      <4>1. index'[q] = [index[q] EXCEPT !.state = Outcome(kind)]
        BY <2>2, <3>1
      <4> QED
        BY <1>1, <2>3, <3>1, <4>1 DEF Record
    <3>2. CASE q # s
      BY <1>1, <2>2, <3>2
    <3> QED
      BY <3>1, <3>2
  <2> QED
    BY <1>1, <1>2, <2>1, <2>4, <2>5
<1>4. CASE MarkFails(s, kind, o)
  <2>1. index' = index
    BY <1>4 DEF MarkFails
  <2>2. \/ s \in DOMAIN index /\ Grows(kind, s, o)
        \/ UNCHANGED diskVars
    BY <1>4, WriteGrows DEF MarkFails
  <2> QED
    BY <1>1, <1>2, <2>1, <2>2
<1> QED
  BY <1>3, <1>4 DEF Mark

(* What a restart finds on disk, and the index that replay makes of it.    *)
LEMMA RestartFacts ==
    ASSUME TypeOK, DiskInv, NEW cut \in durable..sequence, NEW tear \in BOOLEAN,
           Restart(cut, tear)
    PROVE  /\ log' \subseteq log
           /\ sequence' \in Nat /\ durable' = sequence'
           /\ \A e \in log' : e.seq <= sequence'
           /\ DOMAIN index' \subseteq 1..sequence'
           /\ \A s \in DOMAIN index' :
                 /\ index'[s] \in Record
                 /\ \E d \in log' : d.kind = "data" /\ d.seq = s
                 /\ \A d \in log' : d.kind = "data" /\ d.seq = s => index'[s].op = d.op
<1> DEFINE kept == {e \in log : e.seq <= cut /\ ~ e.blind}
<1>1. /\ log' = kept
      /\ sequence' \in LastSequence(kept)
      /\ durable' = sequence'
      /\ index' = Replay(kept)
  BY DEF Restart
<1>2. \A e \in log : e \in Entry
  BY DEF TypeOK
<1>3. \A e, f \in log : e.seq = f.seq => e = f
  BY DEF DiskInv, SequencesRise
<1>4. log' \subseteq log
  BY <1>1
<1>5. sequence' \in Nat
  BY <1>1, <1>2 DEF LastSequence, Entry
<1>6. \A e \in log' : e.seq <= sequence'
  BY <1>1 DEF LastSequence
<1>7. DOMAIN index' = {e.seq : e \in {d \in kept : d.kind = "data"}}
  BY <1>1 DEF Replay
<1>8. ASSUME NEW s \in DOMAIN index'
      PROVE  /\ index'[s] \in Record
             /\ \E d \in log' : d.kind = "data" /\ d.seq = s
             /\ \A d \in log' : d.kind = "data" /\ d.seq = s => index'[s].op = d.op
  <2> DEFINE c == CHOOSE d \in kept : d.kind = "data" /\ d.seq = s
  <2>1. PICK d \in kept : d.kind = "data" /\ d.seq = s
    BY <1>7
  <2>2. c \in kept /\ c.kind = "data" /\ c.seq = s
    BY <2>1
  <2>3. index'[s] = [op |-> c.op, state |-> StateOf(kept, s)]
    BY <1>1, <1>7 DEF Replay
  <2>4. StateOf(kept, s) \in State
    BY DEF StateOf, State
  <2>5. c.op \in Op
    BY <1>2, <2>2 DEF Entry
  <2>6. index'[s] \in Record /\ index'[s].op = c.op
    BY <2>3, <2>4, <2>5 DEF Record
  <2>7. \A f \in log' : f.kind = "data" /\ f.seq = s => f = c
    BY <1>1, <1>3, <1>4, <2>2
  <2> QED
    BY <1>1, <2>2, <2>6, <2>7
<1>9. DOMAIN index' \subseteq Nat
  BY <1>2, <1>7 DEF Entry
<1>10. DOMAIN index' \subseteq 1..sequence'
  <2> SUFFICES ASSUME NEW s \in DOMAIN index' PROVE s \in 1..sequence'
    OBVIOUS
  <2>1. PICK d \in log' : d.seq = s
    BY <1>8
  <2>2. s > 0 /\ s <= sequence'
    BY <1>4, <1>6, <2>1 DEF DiskInv
  <2> QED
    BY <1>5, <1>9, <2>2
<1> QED
  BY <1>1, <1>4, <1>5, <1>6, <1>8, <1>10

-----------------------------------------------------------------------------
(* Types and the order of the disk, in each step.                          *)
TypeDisk == TypeOK /\ DiskInv

(* Initially there is nothing on disk.                                     *)
LEMMA TypeDiskInit == Init => TypeDisk
<1> SUFFICES ASSUME Init PROVE TypeDisk
  OBVIOUS
<1>1. DOMAIN index = {}
  BY DEF Init
<1>2. TypeOK
  <2>1. /\ log = {} /\ cur = 1 /\ torn = FALSE /\ durable = 0 /\ sequence = 0
        /\ todo = {} /\ rec = "idle" /\ recovered = FALSE /\ owed = {}
    BY DEF Init
  <2>2. call \in [Op -> Call] /\ slot \in [Op -> Nat]
    BY DEF Init, Call
  <2>3. log \subseteq Entry /\ todo \subseteq Nat \X Op /\ owed \subseteq Op
    BY <2>1, Zenon
  <2>4. torn \in BOOLEAN /\ recovered \in BOOLEAN
    BY <2>1, Zenon
  <2>5. DOMAIN index \subseteq 1..sequence /\ \A s \in DOMAIN index : index[s] \in Record
    BY <1>1, Zenon
  <2> QED
    BY <2>1, <2>2, <2>3, <2>4, <2>5 DEF TypeOK
<1>3. DiskInv
  BY DEF Init, DiskInv, SequencesRise
<1> QED
  BY <1>2, <1>3 DEF TypeDisk

(* A marker keeps them.                                                    *)
LEMMA TypeDiskMark ==
    ASSUME TypeDisk, NEW s \in Nat, NEW kind \in {"commit", "abort"}, NEW o \in Op,
           Mark(s, kind, o)
    PROVE  /\ log' \subseteq Entry /\ cur' \in Nat \ {0} /\ torn' \in BOOLEAN
           /\ sequence' \in Nat /\ durable' \in 0..sequence'
           /\ DOMAIN index' \subseteq 1..sequence'
           /\ \A q \in DOMAIN index' : index'[q] \in Record
           /\ DiskInv'
<1>1. TypeOK /\ DiskInv
  BY DEF TypeDisk
<1>2. /\ \/ s \in DOMAIN index /\ s <= sequence /\ Grows(kind, s, o)
         \/ UNCHANGED diskVars
      /\ DOMAIN index' = DOMAIN index
      /\ \A q \in DOMAIN index : index'[q] \in Record
  BY <1>1, MarkFacts
<1>3. CASE s \in DOMAIN index /\ s <= sequence /\ Grows(kind, s, o)
  <2>1. /\ log' \subseteq Entry /\ cur' \in Nat \ {0} /\ sequence' \in Nat /\ DiskInv'
    BY <1>1, <1>3, GrowsDisk DEF Kind
  <2>2. sequence' = sequence + 1 /\ durable' \in 0..sequence' /\ torn' \in BOOLEAN
    BY <1>3 DEF Grows
  <2>3. DOMAIN index' \subseteq 1..sequence'
    BY <1>1, <1>2, <2>2 DEF TypeOK
  <2> QED
    BY <1>2, <2>1, <2>2, <2>3
<1>4. CASE UNCHANGED diskVars
  <2>1. DiskInv'
    BY <1>1, <1>4 DEF DiskInv, SequencesRise, diskVars
  <2> QED
    BY <1>1, <1>2, <1>4, <2>1 DEF TypeOK, diskVars
<1> QED
  BY <1>2, <1>3, <1>4

(* So does every other step.                                               *)
LEMMA TypeDiskStep == TypeDisk /\ [Next]_vars => TypeDisk'
<1> SUFFICES ASSUME TypeDisk, [Next]_vars PROVE TypeDisk'
  OBVIOUS
<1>0. TypeOK /\ DiskInv
  BY DEF TypeDisk
<1>1. ASSUME NEW o \in Op, AppendRecord(o) PROVE TypeDisk'
  <2>1. Grows("data", sequence + 1, o)
    BY <1>0, <1>1, WriteGrows DEF AppendRecord
  <2>2. sequence + 1 \in Nat
    BY <1>0 DEF TypeOK
  <2>3. log' \subseteq Entry /\ cur' \in Nat \ {0} /\ sequence' \in Nat /\ DiskInv'
    BY <1>0, <2>1, <2>2, GrowsDisk DEF Kind
  <2>4. sequence' = sequence + 1 /\ durable' \in 0..sequence' /\ torn' \in BOOLEAN
    BY <2>1 DEF Grows
  <2>5. /\ DOMAIN index' = DOMAIN index \cup {sequence'}
        /\ \A s \in DOMAIN index' :
              index'[s] = IF s = sequence' THEN [op |-> o, state |-> "pending"] ELSE index[s]
    BY <1>1 DEF AppendRecord
  <2>6. DOMAIN index' \subseteq 1..sequence' /\ \A s \in DOMAIN index' : index'[s] \in Record
    BY <1>0, <2>4, <2>5 DEF TypeOK, Record, State
  <2>7. call' \in [Op -> Call] /\ slot' \in [Op -> Nat]
    BY <1>0, <1>1, <2>3 DEF TypeOK, AppendRecord, Goto, Call
  <2>8. UNCHANGED <<recVars, owed>>
    BY <1>1 DEF AppendRecord
  <2> QED
    BY <1>0, <2>3, <2>4, <2>6, <2>7, <2>8 DEF TypeDisk, TypeOK, recVars
<1>2. ASSUME NEW o \in Op, AppendFails(o) PROVE TypeDisk'
  <2>1. Grows("data", sequence + 1, o)
    BY <1>0, <1>2, WriteGrows DEF AppendFails
  <2>2. sequence + 1 \in Nat
    BY <1>0 DEF TypeOK
  <2>3. log' \subseteq Entry /\ cur' \in Nat \ {0} /\ sequence' \in Nat /\ DiskInv'
    BY <1>0, <2>1, <2>2, GrowsDisk DEF Kind
  <2>4. sequence' = sequence + 1 /\ durable' \in 0..sequence' /\ torn' \in BOOLEAN
    BY <2>1 DEF Grows
  <2>5. UNCHANGED <<index, slot, recVars, owed>>
    BY <1>2 DEF AppendFails
  <2>6. DOMAIN index' \subseteq 1..sequence'
    BY <1>0, <2>4, <2>5 DEF TypeOK
  <2>7. call' \in [Op -> Call]
    BY <1>0, <1>2 DEF TypeOK, AppendFails, Goto, Call
  <2> QED
    BY <1>0, <2>3, <2>4, <2>5, <2>6, <2>7 DEF TypeDisk, TypeOK, recVars
<1>3. ASSUME NEW o \in Op, ApplyWrite(o) PROVE TypeDisk'
  <2>1. UNCHANGED <<diskVars, index, slot, recVars>> /\ owed' \subseteq Op
    BY <1>0, <1>3 DEF TypeOK, ApplyWrite
  <2>2. call' \in [Op -> Call]
    BY <1>0, <1>3 DEF TypeOK, ApplyWrite, Goto, Call
  <2>3. DiskInv'
    BY <1>0, <2>1 DEF DiskInv, SequencesRise, diskVars
  <2> QED
    BY <1>0, <2>1, <2>2, <2>3 DEF TypeDisk, TypeOK, diskVars, recVars
<1>4. ASSUME NEW o \in Op, MarkApplied(o) \/ MarkAborted(o) PROVE TypeDisk'
  <2>1. PICK kind \in {"commit", "abort"} : Mark(slot[o], kind, o)
    BY <1>4 DEF MarkApplied, MarkAborted
  <2>2. slot[o] \in Nat
    BY <1>0 DEF TypeOK
  <2>3. /\ log' \subseteq Entry /\ cur' \in Nat \ {0} /\ torn' \in BOOLEAN
        /\ sequence' \in Nat /\ durable' \in 0..sequence'
        /\ DOMAIN index' \subseteq 1..sequence'
        /\ \A q \in DOMAIN index' : index'[q] \in Record
        /\ DiskInv'
    BY <2>1, <2>2, TypeDiskMark
  <2>4. call' \in [Op -> Call] /\ UNCHANGED <<slot, recVars, owed>>
    BY <1>0, <1>4 DEF TypeOK, MarkApplied, MarkAborted, Goto, Call
  <2> QED
    BY <1>0, <2>3, <2>4 DEF TypeDisk, TypeOK, recVars
<1>5. ASSUME RecoverPending PROVE TypeDisk'
  <2>1. UNCHANGED <<diskVars, index, callVars, recovered, owed>>
    BY <1>5 DEF RecoverPending
  <2>2. todo' \subseteq Nat \X Op /\ rec' = "next"
    BY <1>0, <1>5 DEF TypeOK, RecoverPending, Pending, Record
  <2>3. DiskInv'
    BY <1>0, <2>1 DEF DiskInv, SequencesRise, diskVars
  <2> QED
    BY <1>0, <2>1, <2>2, <2>3 DEF TypeDisk, TypeOK, diskVars, callVars
<1>6. ASSUME NEW r \in todo, RecoverApply(r) PROVE TypeDisk'
  <2>1. /\ UNCHANGED <<diskVars, index, callVars, todo, recovered>>
        /\ owed' \subseteq Op /\ rec' \in {"commit", "abort"}
    BY <1>0, <1>6 DEF TypeOK, RecoverApply
  <2>2. DiskInv'
    BY <1>0, <2>1 DEF DiskInv, SequencesRise, diskVars
  <2> QED
    BY <1>0, <2>1, <2>2 DEF TypeDisk, TypeOK, diskVars, callVars
<1>7. ASSUME NEW r \in todo, RecoverMark(r) PROVE TypeDisk'
  <2>1. r[1] \in Nat /\ r[2] \in Op /\ rec \in {"commit", "abort"} /\ Mark(r[1], rec, r[2])
    BY <1>0, <1>7 DEF TypeOK, RecoverMark
  <2>2. /\ log' \subseteq Entry /\ cur' \in Nat \ {0} /\ torn' \in BOOLEAN
        /\ sequence' \in Nat /\ durable' \in 0..sequence'
        /\ DOMAIN index' \subseteq 1..sequence'
        /\ \A q \in DOMAIN index' : index'[q] \in Record
        /\ DiskInv'
    BY <2>1, TypeDiskMark
  <2>3. UNCHANGED <<callVars, recovered, owed>> /\ rec' = "next" /\ todo' \subseteq todo
    BY <1>7 DEF RecoverMark
  <2> QED
    BY <1>0, <2>2, <2>3 DEF TypeDisk, TypeOK, callVars
<1>8. ASSUME RecoverEnds PROVE TypeDisk'
  <2>1. /\ UNCHANGED <<diskVars, index, callVars, todo, owed>>
        /\ rec' = "idle" /\ recovered' = TRUE
    BY <1>8 DEF RecoverEnds
  <2>2. DiskInv'
    BY <1>0, <2>1 DEF DiskInv, SequencesRise, diskVars
  <2> QED
    BY <1>0, <2>1, <2>2 DEF TypeDisk, TypeOK, diskVars, callVars
<1>9. ASSUME FlushSync PROVE TypeDisk'
  <2>1. /\ UNCHANGED <<log, cur, torn, sequence, index, callVars, recVars, owed>>
        /\ durable' \in 0..sequence
    BY <1>0, <1>9 DEF TypeOK, FlushSync
  <2>2. DiskInv'
    BY <1>0, <2>1 DEF DiskInv, SequencesRise
  <2> QED
    BY <1>0, <2>1, <2>2 DEF TypeDisk, TypeOK, callVars, recVars
<1>10. ASSUME NEW cutoff \in 1..sequence, Checkpoint(cutoff) PROVE TypeDisk'
  <2>1. /\ UNCHANGED <<cur, torn, durable, sequence, callVars, recVars, owed>>
        /\ log' \subseteq log
        /\ DOMAIN index' \subseteq DOMAIN index
        /\ \A s \in DOMAIN index' : index'[s] = index[s]
    BY <1>10 DEF Checkpoint, Unpruned
  <2>2. DiskInv'
    BY <1>0, <2>1 DEF DiskInv, SequencesRise
  <2> QED
    BY <1>0, <2>1, <2>2 DEF TypeDisk, TypeOK, callVars, recVars
<1>11. ASSUME NEW cut \in durable..sequence, NEW tear \in BOOLEAN, Restart(cut, tear)
       PROVE  TypeDisk'
  <2>1. /\ log' \subseteq log
        /\ sequence' \in Nat /\ durable' = sequence'
        /\ \A e \in log' : e.seq <= sequence'
        /\ DOMAIN index' \subseteq 1..sequence'
        /\ \A s \in DOMAIN index' : index'[s] \in Record
    BY <1>0, <1>11, RestartFacts
  <2>2. cur' = cur /\ torn' \in BOOLEAN
    BY <1>0, <1>11 DEF TypeOK, Restart
  <2>3. call' \in [Op -> Call] /\ slot' \in [Op -> Nat]
    BY <1>0, <1>11 DEF TypeOK, Restart, Call
  <2>4. todo' = {} /\ rec' = "idle" /\ recovered' = FALSE
    BY <1>11 DEF Restart
  <2>5. owed' \subseteq Op
    <3>1. owed' = {index'[s].op : s \in Pending(index')}
      BY <1>11 DEF Restart
    <3> QED
      BY <2>1, <3>1 DEF Pending, Record
  <2>6. DiskInv'
    BY <1>0, <2>1, <2>2 DEF DiskInv, SequencesRise
  <2>7. log' \subseteq Entry /\ cur' \in Nat \ {0} /\ durable' \in 0..sequence'
    BY <1>0, <2>1, <2>2 DEF TypeOK
  <2> QED
    BY <2>1, <2>2, <2>3, <2>4, <2>5, <2>6, <2>7 DEF TypeDisk, TypeOK
<1>12. ASSUME UNCHANGED vars PROVE TypeDisk'
  <2>1. DiskInv'
    BY <1>0, <1>12 DEF DiskInv, SequencesRise, vars, diskVars
  <2> QED
    BY <1>0, <1>12, <2>1 DEF TypeDisk, TypeOK, vars, diskVars, callVars, recVars
<1> QED
  BY <1>1, <1>2, <1>3, <1>4, <1>5, <1>6, <1>7, <1>8, <1>9, <1>10, <1>11, <1>12
  DEF Next, WriteStep, RecoverStep

-----------------------------------------------------------------------------
(* Numbers, owners and markers.                                            *)
Match == MarkersMatch /\ OwnerInv /\ CallInv

(* No step of a caller gives an operation a number or makes it new.        *)
CallsGoOn == /\ \A x \in Op : call'[x] = "new" => call[x] = "new"
             /\ \A x \in Op : call'[x] \in Active => call[x] \in Active
             /\ slot' = slot

(* A number that has an owner keeps it when an entry is added.             *)
LEMMA OwnsGrows ==
    ASSUME TypeDisk, NEW o, NEW s \in Nat, Owns(o, s),
           NEW kind, NEW of, NEW op, Grows(kind, of, op),
           s \in DOMAIN index' => s \in DOMAIN index /\ index'[s].op = index[s].op
    PROVE  Owns(o, s)'
<1>1. sequence \in Nat /\ sequence' = sequence + 1
  BY DEF TypeDisk, TypeOK, Grows
<1>2. \A d \in log' : d \in log \/ d.seq = sequence + 1
  BY DEF Grows, NewEntry
<1> QED
  BY <1>1, <1>2 DEF Owns

(* An entry that is new on disk and is a marker settles its owner's record.*)
LEMMA MatchGrows ==
    ASSUME TypeDisk, MarkersMatch, NEW kind \in Kind, NEW of \in Nat, NEW op \in Op,
           Grows(kind, of, op), kind # "data" => Owns(op, of)
    PROVE  MarkersMatch'
<1> DEFINE e == NewEntry(kind, of, op)
<1>1. sequence \in Nat /\ \A m \in log : m \in Entry
  BY DEF TypeDisk, TypeOK
<1>2. \A m \in log : m.seq <= sequence /\ (m.kind # "data" => m.of < m.seq)
  BY DEF TypeDisk, DiskInv, SequencesRise
<1>3. e.seq = sequence + 1 /\ e.kind = kind /\ e.of = of /\ e.op = op
  BY DEF NewEntry
<1>4. \A m \in log' : m \in log \/ m = e
  BY DEF Grows
<1> HIDE DEF e
<1> SUFFICES ASSUME NEW m \in log', NEW d \in log',
                    m.kind # "data", d.kind = "data", m.of = d.seq
             PROVE  m.op = d.op /\ d.seq < m.seq
  BY DEF MarkersMatch
<1>5. CASE m \in log /\ d \in log
  BY <1>5 DEF MarkersMatch
<1>6. CASE m = e /\ d \in log
  BY <1>1, <1>3, <1>6 DEF Owns
<1>7. CASE m \in log /\ d = e
  <2>1. m.of < m.seq /\ m.seq <= sequence /\ m.of = sequence + 1
    BY <1>2, <1>3, <1>7
  <2>2. m.of \in Nat /\ m.seq \in Nat
    BY <1>1, <1>7 DEF Entry
  <2> QED
    BY <1>1, <2>1, <2>2
<1> QED
  BY <1>3, <1>4, <1>5, <1>6, <1>7

(* A step that adds nothing to the log.                                    *)
LEMMA MatchStays ==
    ASSUME Match, CallsGoOn, log' \subseteq log, sequence' = sequence,
           TypeDisk, todo' \subseteq todo,
           DOMAIN index' \subseteq DOMAIN index,
           \A s \in DOMAIN index' : index'[s] = index[s]
    PROVE  Match'
<1>1. MarkersMatch'
  BY DEF Match, MarkersMatch
<1>2. ASSUME NEW o, NEW s, Owns(o, s) PROVE Owns(o, s)'
  BY <1>2 DEF Owns
<1>3. OwnerInv'
  BY <1>2 DEF Match, OwnerInv, CallsGoOn
<1>4. CallInv'
  <2>1. \A e \in log : e.op \in Op
    BY DEF TypeDisk, TypeOK, Entry
  <2>2. \A s \in DOMAIN index : index[s].op \in Op
    BY DEF TypeDisk, TypeOK, Record
  <2>3. \A r \in todo : r[2] \in Op
    BY DEF TypeDisk, TypeOK
  <2> QED
    BY <2>1, <2>2, <2>3 DEF Match, CallInv, CallsGoOn
<1> QED
  BY <1>1, <1>3, <1>4 DEF Match

(* A marker that the owner of a number writes, or Recover for it.          *)
LEMMA MatchMark ==
    ASSUME TypeDisk, Match, CallsGoOn, todo' \subseteq todo,
           NEW s \in Nat, NEW kind \in {"commit", "abort"}, NEW o \in Op,
           Owns(o, s), call[o] # "new", Mark(s, kind, o)
    PROVE  Match'
<1>1. /\ \/ Grows(kind, s, o)
         \/ UNCHANGED diskVars
      /\ DOMAIN index' = DOMAIN index
      /\ \A q \in DOMAIN index : index'[q].op = index[q].op
  BY MarkFacts DEF TypeDisk
<1>2. /\ \A e \in log : e.op \in Op
      /\ DOMAIN index \subseteq Nat /\ \A q \in DOMAIN index : index[q].op \in Op
      /\ \A r \in todo : r[1] \in Nat /\ r[2] \in Op
      /\ slot \in [Op -> Nat]
  <2>1. DOMAIN index \subseteq Nat
    BY DEF TypeDisk, TypeOK
  <2> QED
    BY <2>1 DEF TypeDisk, TypeOK, Entry, Record
<1>3. CASE Grows(kind, s, o)
  <2>1. MarkersMatch'
    BY <1>3, MatchGrows DEF Match, Kind
  <2>2. ASSUME NEW x, NEW q \in Nat, Owns(x, q) PROVE Owns(x, q)'
    BY <1>1, <1>3, <2>2, OwnsGrows
  <2>3. OwnerInv'
    <3>1. \A q \in DOMAIN index' : Owns(index[q].op, q)'
      <4> SUFFICES ASSUME NEW q \in DOMAIN index PROVE Owns(index[q].op, q)'
        BY <1>1
      <4>1. PICK x : x = index[q].op
        OBVIOUS
      <4>2. q \in Nat /\ Owns(x, q)
        BY <1>2, <4>1 DEF Match, OwnerInv
      <4>3. Owns(x, q)' /\ index'[q].op = x
        BY <1>1, <2>2, <4>1, <4>2
      <4> QED
        BY <4>3 DEF Owns
    <3>2. \A x \in Op : call'[x] \in Active => Owns(x, slot[x])'
      BY <1>2, <2>2 DEF Match, OwnerInv, CallsGoOn
    <3>3. \A r \in todo' : Owns(r[2], r[1])'
      BY <1>2, <2>2 DEF Match, OwnerInv
    <3>4. \A q, r \in todo' : q[1] = r[1] => q = r
      BY DEF Match, OwnerInv
    <3> QED
      BY <3>1, <3>2, <3>3, <3>4 DEF OwnerInv
  <2>4. CallInv'
    <3>1. \A e \in log' : e \in log \/ e.op = o
      BY <1>3 DEF Grows, NewEntry
    <3> QED
      BY <1>1, <1>2, <3>1 DEF Match, CallInv, CallsGoOn
  <2> QED
    BY <2>1, <2>3, <2>4 DEF Match
<1>4. CASE UNCHANGED diskVars
  <2>1. MarkersMatch'
    BY <1>4 DEF Match, MarkersMatch, diskVars
  <2>2. ASSUME NEW x, NEW q, Owns(x, q) PROVE Owns(x, q)'
    BY <1>1, <1>4, <2>2 DEF Owns, diskVars
  <2>3. OwnerInv'
    BY <1>1, <2>2 DEF Match, OwnerInv, CallsGoOn
  <2>4. CallInv'
    BY <1>1, <1>2, <1>4 DEF Match, CallInv, CallsGoOn, diskVars
  <2> QED
    BY <2>1, <2>3, <2>4 DEF Match
<1> QED
  BY <1>1, <1>3, <1>4

(* Initially nobody has a number.                                          *)
LEMMA MatchInit == Init => Match
<1> SUFFICES ASSUME Init PROVE Match
  OBVIOUS
<1>1. DOMAIN index = {} /\ log = {} /\ todo = {} /\ \A x \in Op : call[x] \notin Active
  BY DEF Init, Active
<1> QED
  BY <1>1 DEF Match, MarkersMatch, OwnerInv, CallInv

(* Every step keeps numbers, owners and markers together.                  *)
LEMMA MatchStep == TypeDisk /\ Match /\ [Next]_vars => Match'
<1> SUFFICES ASSUME TypeDisk, Match, [Next]_vars PROVE Match'
  OBVIOUS
<1>0. /\ TypeOK /\ call \in [Op -> Call] /\ slot \in [Op -> Nat] /\ sequence \in Nat
      /\ \A e \in log : e \in Entry /\ e.op \in Op /\ e.seq <= sequence
      /\ DOMAIN index \subseteq Nat
      /\ \A s \in DOMAIN index : index[s].op \in Op /\ s <= sequence
      /\ \A r \in todo : r[1] \in Nat /\ r[2] \in Op
  <2>1. TypeOK
    BY DEF TypeDisk
  <2>2. \A e \in log : e \in Entry /\ e.op \in Op /\ e.seq <= sequence
    BY DEF TypeDisk, TypeOK, Entry, DiskInv, SequencesRise
  <2>3. /\ DOMAIN index \subseteq Nat
        /\ \A s \in DOMAIN index : index[s].op \in Op /\ s <= sequence
    BY <2>1 DEF TypeOK, Record
  <2> QED
    BY <2>1, <2>2, <2>3 DEF TypeOK
<1>1. ASSUME NEW o \in Op, AppendRecord(o) PROVE Match'
  <2>1. Grows("data", sequence + 1, o) /\ call[o] = "new"
    BY <1>0, <1>1, WriteGrows DEF AppendRecord
  <2>2. /\ DOMAIN index' = DOMAIN index \cup {sequence'}
        /\ \A s \in DOMAIN index' :
              index'[s] = IF s = sequence' THEN [op |-> o, state |-> "pending"] ELSE index[s]
        /\ slot' = [slot EXCEPT ![o] = sequence']
        /\ call' = [call EXCEPT ![o] = "logged"]
        /\ todo' = todo /\ sequence' = sequence + 1
    BY <1>1, <2>1 DEF AppendRecord, Goto, recVars, Grows
  <2>3. MarkersMatch'
    <3>1. "data" \in Kind /\ sequence + 1 \in Nat /\ MarkersMatch
      BY <1>0 DEF Match, Kind
    <3> QED
      BY <2>1, <3>1, MatchGrows
  <2>4. ASSUME NEW x, NEW q \in Nat, Owns(x, q) PROVE Owns(x, q)'
    <3>1. q # sequence'
      BY <1>0, <2>2, <2>4 DEF Owns
    <3> QED
      BY <2>1, <2>2, <2>4, <3>1, OwnsGrows
  <2>5. Owns(o, sequence)' 
    <3>1. \A d \in log' : d \in log \/ d = NewEntry("data", sequence + 1, o)
      BY <2>1 DEF Grows
    <3>2. \A d \in log' : d.seq = sequence' => d.op = o
      BY <1>0, <2>2, <3>1 DEF NewEntry
    <3>3. sequence' \in Nat /\ index'[sequence'].op = o
      BY <1>0, <2>2
    <3> QED
      BY <3>2, <3>3 DEF Owns
  <2>6. OwnerInv'
    <3>1. \A q \in DOMAIN index' : Owns(index[q].op, q)'
      <4> SUFFICES ASSUME NEW q \in DOMAIN index' PROVE Owns(index[q].op, q)'
        OBVIOUS
      <4>1. CASE q = sequence'
        <5>1. index'[q].op = o
          BY <2>2, <4>1
        <5> QED
          BY <2>5, <4>1, <5>1 DEF Owns
      <4>2. CASE q # sequence'
        <5>1. q \in DOMAIN index /\ index'[q] = index[q]
          BY <2>2, <4>2
        <5>2. PICK x : x = index[q].op
          OBVIOUS
        <5>3. q \in Nat /\ Owns(x, q)
          BY <1>0, <5>1, <5>2 DEF Match, OwnerInv
        <5>4. Owns(x, q)' /\ index'[q].op = x
          BY <2>4, <5>1, <5>2, <5>3
        <5> QED
          BY <5>4 DEF Owns
      <4> QED
        BY <4>1, <4>2
    <3>2. \A x \in Op : call'[x] \in Active => Owns(x, slot[x])'
      <4> SUFFICES ASSUME NEW x \in Op, call'[x] \in Active PROVE Owns(x, slot[x])'
        OBVIOUS
      <4>1. CASE x = o
        <5>1. slot'[x] = sequence'
          BY <1>0, <2>2, <4>1
        <5> QED
          BY <2>5, <4>1, <5>1 DEF Owns
      <4>2. CASE x # o
        <5>1. slot'[x] = slot[x] /\ call[x] \in Active /\ slot[x] \in Nat
          BY <1>0, <2>2, <4>2
        <5>2. Owns(x, slot[x])
          BY <5>1 DEF Match, OwnerInv
        <5>3. PICK q \in Nat : q = slot[x]
          BY <5>1
        <5>4. Owns(x, q)' /\ slot'[x] = q
          BY <2>4, <5>1, <5>2, <5>3
        <5> QED
          BY <5>4 DEF Owns
      <4> QED
        BY <4>1, <4>2
    <3>3. \A r \in todo' : Owns(r[2], r[1])'
      BY <1>0, <2>2, <2>4 DEF Match, OwnerInv
    <3>4. \A q, r \in todo' : q[1] = r[1] => q = r
      BY <2>2 DEF Match, OwnerInv
    <3> QED
      BY <3>1, <3>2, <3>3, <3>4 DEF OwnerInv
  <2>7. CallInv'
    <3>1. \A x \in Op : call[x] # "new" => call'[x] # "new"
      BY <1>0, <2>2
    <3>2. call'[o] # "new"
      BY <1>0, <2>2
    <3>3. \A e \in log' : e \in log \/ e.op = o
      BY <2>1 DEF Grows, NewEntry
    <3>4. \A e \in log' : call'[e.op] # "new"
      BY <1>0, <3>1, <3>2, <3>3 DEF Match, CallInv
    <3>5. \A s \in DOMAIN index' : call'[index'[s].op] # "new"
      BY <1>0, <2>2, <3>1, <3>2 DEF Match, CallInv
    <3>6. \A r \in todo' : call'[r[2]] # "new"
      BY <1>0, <2>2, <3>1 DEF Match, CallInv
    <3> QED
      BY <3>4, <3>5, <3>6 DEF CallInv
  <2> QED
    BY <2>3, <2>6, <2>7 DEF Match
<1>2. ASSUME NEW o \in Op, AppendFails(o) PROVE Match'
  <2>1. Grows("data", sequence + 1, o)
    BY <1>0, <1>2, WriteGrows DEF AppendFails
  <2>2. /\ index' = index /\ slot' = slot /\ todo' = todo
        /\ call' = [call EXCEPT ![o] = "returned"]
    BY <1>2 DEF AppendFails, Goto, recVars
  <2>3. MarkersMatch'
    BY <1>0, <2>1, MatchGrows DEF Match, Kind
  <2>4. ASSUME NEW x, NEW q \in Nat, Owns(x, q) PROVE Owns(x, q)'
    BY <2>1, <2>2, <2>4, OwnsGrows
  <2>5. OwnerInv'
    <3>1. \A q \in DOMAIN index' : Owns(index[q].op, q)'
      BY <1>0, <2>2, <2>4 DEF Match, OwnerInv
    <3>2. \A x \in Op : call'[x] \in Active => Owns(x, slot[x])'
      BY <1>0, <2>2, <2>4 DEF Match, OwnerInv, Active
    <3>3. \A r \in todo' : Owns(r[2], r[1])'
      BY <1>0, <2>2, <2>4 DEF Match, OwnerInv
    <3>4. \A q, r \in todo' : q[1] = r[1] => q = r
      BY <2>2 DEF Match, OwnerInv
    <3> QED
      BY <3>1, <3>2, <3>3, <3>4 DEF OwnerInv
  <2>6. CallInv'
    <3>1. \A e \in log' : e \in log \/ e.op = o
      BY <2>1 DEF Grows, NewEntry
    <3>2. \A x \in Op : call[x] # "new" => call'[x] # "new"
      BY <1>0, <2>2
    <3>3. call'[o] # "new"
      BY <1>0, <2>2
    <3> QED
      BY <1>0, <2>2, <3>1, <3>2, <3>3 DEF Match, CallInv
  <2> QED
    BY <2>3, <2>5, <2>6 DEF Match
<1>3. ASSUME NEW o \in Op, ApplyWrite(o) PROVE Match'
  <2>1. /\ UNCHANGED <<diskVars, index, recVars>> /\ slot' = slot /\ call[o] = "logged"
        /\ \E l \in {"applied", "refused"} : call' = [call EXCEPT ![o] = l]
    BY <1>3 DEF ApplyWrite, Goto
  <2>2. CallsGoOn
    BY <1>0, <2>1 DEF CallsGoOn, Active
  <2> QED
    BY <2>1, <2>2, MatchStays DEF diskVars, recVars
<1>4. ASSUME NEW o \in Op, MarkApplied(o) \/ MarkAborted(o) PROVE Match'
  <2>1. PICK kind \in {"commit", "abort"} : Mark(slot[o], kind, o)
    BY <1>4 DEF MarkApplied, MarkAborted
  <2>2. /\ call[o] \in Active /\ slot' = slot /\ todo' = todo
        /\ call' = [call EXCEPT ![o] = "returned"]
    BY <1>4 DEF MarkApplied, MarkAborted, Goto, Active, recVars
  <2>3. CallsGoOn
    BY <1>0, <2>2 DEF CallsGoOn, Active
  <2>4. Owns(o, slot[o]) /\ slot[o] \in Nat /\ call[o] # "new"
    BY <1>0, <2>2 DEF Match, OwnerInv, Active
  <2> QED
    BY <2>1, <2>2, <2>3, <2>4, MatchMark
<1>5. ASSUME RecoverPending PROVE Match'
  <2>1. /\ UNCHANGED <<diskVars, index, callVars>>
        /\ todo' = {<<s, index[s].op>> : s \in Pending(index)}
    BY <1>5 DEF RecoverPending
  <2>2. MarkersMatch'
    BY <2>1 DEF Match, MarkersMatch, diskVars
  <2>3. ASSUME NEW x, NEW q, Owns(x, q) PROVE Owns(x, q)'
    BY <2>1, <2>3 DEF Owns, diskVars
  <2>4. \A r \in todo' : r[1] \in DOMAIN index /\ r[2] = index[r[1]].op
    BY <2>1 DEF Pending
  <2>5. OwnerInv'
    <3>1. \A s \in DOMAIN index' : Owns(index[s].op, s)'
      BY <2>1, <2>3 DEF Match, OwnerInv
    <3>2. \A x \in Op : call'[x] \in Active => Owns(x, slot[x])'
      BY <2>1, <2>3 DEF Match, OwnerInv, callVars
    <3>3. \A r \in todo' : Owns(r[2], r[1])'
      BY <2>1, <2>3, <2>4 DEF Match, OwnerInv
    <3>4. \A q, r \in todo' : q[1] = r[1] => q = r
      BY <2>1
    <3> QED
      BY <3>1, <3>2, <3>3, <3>4 DEF OwnerInv
  <2>6. CallInv'
    BY <2>1, <2>4 DEF Match, CallInv, diskVars, callVars
  <2> QED
    BY <2>2, <2>5, <2>6 DEF Match
<1>6. ASSUME NEW r \in todo, RecoverApply(r) PROVE Match'
  <2>1. UNCHANGED <<diskVars, index, callVars, todo>>
    BY <1>6 DEF RecoverApply
  <2>2. CallsGoOn
    BY <2>1 DEF CallsGoOn, callVars
  <2> QED
    BY <2>1, <2>2, MatchStays DEF diskVars
<1>7. ASSUME NEW r \in todo, RecoverMark(r) PROVE Match'
  <2>1. /\ r[1] \in Nat /\ r[2] \in Op /\ rec \in {"commit", "abort"}
        /\ Mark(r[1], rec, r[2]) /\ UNCHANGED callVars /\ todo' \subseteq todo
    BY <1>0, <1>7 DEF RecoverMark
  <2>2. CallsGoOn
    BY <2>1 DEF CallsGoOn, callVars
  <2>3. Owns(r[2], r[1]) /\ call[r[2]] # "new"
    BY DEF Match, OwnerInv, CallInv
  <2> QED
    BY <2>1, <2>2, <2>3, MatchMark
<1>8. ASSUME RecoverEnds \/ FlushSync \/ UNCHANGED vars PROVE Match'
  <2>1. UNCHANGED <<log, sequence, index, callVars, todo>>
    BY <1>8 DEF RecoverEnds, FlushSync, vars, diskVars, recVars
  <2>2. CallsGoOn
    BY <2>1 DEF CallsGoOn, callVars
  <2> QED
    BY <2>1, <2>2, MatchStays
<1>9. ASSUME NEW cutoff \in 1..sequence, Checkpoint(cutoff) PROVE Match'
  <2>1. /\ UNCHANGED <<sequence, callVars, recVars>>
        /\ log' \subseteq log
        /\ DOMAIN index' \subseteq DOMAIN index
        /\ \A s \in DOMAIN index' : index'[s] = index[s]
    BY <1>9 DEF Checkpoint, Unpruned
  <2>2. CallsGoOn
    BY <2>1 DEF CallsGoOn, callVars
  <2> QED
    BY <2>1, <2>2, MatchStays DEF recVars
<1>10. ASSUME NEW cut \in durable..sequence, NEW tear \in BOOLEAN, Restart(cut, tear)
       PROVE  Match'
  <2>1. /\ log' \subseteq log
        /\ DOMAIN index' \subseteq 1..sequence'
        /\ \A s \in DOMAIN index' :
              /\ \E d \in log' : d.kind = "data" /\ d.seq = s
              /\ \A d \in log' : d.kind = "data" /\ d.seq = s => index'[s].op = d.op
        /\ sequence' \in Nat
    BY <1>0, <1>10, RestartFacts DEF TypeDisk
  <2>2. /\ todo' = {}
        /\ call' = [o \in Op |-> IF call[o] \in Active THEN "returned" ELSE call[o]]
    BY <1>10 DEF Restart, Active
  <2>3. MarkersMatch'
    BY <2>1 DEF Match, MarkersMatch
  <2>4. \A s \in DOMAIN index' : Owns(index[s].op, s)'
    BY <2>1 DEF Owns
  <2>5. OwnerInv'
    BY <2>2, <2>4 DEF OwnerInv, Active
  <2>6. \A x \in Op : call[x] # "new" => call'[x] # "new"
    BY <2>2
  <2>7. \A e \in log' : call'[e.op] # "new"
    BY <1>0, <2>1, <2>6 DEF Match, CallInv
  <2>8. \A s \in DOMAIN index' : call'[index'[s].op] # "new"
    BY <2>1, <2>7
  <2>9. CallInv'
    BY <2>2, <2>7, <2>8 DEF CallInv
  <2> QED
    BY <2>3, <2>5, <2>9 DEF Match
<1> QED
  BY <1>1, <1>2, <1>3, <1>4, <1>5, <1>6, <1>7, <1>8, <1>9, <1>10
  DEF Next, WriteStep, RecoverStep

-----------------------------------------------------------------------------
(* What recovery owes.                                                     *)

(* A step that leaves Recover where it is and the records of the operations*)
(* it owes pending.                                                        *)
LEMMA OwedStays ==
    ASSUME OwedInv, owed' \subseteq owed, UNCHANGED <<todo, rec, recovered>>,
           \A o \in owed' : call'[o] = call[o],
           \A s \in Pending(index) : index[s].op \in owed'
               => s \in Pending(index') /\ index'[s].op = index[s].op
    PROVE  OwedInv'
<1>1. recovered' => rec' = "idle"
  BY DEF OwedInv
<1>2. ASSUME NEW o \in owed'
      PROVE  /\ call'[o] = "returned"
             /\ rec' = "idle" => /\ ~ recovered'
                                 /\ \E s \in Pending(index') : index'[s].op = o
             /\ rec' = "next" => \E r \in todo' : r[2] = o
             /\ rec' \in {"commit", "abort"} => \E r \in todo' : r[2] = o /\ ~ IsNext(r)'
  <2>1. /\ call[o] = "returned"
        /\ rec = "idle" => ~ recovered /\ \E s \in Pending(index) : index[s].op = o
        /\ rec = "next" => \E r \in todo : r[2] = o
        /\ rec \in {"commit", "abort"} => \E r \in todo : r[2] = o /\ ~ IsNext(r)
    BY <1>2 DEF OwedInv
  <2>2. \A r : IsNext(r)' <=> IsNext(r)
    BY DEF IsNext
  <2> QED
    BY <1>2, <2>1, <2>2
<1> QED
  BY <1>1, <1>2 DEF OwedInv, Pending

(* Initially nothing is owed.                                              *)
LEMMA OwedInit == Init => OwedInv
BY DEF Init, OwedInv

(* Each step keeps what is owed where Recover will come to it.             *)
LEMMA OwedStep == TypeDisk /\ Match /\ OwedInv /\ [Next]_vars => OwedInv'
<1> SUFFICES ASSUME TypeDisk, Match, OwedInv, [Next]_vars PROVE OwedInv'
  OBVIOUS
<1>0. /\ TypeOK /\ DiskInv /\ sequence \in Nat
      /\ call \in [Op -> Call] /\ slot \in [Op -> Nat]
      /\ \A s \in DOMAIN index : index[s] \in Record /\ s \in Nat /\ s <= sequence
      /\ \A r \in todo : r[1] \in Nat /\ r[2] \in Op
      /\ owed \subseteq Op
      /\ \A o \in owed : call[o] = "returned"
  BY DEF TypeDisk, TypeOK, OwedInv
<1>1. ASSUME NEW o \in Op, AppendRecord(o) \/ AppendFails(o) PROVE OwedInv'
  <2>1. /\ call[o] = "new" /\ UNCHANGED <<todo, rec, recovered, owed>>
        /\ \E l \in Call : call' = [call EXCEPT ![o] = l]
    BY <1>1 DEF AppendRecord, AppendFails, Goto, Call, recVars
  <2>2. \A x \in owed' : x # o /\ call'[x] = call[x]
    BY <1>0, <2>1
  <2>3. \A s \in DOMAIN index : s \in DOMAIN index' /\ index'[s] = index[s]
    <3>1. CASE AppendRecord(o)
      <4>1. sequence' = sequence + 1
        BY <3>1 DEF AppendRecord, Persist, TakeNumber
      <4> QED
        BY <1>0, <3>1, <4>1 DEF AppendRecord
    <3>2. CASE AppendFails(o)
      BY <3>2 DEF AppendFails
    <3> QED
      BY <1>1, <3>1, <3>2
  <2> QED
    BY <2>1, <2>2, <2>3, OwedStays DEF Pending
<1>2. ASSUME NEW o \in Op, ApplyWrite(o) PROVE OwedInv'
  <2>1. /\ UNCHANGED <<index, todo, rec, recovered, owed>> /\ call[o] = "logged"
        /\ \E l \in Call : call' = [call EXCEPT ![o] = l]
    BY <1>2 DEF ApplyWrite, Goto, Call, recVars
  <2>2. \A x \in owed' : call'[x] = call[x]
    BY <1>0, <2>1
  <2> QED
    BY <2>1, <2>2, OwedStays DEF Pending
<1>3. ASSUME NEW o \in Op, MarkApplied(o) \/ MarkAborted(o) PROVE OwedInv'
  <2>1. PICK kind \in {"commit", "abort"} : Mark(slot[o], kind, o)
    BY <1>3 DEF MarkApplied, MarkAborted
  <2>2. /\ call[o] \in Active /\ UNCHANGED <<todo, rec, recovered, owed>>
        /\ call' = [call EXCEPT ![o] = "returned"]
    BY <1>3 DEF MarkApplied, MarkAborted, Goto, Active, recVars
  <2>3. slot[o] \in Nat
    BY <1>0
  <2>4. /\ DOMAIN index' = DOMAIN index
        /\ \A q \in DOMAIN index : q # slot[o] => index'[q] = index[q]
    BY <1>0, <2>1, <2>3, MarkFacts
  <2>5. \A x \in owed' : x # o /\ call'[x] = call[x]
    BY <1>0, <2>2 DEF Active
  <2>6. slot[o] \in DOMAIN index => index[slot[o]].op = o
    BY <2>2 DEF Match, OwnerInv, Owns
  <2> QED
    BY <2>2, <2>4, <2>5, <2>6, OwedStays DEF Pending
<1>4. ASSUME RecoverPending PROVE OwedInv'
  <2>1. /\ rec = "idle" /\ rec' = "next" /\ recovered = FALSE /\ recovered' = FALSE
        /\ todo' = {<<s, index[s].op>> : s \in Pending(index)}
        /\ owed' = owed /\ call' = call
    BY <1>0, <1>4 DEF RecoverPending, callVars, TypeOK
  <2>2. ASSUME NEW o \in owed PROVE \E r \in todo' : r[2] = o
    <3>1. PICK s \in Pending(index) : index[s].op = o
      BY <2>1, <2>2 DEF OwedInv
    <3>2. <<s, index[s].op>> \in todo'
      BY <2>1
    <3> QED
      BY <3>1, <3>2
  <2> QED
    BY <1>0, <2>1, <2>2 DEF OwedInv
<1>5. ASSUME NEW r \in todo, RecoverApply(r) PROVE OwedInv'
  <2>1. /\ rec = "next" /\ IsNext(r) /\ rec' \in {"commit", "abort"}
        /\ owed' = owed \ {r[2]} /\ UNCHANGED <<call, todo, recovered>>
    BY <1>5 DEF RecoverApply, callVars
  <2>2. ASSUME NEW o \in owed' PROVE \E q \in todo' : q[2] = o /\ ~ IsNext(q)'
    <3>1. PICK q \in todo : q[2] = o
      BY <2>1, <2>2 DEF OwedInv
    <3>2. ASSUME IsNext(q) PROVE FALSE
      <4>1. q[1] = r[1]
        BY <1>0, <2>1, <3>2 DEF IsNext
      <4>2. q = r
        BY <4>1 DEF Match, OwnerInv
      <4> QED
        BY <2>1, <2>2, <3>1, <4>2
    <3> QED
      BY <2>1, <3>1, <3>2 DEF IsNext
  <2>3. recovered' => rec' = "idle"
    BY <2>1 DEF OwedInv
  <2> QED
    BY <1>0, <2>1, <2>2, <2>3 DEF OwedInv
<1>6. ASSUME NEW r \in todo, RecoverMark(r) PROVE OwedInv'
  <2>1. /\ rec \in {"commit", "abort"} /\ IsNext(r) /\ rec' = "next"
        /\ todo' = todo \ {r} /\ UNCHANGED <<call, recovered, owed>>
    BY <1>6 DEF RecoverMark, callVars
  <2>2. \A o \in owed' : \E q \in todo' : q[2] = o
    BY <2>1 DEF OwedInv
  <2>3. recovered' => rec' = "idle"
    BY <2>1 DEF OwedInv
  <2> QED
    BY <1>0, <2>1, <2>2, <2>3 DEF OwedInv
<1>7. ASSUME RecoverEnds PROVE OwedInv'
  <2>1. owed' = {} /\ rec' = "idle"
    BY <1>7 DEF RecoverEnds, OwedInv
  <2> QED
    BY <2>1 DEF OwedInv
<1>8. ASSUME FlushSync \/ UNCHANGED vars PROVE OwedInv'
  <2>1. UNCHANGED <<index, call, todo, rec, recovered, owed>>
    BY <1>8 DEF FlushSync, vars, callVars, recVars
  <2> QED
    BY <2>1, OwedStays
<1>9. ASSUME NEW cutoff \in 1..sequence, Checkpoint(cutoff) PROVE OwedInv'
  <2>1. /\ UNCHANGED <<call, todo, rec, recovered, owed>>
        /\ index' = [s \in DOMAIN index \ Compacted(cutoff) |-> index[s]]
    BY <1>9 DEF Checkpoint, callVars, recVars
  <2>2. \A s \in Pending(index) : s \in DOMAIN index /\ s \notin Compacted(cutoff)
    BY DEF Pending, Compacted
  <2> QED
    BY <2>1, <2>2, OwedStays DEF Pending
<1>10. ASSUME NEW cut \in durable..sequence, NEW tear \in BOOLEAN, Restart(cut, tear)
       PROVE  OwedInv'
  <2>1. /\ log' \subseteq log
        /\ \A s \in DOMAIN index' :
              /\ index'[s] \in Record
              /\ \E d \in log' : d.kind = "data" /\ d.seq = s
              /\ \A d \in log' : d.kind = "data" /\ d.seq = s => index'[s].op = d.op
    BY <1>0, <1>10, RestartFacts
  <2>2. /\ rec' = "idle" /\ recovered' = FALSE
        /\ owed' = {index'[s].op : s \in Pending(index')}
        /\ call' = [o \in Op |-> IF call[o] \in {"logged", "applied", "refused"}
                                 THEN "returned" ELSE call[o]]
    BY <1>10 DEF Restart
  <2>3. ASSUME NEW o \in owed'
        PROVE  /\ call'[o] = "returned"
               /\ \E s \in Pending(index') : index'[s].op = o
    <3>1. PICK s \in Pending(index') : index'[s].op = o
      BY <2>2
    <3>2. s \in DOMAIN index'
      BY <3>1 DEF Pending
    <3>3. PICK d \in log' : d.op = o
      BY <2>1, <3>1, <3>2
    <3>4. o \in Op /\ call[o] # "new"
      BY <2>1, <3>1, <3>2, <3>3 DEF Match, CallInv, Record
    <3>5. call[o] \in Call
      BY <1>0, <3>4
    <3> QED
      BY <2>2, <3>1, <3>4, <3>5 DEF Call
  <2> QED
    BY <2>2, <2>3 DEF OwedInv, Pending
<1> QED
  BY <1>1, <1>2, <1>3, <1>4, <1>5, <1>6, <1>7, <1>8, <1>9, <1>10
  DEF Next, WriteStep, RecoverStep

-----------------------------------------------------------------------------
(* The theorems.                                                           *)

(* The inductive invariant holds of every behaviour of the log.            *)
THEOREM InvCorrect == Spec => []Inv
<1>1. Init => TypeDisk /\ Match /\ OwedInv
  BY TypeDiskInit, MatchInit, OwedInit
<1>2. TypeDisk /\ Match /\ OwedInv /\ [Next]_vars => (TypeDisk /\ Match /\ OwedInv)'
  BY TypeDiskStep, MatchStep, OwedStep
<1>3. TypeDisk /\ Match /\ OwedInv => Inv
  BY DEF TypeDisk, Match, Inv
<1> QED
  BY <1>1, <1>2, <1>3, PTL DEF Spec

(* Files, index, calls and recovery stay in their types: in particular no  *)
(* record of the index has a number above the sequence.                    *)
THEOREM TypeCorrect == Spec => []TypeOK
<1>1. Inv => TypeOK
  BY DEF Inv
<1> QED
  BY <1>1, InvCorrect, PTL

(* Numbers rise along the segments and none is there twice, whatever       *)
(* crashes gave back.                                                      *)
THEOREM SequencesRiseCorrect == Spec => []SequencesRise
<1>1. Inv => SequencesRise
  BY DEF Inv, DiskInv
<1> QED
  BY <1>1, InvCorrect, PTL

(* A marker on disk was written for the record that replay settles by it.  *)
THEOREM MarkersMatchCorrect == Spec => []MarkersMatch
<1>1. Inv => MarkersMatch
  BY DEF Inv
<1> QED
  BY <1>1, InvCorrect, PTL

(* When Recover returns it has applied or refused everything that the      *)
(* start found pending on disk.                                            *)
THEOREM RecoveryIsCompleteCorrect == Spec => []RecoveryIsComplete
<1>1. Inv => RecoveryIsComplete
  BY DEF Inv, OwedInv, RecoveryIsComplete
<1> QED
  BY <1>1, InvCorrect, PTL

(* A step that only adds entries drops no marker.                          *)
LEMMA OnlyAdds == TypeOK /\ [Next]_vars => \/ log \subseteq log'
                                           \/ \E n \in 1..sequence : Checkpoint(n)
                                           \/ \E n \in durable..sequence, t \in BOOLEAN : Restart(n, t)
<1> SUFFICES ASSUME TypeOK, [Next]_vars,
                    ~ \E n \in 1..sequence : Checkpoint(n),
                    ~ \E n \in durable..sequence, t \in BOOLEAN : Restart(n, t)
             PROVE  log \subseteq log'
  OBVIOUS
<1>1. ASSUME NEW kind, NEW of, NEW op,
             Persist(kind, of, op) \/ PersistFails(kind, of, op)
      PROVE  log \subseteq log'
  BY <1>1, WriteGrows DEF Grows
<1>2. ASSUME NEW s, NEW kind, NEW op, Mark(s, kind, op) PROVE log \subseteq log'
  BY <1>1, <1>2 DEF Mark, MarkSucceeds, MarkFails, diskVars
<1>3. ASSUME NEW o \in Op, WriteStep(o) PROVE log \subseteq log'
  BY <1>1, <1>2, <1>3 DEF WriteStep, AppendRecord, AppendFails, ApplyWrite,
                          MarkApplied, MarkAborted, diskVars
<1>4. ASSUME RecoverStep PROVE log \subseteq log'
  BY <1>2, <1>4 DEF RecoverStep, RecoverPending, RecoverEnds, RecoverApply,
                    RecoverMark, diskVars
<1>5. ASSUME FlushSync \/ UNCHANGED vars PROVE log \subseteq log'
  BY <1>5 DEF FlushSync, vars, diskVars
<1> QED
  BY <1>3, <1>4, <1>5 DEF Next

(* No step takes the fsynced marker of a record and leaves the record: a   *)
(* checkpoint keeps whole segments, and what it keeps for a number above   *)
(* its bound keeps the marker, which lies in the same segment or a later   *)
(* one; a crash takes nothing that is fsynced and can be read.             *)
THEOREM MarkerGoesLastCorrect == Spec => MarkerGoesLast
<1>1. ASSUME Inv, [Next]_vars, NEW d \in log, d.kind = "data", d \in log', Settled(d, log)
      PROVE  \E m \in log' : m.kind # "data" /\ m.of = d.seq
  <2>0. /\ TypeOK /\ DiskInv
        /\ \A e \in log : e.seq \in Nat /\ e.seg \in Nat /\ e.seg <= cur
        /\ \A e, f \in log : e.seq < f.seq => e.seg <= f.seg
        /\ cur \in Nat /\ sequence \in Nat
    BY <1>1 DEF Inv, DiskInv, SequencesRise, TypeOK, Entry
  <2>1. PICK m \in log : /\ m.kind # "data" /\ m.of = d.seq
                         /\ m.seq <= durable /\ ~ m.blind
    BY <1>1 DEF Settled
  <2>2. d.seq < m.seq /\ d.seg <= m.seg
    BY <1>1, <2>0, <2>1 DEF DiskInv
  <2>3. CASE log \subseteq log'
    BY <2>1, <2>3
  <2>4. ASSUME NEW n \in 1..sequence, Checkpoint(n) PROVE m \in log'
    <3>1. PICK b \in {0} \cup {s \in Compacted(n) : index[s].state = "applied"} :
             log' = Unpruned(b)
      BY <2>4 DEF Checkpoint
    <3>2. b \in Nat
      BY <2>0, <3>1 DEF Compacted, TypeOK
    <3>3. CASE d.seg = cur
      <4>1. m.seg = cur
        BY <2>0, <2>1, <2>2, <3>3
      <4> QED
        BY <2>1, <3>1, <4>1 DEF Unpruned
    <3>4. ASSUME NEW f \in log, f.seg = d.seg, f.seq > b PROVE m \in log'
      <4>1. CASE m.seg = d.seg
        BY <2>1, <3>1, <3>4, <4>1 DEF Unpruned
      <4>2. CASE m.seg # d.seg
        <5>1. f.seg < m.seg
          BY <2>0, <2>1, <2>2, <3>4, <4>2
        <5>2. f.seq < m.seq
          <6>1. m.seq < f.seq => m.seg <= f.seg
            BY <2>0, <2>1
          <6>2. m.seq = f.seq => m = f
            BY <2>0, <2>1 DEF DiskInv, SequencesRise
          <6> QED
            BY <2>0, <2>1, <5>1, <6>1, <6>2
        <5>3. m.seq > b
          BY <2>0, <2>1, <3>2, <3>4, <5>2
        <5> QED
          BY <2>1, <3>1, <5>3 DEF Unpruned
      <4> QED
        BY <4>1, <4>2
    <3> QED
      BY <1>1, <3>1, <3>3, <3>4 DEF Unpruned
  <2>5. ASSUME NEW n \in durable..sequence, NEW t \in BOOLEAN, Restart(n, t)
        PROVE  m \in log'
    <3>1. log' = {e \in log : e.seq <= n /\ ~ e.blind}
      BY <2>5 DEF Restart
    <3>2. durable \in Nat /\ durable <= n
      BY <2>0 DEF TypeOK
    <3> QED
      BY <2>0, <2>1, <3>1, <3>2
  <2> QED
    BY <1>1, <2>0, <2>1, <2>3, <2>4, <2>5, OnlyAdds
<1>2. Inv /\ [Next]_vars
        => [\A d \in log : d.kind = "data" /\ d \in log' /\ Settled(d, log)
               => \E m \in log' : m.kind # "data" /\ m.of = d.seq]_vars
  BY <1>1
<1> QED
  BY <1>2, InvCorrect, PTL DEF Spec, MarkerGoesLast
-----------------------------------------------------------------------------
(* Pending records and their DATA entries.                                 *)

(* A write, successful or not, drops no entry and takes back no fsync.     *)
LEMMA WriteKeeps ==
    ASSUME TypeOK, NEW kind, NEW of, NEW op,
           Persist(kind, of, op) \/ PersistFails(kind, of, op)
    PROVE  log \subseteq log' /\ durable <= durable'
<1>1. log \subseteq log'
  BY WriteGrows DEF Grows
<1>2. sequence \in Nat /\ durable \in 0..sequence
  BY DEF TypeOK
<1>3. \A b \in BOOLEAN : Flushed(b) \in Nat /\ durable <= Flushed(b)
  BY <1>2 DEF Flushed
<1>4. PICK b \in BOOLEAN : durable' \in {sequence + 1, Flushed(b)}
  <2>1. CASE Persist(kind, of, op)
    <3>1. PICK b \in BOOLEAN : durable' \in Synced(sequence + 1, Flushed(b))
      BY <2>1 DEF Persist
    <3>2. Synced(sequence + 1, Flushed(b)) \subseteq {sequence + 1, Flushed(b)}
      BY SyncModeIsKnown DEF Synced
    <3> QED
      BY <3>1, <3>2
  <2>2. CASE PersistFails(kind, of, op)
    BY <2>2 DEF PersistFails
  <2> QED
    BY <2>1, <2>2
<1> QED
  BY <1>1, <1>2, <1>3, <1>4

(* Marking a record makes none pending, keeps every entry and every fsync. *)
LEMMA MarkKeeps ==
    ASSUME TypeOK, NEW s \in Nat, NEW kind \in {"commit", "abort"}, NEW o,
           Mark(s, kind, o)
    PROVE  /\ Pending(index') \subseteq Pending(index)
           /\ log \subseteq log' /\ durable <= durable'
<1>1. durable \in Nat
  BY DEF TypeOK
<1>2. CASE MarkSucceeds(s, kind, o)
  <2>1. s \in DOMAIN index /\ index' = [index EXCEPT ![s].state = Outcome(kind)]
    BY <1>2 DEF MarkSucceeds
  <2>2. Outcome(kind) # "pending"
    BY DEF Outcome
  <2>3. index[s] \in Record
    BY <2>1 DEF TypeOK
  <2>4. index'[s].state = Outcome(kind)
    BY <2>1, <2>3 DEF Record
  <2>5. DOMAIN index' = DOMAIN index /\ \A q \in DOMAIN index \ {s} : index'[q] = index[q]
    BY <2>1
  <2>6. Pending(index') \subseteq Pending(index)
    BY <2>2, <2>4, <2>5 DEF Pending
  <2> QED
    BY <1>2, <2>6, WriteKeeps DEF MarkSucceeds
<1>3. CASE MarkFails(s, kind, o)
  BY <1>1, <1>3, WriteKeeps DEF MarkFails, diskVars
<1> QED
  BY <1>2, <1>3 DEF Mark

(* What a step does to what is logged, fsynced and pending, other than a   *)
(* new record, a checkpoint and a restart: it drops nothing.               *)
Keeps == /\ Pending(index') \subseteq Pending(index)
         /\ log \subseteq log' /\ durable <= durable'

LEMMA StepKeeps ==
    ASSUME TypeOK, [Next]_vars
    PROVE  \/ Keeps /\ slot' = slot
              /\ \A o \in Op : call'[o] \in Active => call[o] \in Active
           \/ \E o \in Op : AppendRecord(o)
           \/ \E n \in 1..sequence : Checkpoint(n)
           \/ Restarts
<1> DEFINE Same == \A o \in Op : call'[o] \in Active => call[o] \in Active
<1>1. /\ durable \in Nat /\ sequence \in Nat /\ durable <= sequence
      /\ call \in [Op -> Call] /\ slot \in [Op -> Nat]
  BY DEF TypeOK
<1>2. ASSUME UNCHANGED <<log, durable, index>> PROVE Keeps
  BY <1>1, <1>2 DEF Keeps, Pending
<1>3. ASSUME NEW o \in Op, WriteStep(o), ~ AppendRecord(o) PROVE Keeps /\ slot' = slot /\ Same
  <2>1. CASE AppendFails(o)
    <3>1. PersistFails("data", sequence + 1, o) /\ index' = index /\ slot' = slot
          /\ call' = [call EXCEPT ![o] = "returned"]
      BY <2>1 DEF AppendFails, Goto
    <3>2. log \subseteq log' /\ durable <= durable'
      BY <3>1, WriteKeeps
    <3> QED
      BY <1>1, <3>1, <3>2 DEF Keeps, Active
  <2>2. CASE ApplyWrite(o)
    <3>1. UNCHANGED <<log, durable, index, slot>> /\ call[o] = "logged"
      BY <2>2 DEF ApplyWrite, diskVars
    <3>2. Same
      BY <1>1, <2>2 DEF ApplyWrite, Goto, Active
    <3> QED
      BY <1>2, <3>1, <3>2
  <2>3. CASE MarkApplied(o) \/ MarkAborted(o)
    <3>1. slot[o] \in Nat /\ slot' = slot /\ call' = [call EXCEPT ![o] = "returned"]
      BY <1>1, <2>3 DEF MarkApplied, MarkAborted, Goto
    <3>2. Mark(slot[o], "commit", o) \/ Mark(slot[o], "abort", o)
      BY <2>3 DEF MarkApplied, MarkAborted
    <3>3. Keeps
      BY <3>1, <3>2, MarkKeeps DEF Keeps
    <3> QED
      BY <1>1, <3>1, <3>3 DEF Active
  <2> QED
    BY <1>3, <2>1, <2>2, <2>3 DEF WriteStep
<1>4. CASE RecoverStep
  <2>1. UNCHANGED <<call, slot>>
    BY <1>4 DEF RecoverStep, RecoverPending, RecoverEnds, RecoverApply, RecoverMark, callVars
  <2>2. ASSUME NEW r \in todo, RecoverMark(r) PROVE Keeps
    <3>1. r[1] \in Nat /\ rec \in {"commit", "abort"} /\ Mark(r[1], rec, r[2])
      BY <2>2 DEF RecoverMark, TypeOK
    <3> QED
      BY <3>1, MarkKeeps DEF Keeps
  <2>3. ASSUME RecoverPending \/ RecoverEnds \/ \E r \in todo : RecoverApply(r)
        PROVE  Keeps
    <3>1. UNCHANGED <<log, durable, index>>
      BY <2>3 DEF RecoverPending, RecoverEnds, RecoverApply, diskVars
    <3> QED
      BY <1>2, <3>1
  <2> QED
    BY <1>4, <2>1, <2>2, <2>3 DEF RecoverStep
<1>5. CASE FlushSync
  BY <1>1, <1>5 DEF FlushSync, Keeps, Pending, callVars
<1>6. CASE UNCHANGED vars
  BY <1>2, <1>6 DEF vars, diskVars, callVars
<1> QED
  BY <1>3, <1>4, <1>5, <1>6 DEF Next, Restarts

(* A checkpoint that does not overtake keeps the entries of the pending    *)
(* records: each is above the bound up to which segments are pruned.       *)
LEMMA CheckpointKeepsPending ==
    ASSUME TypeOK, DiskInv, PendingIsLogged, NEW n \in 1..sequence, Checkpoint(n),
           ~ Overtakes
    PROVE  PendingIsLogged'
<1>1. PICK b \in {0} \cup {s \in Compacted(n) : index[s].state = "applied"} :
         log' = Unpruned(b)
  BY DEF Checkpoint
<1>2. index' = [s \in DOMAIN index \ Compacted(n) |-> index[s]]
  BY DEF Checkpoint
<1> SUFFICES ASSUME NEW s \in Pending(index')
             PROVE  \E e \in log' : e.kind = "data" /\ e.seq = s
  BY DEF PendingIsLogged
<1>3. s \in Pending(index) /\ s \in DOMAIN index
  BY <1>2 DEF Pending
<1>4. PICK e \in log : e.kind = "data" /\ e.seq = s
  BY <1>3 DEF PendingIsLogged
<1>5. s \in Nat \ {0} /\ sequence \in Nat /\ b \in Nat
  BY <1>1, <1>3 DEF TypeOK, Compacted
<1>6. e.seq > b
  <2>1. CASE b = 0
    BY <1>4, <1>5, <2>1
  <2>2. CASE b \in Compacted(n) /\ index[b].state = "applied"
    <3>1. ~ s < b
      BY <1>3, <2>2 DEF Overtakes
    <3>2. s # b
      BY <1>3, <2>2 DEF Pending
    <3> QED
      BY <1>4, <1>5, <3>1, <3>2
  <2> QED
    BY <1>1, <2>1, <2>2
<1>7. e \in log'
  BY <1>1, <1>6 DEF Unpruned
<1> QED
  BY <1>4, <1>7

(* Every step but an overtaking checkpoint keeps the DATA entries of the   *)
(* pending records: a restart finds in the files what it makes pending.    *)
LEMMA PendingLoggedStep ==
    ASSUME TypeOK, DiskInv, PendingIsLogged, [Next]_vars, ~ Overtakes
    PROVE  PendingIsLogged'
<1>1. CASE Keeps
  BY <1>1 DEF Keeps, PendingIsLogged
<1>2. ASSUME NEW o \in Op, AppendRecord(o) PROVE PendingIsLogged'
  <2>1. /\ Persist("data", sequence + 1, o) /\ sequence' = sequence + 1
        /\ index' = [s \in DOMAIN index \cup {sequence'} |->
                       IF s = sequence' THEN [op |-> o, state |-> "pending"] ELSE index[s]]
    BY <1>2 DEF AppendRecord, Persist, TakeNumber
  <2>2. log \subseteq log'
    BY <2>1, WriteKeeps
  <2> DEFINE e == NewEntry("data", sequence + 1, o)
  <2>3. e \in log' /\ e.kind = "data" /\ e.seq = sequence'
    BY <2>1 DEF Persist, WriteEntry, NewEntry
  <2>4. \A s \in Pending(index') : s = sequence' \/ s \in Pending(index)
    BY <2>1 DEF Pending
  <2> QED
    BY <2>2, <2>3, <2>4 DEF PendingIsLogged
<1>3. CASE Restarts
  <2>1. PICK cut \in durable..sequence, tear \in BOOLEAN : Restart(cut, tear)
    BY <1>3 DEF Restarts
  <2>2. \A s \in DOMAIN index' : \E d \in log' : d.kind = "data" /\ d.seq = s
    BY <2>1, RestartFacts
  <2> QED
    BY <2>2 DEF PendingIsLogged, Pending
<1> QED
  BY <1>1, <1>2, <1>3, CheckpointKeepsPending, StepKeeps

(* A pending record loses its DATA entry to an overtaking checkpoint, and  *)
(* to no write, no recovery and no crash.                                  *)
THEOREM OnlyOvertakingForgetsCorrect == Spec => OnlyOvertakingForgets
<1>1. Inv /\ [Next]_vars => [PendingIsLogged /\ ~ PendingIsLogged' => Overtakes]_vars
  BY PendingLoggedStep DEF Inv
<1> QED
  BY <1>1, InvCorrect, PTL DEF Spec, OnlyOvertakingForgets

(* Nothing is on disk or in the index initially.                           *)
LEMMA PendingLoggedInit == Init => PendingIsLogged
BY DEF Init, PendingIsLogged, Pending

(* Where no checkpoint overtakes, pruning is what the doc says: a record   *)
(* that is pending has its DATA entry in some segment.                     *)
THEOREM PendingIsLoggedIfOrdered == SpecOrdered => []PendingIsLogged
<1>1. SpecOrdered => Spec
  <2>1. [Next /\ ~ Overtakes]_vars => [Next]_vars
    OBVIOUS
  <2> QED
    BY <2>1, PTL DEF SpecOrdered, Spec
<1>2. Inv /\ PendingIsLogged /\ [Next /\ ~ Overtakes]_vars => PendingIsLogged'
  <2>1. CASE UNCHANGED vars
    BY <2>1 DEF vars, diskVars, PendingIsLogged, Pending
  <2>2. CASE Next /\ ~ Overtakes
    BY <2>2, PendingLoggedStep DEF Inv
  <2> QED
    BY <2>1, <2>2
<1> QED
  BY <1>1, <1>2, PendingLoggedInit, InvCorrect, PTL DEF SpecOrdered
-----------------------------------------------------------------------------
(* What a crash finds of the writes that it interrupts.                    *)

(* With SyncMode immediate, no write gets into the store before its entry  *)
(* is fsynced behind entries that can be read, and none loses it but to an *)
(* overtaking checkpoint.                                                  *)
LEMMA WriteAheadStep ==
    ASSUME Inv, PendingIsLogged, WriteAhead, [Next]_vars, ~ Overtakes, ~ torn'
    PROVE  WriteAhead'
<1> DEFINE Safe(o, d) == /\ d.kind = "data" /\ d.seq = slot[o] /\ d.op = o
                         /\ d.seq <= durable /\ ~ d.blind
<1> SUFFICES ASSUME SyncMode = "immediate", NEW o \in Op, Unsettled(o)'
             PROVE  \E d \in log' : Safe(o, d)'
  BY DEF WriteAhead
<1>0. /\ TypeOK /\ DiskInv
      /\ sequence \in Nat /\ durable \in 0..sequence /\ durable \in Nat /\ durable' \in Nat
      /\ call \in [Op -> Call] /\ slot \in [Op -> Nat]
      /\ \A e \in log : e.seq \in Nat
  BY TypeDiskStep DEF Inv, TypeDisk, TypeOK, Entry
<1>1. ASSUME Unsettled(o), slot'[o] = slot[o], log \subseteq log', durable <= durable'
      PROVE  \E d \in log' : Safe(o, d)'
  <2>1. PICK d \in log : Safe(o, d)
    BY <1>1 DEF WriteAhead
  <2> QED
    BY <1>0, <1>1, <2>1
<1>2. CASE /\ Keeps /\ slot' = slot
           /\ \A p \in Op : call'[p] \in Active => call[p] \in Active
  BY <1>1, <1>2 DEF Keeps, Unsettled, Active
<1>3. ASSUME NEW p \in Op, AppendRecord(p) PROVE \E d \in log' : Safe(o, d)'
  <2>1. /\ Persist("data", sequence + 1, p) /\ sequence' = sequence + 1
        /\ index' = [s \in DOMAIN index \cup {sequence'} |->
                       IF s = sequence' THEN [op |-> p, state |-> "pending"] ELSE index[s]]
        /\ slot' = [slot EXCEPT ![p] = sequence']
        /\ call' = [call EXCEPT ![p] = "logged"]
    BY <1>3 DEF AppendRecord, Persist, TakeNumber, Goto
  <2>2. log \subseteq log' /\ durable <= durable'
    BY <1>0, <2>1, WriteKeeps
  <2>3. CASE o = p
    <3> DEFINE e == NewEntry("data", sequence + 1, p)
    <3>1. e \in log' /\ e.kind = "data" /\ e.seq = sequence' /\ e.op = p /\ e.blind = torn'
      BY <2>1 DEF Persist, WriteEntry, NewEntry
    <3>2. durable' = sequence + 1
      BY <2>1 DEF Persist, Synced
    <3>3. slot'[o] = sequence'
      BY <1>0, <2>1, <2>3
    <3> QED
      BY <1>0, <2>1, <2>3, <3>1, <3>2, <3>3
  <2>4. CASE o # p
    <3>1. call'[o] = call[o] /\ slot'[o] = slot[o]
      BY <1>0, <2>1, <2>4
    <3>2. Owns(o, slot[o])
      BY <3>1 DEF Unsettled, Active, Inv, OwnerInv
    <3>3. slot[o] # sequence'
      BY <1>0, <2>1, <3>2 DEF Owns
    <3>4. slot[o] \in Pending(index)
      BY <2>1, <3>1, <3>3 DEF Unsettled, Pending
    <3> QED
      BY <1>1, <2>2, <3>1, <3>4 DEF Unsettled
  <2> QED
    BY <2>3, <2>4
<1>4. ASSUME NEW n \in 1..sequence, Checkpoint(n) PROVE \E d \in log' : Safe(o, d)'
  <2>1. /\ log' \subseteq log /\ durable' = durable /\ call' = call /\ slot' = slot
        /\ index' = [s \in DOMAIN index \ Compacted(n) |-> index[s]]
    BY <1>4 DEF Checkpoint, callVars, Unpruned
  <2>2. slot[o] \in Pending(index) /\ slot[o] \in Pending(index') /\ Unsettled(o)
    BY <2>1 DEF Unsettled, Pending
  <2>3. PICK e \in log' : e.kind = "data" /\ e.seq = slot[o]
    BY <1>0, <1>4, <2>2, PendingLoggedStep DEF PendingIsLogged
  <2>4. PICK d \in log : Safe(o, d)
    BY <2>2 DEF WriteAhead
  <2>5. d = e
    BY <1>0, <2>1, <2>3, <2>4 DEF DiskInv, SequencesRise
  <2> QED
    BY <2>1, <2>3, <2>4, <2>5
<1>5. CASE Restarts
  <2>1. call'[o] \notin Active
    BY <1>0, <1>5 DEF Restarts, Restart, Active, Call
  <2> QED
    BY <2>1 DEF Unsettled, Active
<1> QED
  BY <1>0, <1>2, <1>3, <1>4, <1>5, StepKeeps

(* No write is under way initially.                                        *)
LEMMA WriteAheadInit == Init => WriteAhead
BY DEF Init, WriteAhead, Unsettled

(* Where no checkpoint overtakes and no crash tears an entry, the steps    *)
(* are those of the log.                                                   *)
LEMMA UntornIsOrdered == SpecOrderedUntorn => SpecOrdered
<1>1. [Next /\ ~ Overtakes /\ ~ torn']_vars => [Next /\ ~ Overtakes]_vars
  OBVIOUS
<1> QED
  BY <1>1, PTL DEF SpecOrderedUntorn, SpecOrdered

(* But for the two findings, immediate syncing means write-ahead: what is  *)
(* let into the store has its entry where recovery reads it.               *)
THEOREM WriteAheadIfOrderedUntorn == SpecOrderedUntorn => []WriteAhead
<1>1. SpecOrdered => Spec
  <2>1. [Next /\ ~ Overtakes]_vars => [Next]_vars
    OBVIOUS
  <2> QED
    BY <2>1, PTL DEF SpecOrdered, Spec
<1>2. Inv /\ PendingIsLogged /\ WriteAhead /\ [Next /\ ~ Overtakes /\ ~ torn']_vars
          => WriteAhead'
  <2>1. CASE UNCHANGED vars
    BY <2>1 DEF vars, diskVars, callVars, WriteAhead, Unsettled, Pending
  <2>2. CASE Next /\ ~ Overtakes /\ ~ torn'
    BY <2>2, WriteAheadStep
  <2> QED
    BY <2>1, <2>2
<1> QED
  BY <1>1, <1>2, WriteAheadInit, UntornIsOrdered, PendingIsLoggedIfOrdered, InvCorrect, PTL
  DEF SpecOrderedUntorn

(* ... so that a restart finds the record of every write it interrupts.    *)
THEOREM CrashKeepsWritesIfOrderedUntorn == SpecOrderedUntorn => CrashKeepsWrites
<1>1. SpecOrderedUntorn => Spec
  <2>1. [Next /\ ~ Overtakes]_vars => [Next]_vars
    OBVIOUS
  <2> QED
    BY <2>1, UntornIsOrdered, PTL DEF SpecOrdered, Spec
<1>2. ASSUME Inv, WriteAhead, SyncMode = "immediate", Restarts, NEW o \in Op, Unsettled(o)
      PROVE  slot[o] \in DOMAIN index' /\ index'[slot[o]].op = o
  <2>1. TypeOK /\ DiskInv /\ \A e \in log : e.seq \in Nat
    BY <1>2 DEF Inv, TypeOK, Entry
  <2>2. PICK cut \in durable..sequence, tear \in BOOLEAN : Restart(cut, tear)
    BY <1>2 DEF Restarts
  <2>3. PICK d \in log : /\ d.kind = "data" /\ d.seq = slot[o] /\ d.op = o
                        /\ d.seq <= durable /\ ~ d.blind
    BY <1>2 DEF WriteAhead
  <2>4. durable \in Nat /\ sequence \in Nat /\ durable <= cut
    BY <2>1, <2>2 DEF TypeOK
  <2>5. d.seq <= cut
    BY <2>1, <2>3, <2>4
  <2>6. /\ log' = {e \in log : e.seq <= cut /\ ~ e.blind}
        /\ index' = Replay(log')
    BY <2>2 DEF Restart
  <2>7. d \in log'
    BY <2>3, <2>5, <2>6
  <2>8. slot[o] \in DOMAIN index'
    BY <2>3, <2>6, <2>7 DEF Replay
  <2> QED
    BY <2>1, <2>2, <2>3, <2>7, <2>8, RestartFacts
<1>3. Inv /\ WriteAhead /\ [Next]_vars
        => [SyncMode = "immediate" /\ Restarts =>
               \A o \in Op : Unsettled(o) => /\ slot[o] \in DOMAIN index'
                                             /\ index'[slot[o]].op = o]_vars
  BY <1>2
<1> QED
  BY <1>1, <1>3, WriteAheadIfOrderedUntorn, InvCorrect, PTL DEF Spec, CrashKeepsWrites
================================================================================
