------------------------- MODULE SchedulerEngineProofs -------------------------
(***************************************************************************)
(* What the run of SchedulerEngine checks on two workloads and two         *)
(* snapshots, for any finite set of workloads, any priorities and any      *)
(* number of snapshots, crashes and restarts.                              *)
(***************************************************************************)
EXTENDS SchedulerEngine, FiniteSetTheorems, TLAPS

-----------------------------------------------------------------------------
(* Lists                                                                   *)

(* A repetition-free list of the members of S holds them all.              *)
LEMMA ListIsPermutation ==
    ASSUME NEW S, IsFiniteSet(S), NEW l \in Lists(S)
    PROVE  /\ l \in Seq(S) /\ DOMAIN l = 1..Cardinality(S) /\ Cardinality(S) \in Nat
           /\ NoRepeats(l) /\ Elements(l) = S
<1>1. Cardinality(S) \in Nat
  BY FS_CardinalityType
<1>2. l \in [1..Cardinality(S) -> S] /\ DOMAIN l = 1..Cardinality(S) /\ NoRepeats(l)
  BY DEF Lists, NoRepeats
<1>3. l \in Seq(S)
  BY <1>1, <1>2
<1>4. l \in Injection(1..Cardinality(S), S)
  BY <1>2 DEF Injection, IsInjective, NoRepeats
<1>5. l \in Surjection(1..Cardinality(S), S)
  <2>1. Cardinality(1..Cardinality(S)) = Cardinality(S)
    <3>1. 1 \in Int /\ Cardinality(S) \in Int /\ Cardinality(S) - 1 + 1 = Cardinality(S)
      BY <1>1
    <3>2. Cardinality(1..Cardinality(S)) =
             IF 1 > Cardinality(S) THEN 0 ELSE Cardinality(S) - 1 + 1
      BY <3>1, FS_Interval
    <3> QED
      BY <1>1, <3>2
  <2> QED
    BY <1>4, <2>1, FS_Injection
<1>6. Elements(l) = S
  BY <1>2, <1>5 DEF Surjection, Elements
<1> QED
  BY <1>1, <1>2, <1>3, <1>6

(* Picking positions of a sequence, in any order, without repetition.      *)
LEMMA Picked ==
    ASSUME NEW q \in Seq(Workload), NEW I \in SUBSET DOMAIN q, NEW k \in Lists(I)
    PROVE  LET r == [i \in DOMAIN k |-> q[k[i]]]
           IN  /\ r \in Seq(Workload)
               /\ Elements(r) = {q[i] : i \in I}
               /\ NoRepeats(q) => NoRepeats(r)
<1> DEFINE r == [i \in DOMAIN k |-> q[k[i]]]
<1>1. IsFiniteSet(I)
  <2>1. 1 \in Int /\ Len(q) \in Int /\ DOMAIN q = 1..Len(q)
    OBVIOUS
  <2>2. IsFiniteSet(DOMAIN q)
    BY <2>1, FS_Interval
  <2> QED
    BY <2>2, FS_Subset
<1>2. /\ DOMAIN k = 1..Cardinality(I) /\ Cardinality(I) \in Nat
      /\ NoRepeats(k) /\ Elements(k) = I
  BY <1>1, ListIsPermutation
<1>3. \A i \in DOMAIN k : k[i] \in I /\ q[k[i]] \in Workload
  BY <1>2 DEF Elements
<1>4. r \in Seq(Workload)
  BY <1>2, <1>3
<1>5. Elements(r) = {q[i] : i \in I}
  BY <1>2 DEF Elements
<1>6. NoRepeats(q) => NoRepeats(r)
  BY <1>2, <1>3 DEF NoRepeats
<1> QED
  BY <1>4, <1>5, <1>6

LEMMA AppendList ==
    ASSUME NEW q \in Seq(Workload), NEW w \in Workload
    PROVE  /\ Append(q, w) \in Seq(Workload)
           /\ Elements(Append(q, w)) = Elements(q) \cup {w}
           /\ NoRepeats(q) /\ w \notin Elements(q) => NoRepeats(Append(q, w))
<1>1. /\ DOMAIN q = 1..Len(q) /\ Len(q) \in Nat
      /\ DOMAIN Append(q, w) = 1..Len(q) + 1
      /\ \A i \in 1..Len(q) : Append(q, w)[i] = q[i]
      /\ Append(q, w)[Len(q) + 1] = w
  OBVIOUS
<1>2. Elements(Append(q, w)) = Elements(q) \cup {w}
  BY <1>1 DEF Elements
<1>3. NoRepeats(q) /\ w \notin Elements(q) => NoRepeats(Append(q, w))
  BY <1>1 DEF Elements, NoRepeats
<1> QED
  BY <1>2, <1>3

LEMMA JoinLists ==
    ASSUME NEW q \in Seq(Workload), NEW r \in Seq(Workload)
    PROVE  /\ q \o r \in Seq(Workload)
           /\ Elements(q \o r) = Elements(q) \cup Elements(r)
           /\ NoRepeats(q) /\ NoRepeats(r) /\ Elements(q) \cap Elements(r) = {}
                => NoRepeats(q \o r)
<1>1. /\ DOMAIN q = 1..Len(q) /\ Len(q) \in Nat
      /\ DOMAIN r = 1..Len(r) /\ Len(r) \in Nat
      /\ DOMAIN (q \o r) = 1..Len(q) + Len(r)
      /\ \A i \in 1..Len(q) : (q \o r)[i] = q[i]
      /\ \A i \in 1..Len(r) : (q \o r)[Len(q) + i] = r[i]
  OBVIOUS
<1>2. \A i \in 1..Len(q) + Len(r) :
         i \in 1..Len(q) \/ (i - Len(q) \in 1..Len(r) /\ i = Len(q) + (i - Len(q)))
  BY <1>1
<1>3. Elements(q \o r) = Elements(q) \cup Elements(r)
  <2>1. \A i \in 1..Len(q) : i \in DOMAIN (q \o r)
    BY <1>1
  <2>2. \A i \in 1..Len(r) : Len(q) + i \in DOMAIN (q \o r)
    BY <1>1
  <2>3. Elements(q) \cup Elements(r) \subseteq Elements(q \o r)
    BY <1>1, <2>1, <2>2 DEF Elements
  <2>4. ASSUME NEW i \in 1..Len(q) + Len(r)
        PROVE  (q \o r)[i] \in Elements(q) \cup Elements(r)
    <3>1. CASE i \in 1..Len(q)
      BY <1>1, <3>1 DEF Elements
    <3>2. CASE i \notin 1..Len(q)
      BY <1>1, <1>2, <3>2 DEF Elements
    <3> QED
      BY <3>1, <3>2
  <2> QED
    BY <1>1, <2>3, <2>4 DEF Elements
<1>4. ASSUME NoRepeats(q), NoRepeats(r), Elements(q) \cap Elements(r) = {},
             NEW i \in 1..Len(q) + Len(r), NEW j \in 1..Len(q) + Len(r),
             (q \o r)[i] = (q \o r)[j]
      PROVE  i = j
  <2>1. CASE i \in 1..Len(q) /\ j \in 1..Len(q)
    BY <1>1, <1>4, <2>1 DEF NoRepeats
  <2>2. CASE i \notin 1..Len(q) /\ j \notin 1..Len(q)
    <3> DEFINE m == i - Len(q)
               n == j - Len(q)
    <3>1. m \in 1..Len(r) /\ n \in 1..Len(r) /\ i = Len(q) + m /\ j = Len(q) + n
      BY <1>2, <1>1, <1>4, <2>2
    <3> HIDE DEF m, n
    <3>2. r[m] = r[n]
      BY <1>1, <1>4, <3>1
    <3>3. m = n
      BY <1>1, <1>4, <3>1, <3>2 DEF NoRepeats
    <3> QED
      BY <3>1, <3>3
  <2>3. CASE i \in 1..Len(q) /\ j \notin 1..Len(q)
    <3> DEFINE n == j - Len(q)
    <3>1. n \in 1..Len(r) /\ j = Len(q) + n
      BY <1>2, <1>1, <1>4, <2>3
    <3> HIDE DEF n
    <3>2. q[i] = r[n]
      BY <1>1, <1>4, <2>3, <3>1
    <3> QED
      BY <1>1, <1>4, <2>3, <3>1, <3>2 DEF Elements
  <2>4. CASE i \notin 1..Len(q) /\ j \in 1..Len(q)
    <3> DEFINE m == i - Len(q)
    <3>1. m \in 1..Len(r) /\ i = Len(q) + m
      BY <1>2, <1>1, <1>4, <2>4
    <3> HIDE DEF m
    <3>2. q[j] = r[m]
      BY <1>1, <1>4, <2>4, <3>1
    <3> QED
      BY <1>1, <1>4, <2>4, <3>1, <3>2 DEF Elements
  <2> QED
    BY <2>1, <2>2, <2>3, <2>4
<1> QED
  BY <1>1, <1>3, <1>4 DEF NoRepeats

-----------------------------------------------------------------------------
(* The inductive invariant                                                 *)

Known == {"queued", "scheduled", "preempted"}

(* Nothing of an earlier process is left when a process starts.            *)
FreshProcess ==
    /\ process = "down" <=> pc = "down"
    /\ pc = "down" => queue = <<>>
    /\ pc \in {"down", "starting"} =>
          \A w \in Workload : status[w] \notin {"scheduled", "preempted"}
    /\ pc \in {"down", "starting"} => running = {} /\ version = 0 /\ draft = NoSnapshot /\ ~lossy
    /\ pc = "starting" => Elements(queue) \cap Work(snap) = {}

(* A request works on a workload of this process.                          *)
HandlersFollow ==
    \A w \in Workload : /\ handler[w] # "idle" => status[w] \in Known
                        /\ handler[w] = "scheduled" => status[w] \in {"scheduled", "preempted"}

SnapshotsAreSound ==
    \A s \in {snap, draft} : /\ s.version <= MaxVersion
                             /\ s.version = 0 => Work(s) = {}
                             /\ \A w \in Work(s) : status[w] # "new"

VersionsFollow ==
    /\ pc \in {"saving", "final"} => draft.version = version
    /\ pc \in {"loop", "exited"} /\ ~lossy => version >= snap.version
    /\ pc \in {"saving", "final"} /\ ~lossy => version > snap.version

(* What is stored is in the process, and what is about to be stored lacks  *)
(* nothing of it but what was preempted.                                   *)
SavedIsKnown ==
    /\ pc \in {"saving", "final"} => \A w \in Work(draft) : status[w] \in Known
    /\ pc \in {"loop", "saving", "final", "exited"} /\ ~lossy
          => \A w \in Work(snap) : status[w] \in Known
    /\ pc \in {"saving", "final"} /\ ~lossy
          => \A w \in Work(snap) \ Work(draft) : status[w] = "preempted"

FinalCopy ==
    pc \in {"final", "exited"} =>
        \A w \in Workload : status[w] \in {"queued", "scheduled"} => w \in Work(draft) \cup late

EngineInv == /\ TypeOK /\ OnePlace /\ FreshProcess /\ HandlersFollow
             /\ SnapshotsAreSound /\ VersionsFollow /\ SavedIsKnown /\ FinalCopy

LEMMA EngineInit == Init => EngineInv
<1> SUFFICES ASSUME Init PROVE EngineInv
  OBVIOUS
<1>1. <<>> \in Seq(Workload) /\ Elements(<<>>) = {} /\ NoRepeats(<<>>)
  BY DEF Elements, NoRepeats
<1>2. NoSnapshot \in Snapshot /\ Work(NoSnapshot) = {} /\ NoSnapshot.version = 0
  BY <1>1 DEF NoSnapshot, Snapshot, Work
<1>3. MaxVersion \in Nat /\ 0 \in 0..MaxVersion /\ 0 <= MaxVersion
  BY MaxVersionIsNat
<1>4. TypeOK
  BY <1>1, <1>2, <1>3 DEF Init, TypeOK, Handler
<1>5. OnePlace
  BY <1>1 DEF Init, OnePlace, NoSnapshot
<1>6. FreshProcess /\ HandlersFollow /\ VersionsFollow /\ SavedIsKnown /\ FinalCopy
  BY <1>1, <1>2 DEF Init, FreshProcess, HandlersFollow, VersionsFollow, SavedIsKnown, FinalCopy
<1>7. SnapshotsAreSound
  BY <1>2, <1>3 DEF Init, SnapshotsAreSound
<1> QED
  BY <1>4, <1>5, <1>6, <1>7 DEF EngineInv

-----------------------------------------------------------------------------
(* main and the handlers                                                   *)

LEMMA StartKeeps == ASSUME EngineInv, Start, UNCHANGED placeable PROVE EngineInv'
<1> USE DEF EngineInv, Start, memory, database
<1>1. TypeOK' /\ OnePlace'
  BY DEF TypeOK, OnePlace
<1>2. FreshProcess'
  BY DEF FreshProcess, Elements, Work
<1>3. HandlersFollow' /\ SnapshotsAreSound' /\ VersionsFollow' /\ SavedIsKnown' /\ FinalCopy'
  BY DEF HandlersFollow, SnapshotsAreSound, VersionsFollow, SavedIsKnown, FinalCopy
<1> QED
  BY <1>1, <1>2, <1>3

LEMMA StopKeeps == ASSUME EngineInv, Stop, UNCHANGED placeable PROVE EngineInv'
BY DEF EngineInv, Stop, memory, database, TypeOK, OnePlace, FreshProcess, HandlersFollow,
       SnapshotsAreSound, VersionsFollow, SavedIsKnown, FinalCopy

LEMMA EndedKeeps == ASSUME EngineInv, Ended, UNCHANGED placeable PROVE EngineInv'
<1> USE DEF EngineInv, Ended, database
<1>1. <<>> \in Seq(Workload) /\ Elements(<<>>) = {} /\ NoRepeats(<<>>)
  BY DEF Elements, NoRepeats
<1>2. NoSnapshot \in Snapshot /\ Work(NoSnapshot) = {} /\ NoSnapshot.version = 0
      /\ NoSnapshot.queue = <<>> /\ NoSnapshot.running = {}
  BY <1>1 DEF NoSnapshot, Snapshot, Work
<1>3. MaxVersion \in Nat /\ 0 \in 0..MaxVersion /\ 0 <= MaxVersion
  BY MaxVersionIsNat
<1>4. \A w \in Workload : status'[w] = "new" \/ status'[w] = "gone"
  OBVIOUS
<1>5. TypeOK'
  BY <1>1, <1>2, <1>3 DEF TypeOK, Handler
<1>6. OnePlace'
  BY <1>1, <1>2, <1>4 DEF OnePlace
<1>7. FreshProcess' /\ VersionsFollow' /\ SavedIsKnown' /\ FinalCopy'
  BY <1>1 DEF FreshProcess, VersionsFollow, SavedIsKnown, FinalCopy
<1>8. HandlersFollow'
  BY DEF HandlersFollow
<1>9. SnapshotsAreSound'
  <2>1. \A w \in Work(snap) : w \in Workload
    BY DEF TypeOK, Snapshot, Work, Elements
  <2> QED
    BY <1>2, <1>3, <2>1 DEF SnapshotsAreSound
<1> QED
  BY <1>5, <1>6, <1>7, <1>8, <1>9

LEMMA SubmitKeeps ==
    ASSUME EngineInv, NEW w \in Workload, Submit(w), UNCHANGED placeable
    PROVE  EngineInv'
<1> USE DEF EngineInv, Submit, database, runVars
<1>1. queue \in Seq(Workload) /\ status \in [Workload -> Known \cup {"new", "gone"}]
  BY DEF TypeOK, Known
<1>2. w \notin Elements(queue)
  BY DEF OnePlace
<1>3. /\ queue' \in Seq(Workload)
      /\ Elements(queue') = Elements(queue) \cup {w}
      /\ NoRepeats(queue')
  BY <1>1, <1>2, AppendList DEF OnePlace
<1>4. \A v \in Workload : status'[v] = IF v = w THEN "queued" ELSE status[v]
  BY <1>1
<1>5. TypeOK'
  BY <1>3 DEF TypeOK, Handler
<1>6. OnePlace'
  BY <1>3, <1>4 DEF OnePlace
<1>7. w \notin Work(snap) /\ w \notin Work(draft)
  BY DEF SnapshotsAreSound
<1>8. FreshProcess'
  BY <1>3, <1>7 DEF FreshProcess
<1>9. HandlersFollow'
  BY <1>4 DEF HandlersFollow, Known, TypeOK
<1>10. \A s \in {snap, draft} : \A v \in Work(s) : v \in Workload
  BY DEF TypeOK, Snapshot, Work, Elements
<1>11. SnapshotsAreSound' /\ SavedIsKnown'
  BY <1>4, <1>7, <1>10 DEF SnapshotsAreSound, SavedIsKnown
<1>12. VersionsFollow'
  BY DEF VersionsFollow
<1>13. FinalCopy'
  BY <1>4 DEF FinalCopy
<1> QED
  BY <1>5, <1>6, <1>8, <1>9, <1>11, <1>12, <1>13

LEMMA CopyStatusKeeps ==
    ASSUME EngineInv, NEW w \in Workload, CopyStatus(w), UNCHANGED placeable
    PROVE  EngineInv'
<1> USE DEF EngineInv, CopyStatus, database, memory, runVars
<1>1. status[w] \in Known
  BY DEF HandlersFollow
<1>2. handler' \in [Workload -> Handler]
  BY <1>1 DEF TypeOK, Known, Handler
<1>3. HandlersFollow'
  BY <1>1 DEF HandlersFollow, TypeOK, Known
<1> QED
  BY <1>2, <1>3 DEF TypeOK, OnePlace, FreshProcess, SnapshotsAreSound, VersionsFollow,
                    SavedIsKnown, FinalCopy

LEMMA CreateRowKeeps ==
    ASSUME EngineInv, NEW w \in Workload, CreateRow(w), UNCHANGED placeable
    PROVE  EngineInv'
<1> USE DEF EngineInv, CreateRow, database, memory, runVars
<1>1. handler[w] \in {"queued", "scheduled", "preempted", "torn"}
  BY DEF TypeOK, Handler
<1>2. TypeOK'
  BY <1>1 DEF TypeOK, Handler
<1>3. HandlersFollow'
  BY DEF HandlersFollow, TypeOK
<1> QED
  BY <1>2, <1>3 DEF OnePlace, FreshProcess, SnapshotsAreSound, VersionsFollow,
                    SavedIsKnown, FinalCopy

LEMMA PreemptKeeps ==
    ASSUME EngineInv, NEW w \in Workload, Preempt(w), UNCHANGED placeable
    PROVE  EngineInv'
<1> USE DEF EngineInv, Preempt, database, memory, runVars
<1>1. status[w] = "scheduled"
  BY DEF OnePlace
<1>2. \A v \in Workload : status'[v] = IF v = w THEN "preempted" ELSE status[v]
  BY DEF TypeOK
<1>3. TypeOK'
  BY DEF TypeOK
<1>4. OnePlace'
  BY <1>1, <1>2 DEF OnePlace
<1>5. FreshProcess' /\ VersionsFollow'
  BY DEF FreshProcess, VersionsFollow
<1>6. HandlersFollow'
  BY <1>1, <1>2 DEF HandlersFollow, Known
<1>7. \A s \in {snap, draft} : \A v \in Work(s) : v \in Workload
  BY DEF TypeOK, Snapshot, Work, Elements
<1>8. SnapshotsAreSound' /\ SavedIsKnown'
  BY <1>1, <1>2, <1>7 DEF SnapshotsAreSound, SavedIsKnown, Known
<1>9. FinalCopy'
  BY <1>2 DEF FinalCopy
<1> QED
  BY <1>3, <1>4, <1>5, <1>6, <1>8, <1>9

-----------------------------------------------------------------------------
(* Run                                                                     *)

LEMMA LoadSnapshotKeeps ==
    ASSUME EngineInv, LoadSnapshot, UNCHANGED placeable
    PROVE  EngineInv'
<1> USE DEF EngineInv, LoadSnapshot, database
<1>1. /\ queue \in Seq(Workload) /\ NoRepeats(queue)
      /\ snap.queue \in Seq(Workload) /\ NoRepeats(snap.queue)
      /\ snap.running \subseteq Workload /\ snap.version \in Nat
      /\ Elements(snap.queue) \cap snap.running = {}
      /\ Elements(queue) \cap Work(snap) = {}
      /\ running = {} /\ version = 0 /\ draft = NoSnapshot /\ ~lossy
      /\ Elements(queue) = {w \in Workload : status[w] = "queued"}
  BY DEF TypeOK, OnePlace, FreshProcess, Snapshot
<1>2. Elements(<<>>) = {}
  BY DEF Elements
<1>3. CASE snap.version = 0
  <2>1. UNCHANGED memory /\ Work(snap) = {}
    BY <1>3 DEF SnapshotsAreSound
  <2>2. TypeOK'
    BY <2>1 DEF TypeOK, memory
  <2>3. OnePlace' /\ FreshProcess'
    BY <2>1 DEF OnePlace, FreshProcess, memory
  <2>4. HandlersFollow' /\ SnapshotsAreSound' /\ FinalCopy'
    BY <2>1 DEF HandlersFollow, SnapshotsAreSound, FinalCopy, memory
  <2>5. VersionsFollow' /\ SavedIsKnown'
    BY <1>1, <1>3, <2>1 DEF VersionsFollow, SavedIsKnown, memory, Work
  <2> QED
    BY <2>2, <2>3, <2>4, <2>5
<1>4. CASE snap.version # 0
  <2>1. PICK r \in Lists(snap.running) : Recover(r) /\ UNCHANGED running
    BY <1>4
  <2> DEFINE base == IF queue = <<>> THEN snap.queue ELSE queue
  <2>2. IsFiniteSet(snap.running)
    BY <1>1, WorkloadsAreFinite, FS_Subset
  <2>3. r \in Seq(snap.running) /\ NoRepeats(r) /\ Elements(r) = snap.running
    BY <2>1, <2>2, ListIsPermutation
  <2>4. r \in Seq(Workload)
    BY <1>1, <2>3
  <2>5. base \in Seq(Workload) /\ NoRepeats(base) /\ Elements(base) \cap snap.running = {}
        /\ Elements(queue) \subseteq Elements(base)
    BY <1>1, <1>2 DEF Work
  <2>6. queue' = base \o r
    BY <2>1 DEF Recover
  <2> HIDE DEF base
  <2>7. /\ queue' \in Seq(Workload) /\ NoRepeats(queue')
        /\ Elements(queue') = Elements(base) \cup snap.running
    BY <2>3, <2>4, <2>5, <2>6, JoinLists
  <2>8. /\ version' = snap.version /\ running' = {}
        /\ status' = [w \in Workload |-> IF w \in Elements(queue') THEN "queued" ELSE status[w]]
    BY <1>1, <2>1 DEF Recover
  <2>9. Elements(queue') \subseteq Workload
    BY <2>7 DEF Elements
  <2>10. TypeOK'
    <3>1. snap.version \in 0..MaxVersion
      BY <1>1, MaxVersionIsNat DEF SnapshotsAreSound
    <3> QED
      BY <2>7, <2>8, <3>1 DEF TypeOK
  <2>11. OnePlace'
    <3>1. Elements(queue') = {w \in Workload : status'[w] = "queued"}
      BY <1>1, <2>5, <2>7, <2>8, <2>9
    <3>2. \A w \in Workload : status[w] # "scheduled"
      BY <1>1 DEF OnePlace
    <3>3. running' = {w \in Workload : status'[w] = "scheduled"}
      BY <2>8, <3>2
    <3> QED
      BY <2>7, <3>1, <3>3 DEF OnePlace
  <2>12. FreshProcess'
    BY DEF FreshProcess
  <2>13. HandlersFollow'
    <3>1. \A w \in Workload : status[w] \notin {"scheduled", "preempted"}
      BY DEF FreshProcess
    <3>2. \A w \in Workload : handler[w] # "scheduled"
      BY <3>1 DEF HandlersFollow
    <3>3. UNCHANGED handler
      OBVIOUS
    <3>4. \A w \in Workload : status'[w] = "queued" \/ status'[w] = status[w]
      BY <2>8
    <3> QED
      BY <3>2, <3>3, <3>4 DEF HandlersFollow, Known
  <2>14. SnapshotsAreSound' /\ FinalCopy'
    <3>1. \A s \in {snap, draft} : \A w \in Work(s) : w \in Workload
      BY DEF TypeOK, Snapshot, Work, Elements
    <3>2. \A w \in Workload : status'[w] = "queued" \/ status'[w] = status[w]
      BY <2>8
    <3>3. UNCHANGED <<snap, draft>>
      OBVIOUS
    <3> QED
      BY <3>1, <3>2, <3>3 DEF SnapshotsAreSound, FinalCopy
  <2>15. VersionsFollow'
    BY <1>1, <2>8 DEF VersionsFollow
  <2>16. SavedIsKnown'
    <3>1. ASSUME ~lossy' PROVE Work(snap) \subseteq Elements(queue')
      BY <1>2, <2>6, <2>7, <3>1 DEF Work, base
    <3>2. \A w \in Elements(queue') : status'[w] = "queued"
      BY <2>8, <2>9
    <3> QED
      BY <3>1, <3>2 DEF SavedIsKnown, Known, Work
  <2> QED
    BY <2>10, <2>11, <2>12, <2>13, <2>14, <2>15, <2>16
<1> QED
  BY <1>3, <1>4

LEMMA LoadFailsKeeps == ASSUME EngineInv, LoadFails, UNCHANGED placeable PROVE EngineInv'
BY DEF EngineInv, LoadFails, memory, database, TypeOK, OnePlace, FreshProcess, HandlersFollow,
       SnapshotsAreSound, VersionsFollow, SavedIsKnown, FinalCopy

(* Sorting keeps the members of the queue and repeats none.                *)
LEMMA SortingsAreSame ==
    ASSUME TypeOK, NoRepeats(queue), NEW q \in Sortings
    PROVE  q \in Seq(Workload) /\ NoRepeats(q) /\ Elements(q) = Elements(queue)
<1>1. PICK p \in Lists(DOMAIN queue) : q = [i \in DOMAIN queue |-> queue[p[i]]]
  BY DEF Sortings
<1>2. /\ queue \in Seq(Workload) /\ Len(queue) \in Nat /\ 1 \in Int
      /\ DOMAIN queue = 1..Len(queue)
  BY DEF TypeOK
<1>3. IsFiniteSet(DOMAIN queue) /\ Cardinality(DOMAIN queue) = Len(queue)
  <2>1. /\ IsFiniteSet(1..Len(queue))
        /\ Cardinality(1..Len(queue)) = IF 1 > Len(queue) THEN 0 ELSE Len(queue) - 1 + 1
    BY <1>2, FS_Interval
  <2> QED
    BY <1>2, <2>1
<1>4. DOMAIN p = DOMAIN queue
  BY <1>2, <1>3, ListIsPermutation
<1>5. LET r == [i \in DOMAIN p |-> queue[p[i]]]
      IN r \in Seq(Workload) /\ Elements(r) = {queue[i] : i \in DOMAIN queue} /\ NoRepeats(r)
  BY <1>2, Picked
<1> QED
  BY <1>1, <1>4, <1>5 DEF Elements

LEMMA SchedulingCycleKeeps ==
    ASSUME EngineInv, SchedulingCycle, UNCHANGED placeable
    PROVE  EngineInv' /\ \A w \in Workload : row'[w] = "scheduled" /\ row[w] # "scheduled"
                                               => status'[w] = "scheduled"
<1> USE DEF EngineInv, SchedulingCycle, runVars
<1>1. PICK q \in Sortings :
         LET placed == {q[i] : i \in Scheduled(q)}
         IN /\ queue' \in Without(q, Scheduled(q))
            /\ running' = running \cup placed
            /\ status' = [w \in Workload |-> IF w \in placed THEN "scheduled" ELSE status[w]]
            /\ PersistDecisions(placed)
  OBVIOUS
<1> DEFINE placed == {q[i] : i \in Scheduled(q)}
           kept == {q[i] : i \in DOMAIN q \ Scheduled(q)}
<1>2. q \in Seq(Workload) /\ NoRepeats(q) /\ Elements(q) = Elements(queue)
  BY SortingsAreSame DEF OnePlace
<1>3. /\ placed \subseteq Workload
      /\ \A w \in placed : status[w] = "queued"
      /\ placed \cup kept = Elements(queue)
      /\ placed \cap kept = {}
  <2>1. /\ Scheduled(q) \subseteq DOMAIN q
        /\ \A i \in Scheduled(q) : status[q[i]] = "queued"
    BY DEF Scheduled
  <2>2. \A i \in DOMAIN q : q[i] \in Workload
    BY <1>2
  <2>3. placed \cap kept = {}
    BY <1>2, <2>1 DEF NoRepeats
  <2>4. placed \cup kept = Elements(queue)
    <3>1. placed \cup kept = {q[i] : i \in DOMAIN q}
      BY <2>1
    <3> QED
      BY <1>2, <3>1 DEF Elements
  <2> QED
    BY <2>1, <2>2, <2>3, <2>4
<1>4. queue' \in Seq(Workload) /\ NoRepeats(queue') /\ Elements(queue') = kept
  <2>1. PICK k \in Lists(DOMAIN q \ Scheduled(q)) : queue' = [i \in DOMAIN k |-> q[k[i]]]
    BY <1>1 DEF Without
  <2> QED
    <3> DEFINE I == DOMAIN q \ Scheduled(q)
    <3>1. I \in SUBSET DOMAIN q /\ k \in Lists(I)
      BY <2>1
    <3> HIDE DEF I
    <3>2. LET r == [i \in DOMAIN k |-> q[k[i]]]
          IN r \in Seq(Workload) /\ Elements(r) = {q[i] : i \in I} /\ NoRepeats(r)
      BY <1>2, <3>1, Picked
    <3> QED
      BY <2>1, <3>2 DEF I
<1>5. /\ running' = running \cup placed
      /\ status' = [w \in Workload |-> IF w \in placed THEN "scheduled" ELSE status[w]]
      /\ \E U \in SUBSET placed :
            row' = [w \in Workload |-> IF w \in U /\ row[w] = "queued" THEN "scheduled" ELSE row[w]]
  BY <1>1 DEF PersistDecisions
<1> HIDE DEF placed, kept
<1>6. TypeOK'
  BY <1>3, <1>4, <1>5 DEF TypeOK
<1>7. OnePlace'
  <2>1. Elements(queue') = {w \in Workload : status'[w] = "queued"}
    BY <1>3, <1>4, <1>5 DEF OnePlace
  <2>2. running' = {w \in Workload : status'[w] = "scheduled"}
    BY <1>3, <1>5 DEF OnePlace
  <2> QED
    BY <1>4, <2>1, <2>2 DEF OnePlace
<1>8. FreshProcess' /\ VersionsFollow' /\ FinalCopy'
  BY DEF FreshProcess, VersionsFollow, FinalCopy
<1>9. HandlersFollow'
  BY <1>3, <1>5 DEF HandlersFollow, Known
<1>10. \A s \in {snap, draft} : \A v \in Work(s) : v \in Workload
  BY DEF TypeOK, Snapshot, Work, Elements
<1>11. SnapshotsAreSound' /\ SavedIsKnown'
  BY <1>3, <1>5, <1>10 DEF SnapshotsAreSound, SavedIsKnown, Known
<1>12. \A w \in Workload : row'[w] = "scheduled" /\ row[w] # "scheduled"
                               => status'[w] = "scheduled"
  BY <1>5
<1> QED
  BY <1>6, <1>7, <1>8, <1>9, <1>11, <1>12

LEMMA CopyKeeps ==
    ASSUME EngineInv, Copy, pc = "loop",
           pc' = "saving" \/ pc' = "final", UNCHANGED placeable
    PROVE  EngineInv'
<1> USE DEF EngineInv, Copy, database
<1>1. /\ draft' = [version |-> version + 1, queue |-> queue, running |-> running]
      /\ version' = version + 1 /\ version \in Nat /\ version + 1 <= MaxVersion
      /\ MaxVersion \in Nat
  BY MaxVersionIsNat DEF TypeOK
<1>2. /\ draft'.version = version + 1 /\ draft'.queue = queue /\ draft'.running = running
      /\ Work(draft') = Elements(queue) \cup running
      /\ draft' \in Snapshot
  BY <1>1 DEF Work, TypeOK, Snapshot
<1>3. Work(draft') = {w \in Workload : status[w] \in {"queued", "scheduled"}}
  BY <1>2 DEF OnePlace
<1>4. TypeOK'
  BY <1>1, <1>2 DEF TypeOK
<1>5. OnePlace'
  <2>1. Elements(queue) \cap running = {}
    BY DEF OnePlace
  <2> QED
    BY <1>2, <2>1 DEF OnePlace
<1>6. FreshProcess' /\ HandlersFollow'
  BY DEF FreshProcess, HandlersFollow
<1>7. SnapshotsAreSound'
  BY <1>1, <1>2, <1>3 DEF SnapshotsAreSound
<1>8. VersionsFollow'
  BY <1>1, <1>2 DEF VersionsFollow, TypeOK, Snapshot
<1>9. SavedIsKnown'
  <2>1. ~lossy => \A w \in Work(snap) : w \in Workload /\ status[w] \in Known
    BY DEF SavedIsKnown, TypeOK, Snapshot, Work, Elements
  <2> QED
    BY <1>3, <2>1 DEF SavedIsKnown, Known
<1>10. FinalCopy'
  BY <1>3 DEF FinalCopy
<1> QED
  BY <1>4, <1>5, <1>6, <1>7, <1>8, <1>9, <1>10

LEMMA FinalSkippedKeeps == ASSUME EngineInv, FinalSkipped, UNCHANGED placeable PROVE EngineInv'
<1> USE DEF EngineInv, FinalSkipped, memory, database
<1>1. \A w \in Workload : status[w] \notin {"queued", "scheduled"}
  BY DEF NothingToSave, OnePlace, Elements
<1>2. FinalCopy'
  BY <1>1 DEF FinalCopy
<1> QED
  BY <1>2 DEF TypeOK, OnePlace, FreshProcess, HandlersFollow, SnapshotsAreSound,
              VersionsFollow, SavedIsKnown

LEMMA StoreKeeps ==
    ASSUME EngineInv, StoreSnapshot \/ StoreFails, UNCHANGED placeable
    PROVE  EngineInv'
<1> USE DEF EngineInv, memory, database
<1>1. pc \in {"saving", "final"} /\ pc' \in {"loop", "exited"}
      /\ (pc' = "exited" <=> pc = "final")
      /\ snap' \in {snap, draft}
      /\ UNCHANGED <<process, queue, running, version, status, draft, handler, row, lossy, late>>
  BY DEF StoreSnapshot, StoreFails
<1>2. TypeOK' /\ OnePlace' /\ FreshProcess' /\ HandlersFollow' /\ SnapshotsAreSound' /\ FinalCopy'
  BY <1>1 DEF TypeOK, OnePlace, FreshProcess, HandlersFollow, SnapshotsAreSound, FinalCopy
<1>3. VersionsFollow'
  <2>1. version \in Nat /\ snap.version \in Nat
    BY DEF TypeOK, Snapshot
  <2> QED
    BY <1>1, <2>1 DEF VersionsFollow
<1>4. SavedIsKnown'
  BY <1>1 DEF SavedIsKnown
<1> QED
  BY <1>2, <1>3, <1>4

LEMMA EngineStep == EngineInv /\ [Next]_vars => EngineInv'
<1> SUFFICES ASSUME EngineInv, [Next]_vars PROVE EngineInv'
  OBVIOUS
<1>1. CASE UNCHANGED vars
  BY <1>1 DEF vars, EngineInv, TypeOK, OnePlace, FreshProcess, HandlersFollow,
              SnapshotsAreSound, VersionsFollow, SavedIsKnown, FinalCopy
<1>2. ASSUME Run, UNCHANGED placeable PROVE EngineInv'
  BY <1>2, LoadSnapshotKeeps, LoadFailsKeeps, SchedulingCycleKeeps, CopyKeeps,
     FinalSkippedKeeps, StoreKeeps DEF Run, SaveSnapshot, FinalSnapshot
<1> QED
  BY <1>1, <1>2, StartKeeps, StopKeeps, EndedKeeps, SubmitKeeps, CopyStatusKeeps,
     CreateRowKeeps, PreemptKeeps DEF Next, Step, Exit, Crash

(* The inductive invariant holds in every reachable state.                 *)
THEOREM Invariance == Spec => []EngineInv
BY EngineInit, EngineStep, PTL DEF Spec

-----------------------------------------------------------------------------
(* The properties                                                          *)

(* Every variable keeps its type, over crashes and restarts.               *)
THEOREM TypeCorrect == Spec => []TypeOK
<1>1. EngineInv => TypeOK
  BY DEF EngineInv
<1> QED
  BY <1>1, Invariance, PTL

(* No workload is lost or doubled inside a process or in a snapshot.       *)
THEOREM InOnePlace == Spec => []OnePlace
<1>1. EngineInv => OnePlace
  BY DEF EngineInv
<1> QED
  BY <1>1, Invariance, PTL

(* The final snapshot holds all that was submitted before it was copied.   *)
THEOREM StopKeepsWork == Spec => []GracefulStopKeeps
<1>1. EngineInv => GracefulStopKeeps
  BY DEF EngineInv, GracefulStopKeeps, FinalCopy
<1> QED
  BY <1>1, Invariance, PTL

(* The snapshot row changes only when the draft is stored.                 *)
LEMMA SnapChanges ==
    ASSUME EngineInv, [Next]_vars, snap' # snap
    PROVE  StoreSnapshot
BY DEF Next, Step, Run, vars, Start, Stop, Exit, Crash, Ended, Submit, CopyStatus, CreateRow,
       Preempt, LoadSnapshot, LoadFails, SchedulingCycle, SaveSnapshot, FinalSnapshot,
       FinalSkipped, StoreFails, Copy, database

(* Only a preemption takes a workload out of the stored snapshot, unless   *)
(* the recovery of this process failed or came too late.                   *)
THEOREM SavedWorkIsKept == Spec => SavedWorkStays
<1>1. ASSUME EngineInv, [Next]_vars
      PROVE  \A w \in Work(snap) \ Work(snap)' : status[w] = "preempted" \/ lossy
  <2>1. CASE snap' = snap
    BY <2>1 DEF Work
  <2>2. CASE snap' # snap
    BY <1>1, <2>2, SnapChanges DEF StoreSnapshot, Work, EngineInv, SavedIsKnown
  <2> QED
    BY <2>1, <2>2
<1> QED
  BY <1>1, Invariance, PTL DEF Spec, SavedWorkStays

(* The version of the stored snapshot rises with every save.               *)
THEOREM VersionsAreMonotonic == Spec => VersionsRise
<1>1. ASSUME EngineInv, [Next]_vars
      PROVE  snap' # snap => snap'.version > snap.version \/ lossy
  BY <1>1, SnapChanges DEF StoreSnapshot, EngineInv, VersionsFollow
<1> QED
  BY <1>1, Invariance, PTL DEF Spec, VersionsRise

(* A row never says "scheduled" of a workload that the engine did not      *)
(* place.                                                                  *)
THEOREM RowsFollow == Spec => RowNeverAhead
<1>1. ASSUME EngineInv, [Next]_vars, NEW w \in Workload,
             row'[w] = "scheduled", row[w] # "scheduled"
      PROVE  status'[w] \in {"scheduled", "preempted"}
  <2>1. CASE SchedulingCycle /\ UNCHANGED placeable
    BY <1>1, <2>1, SchedulingCycleKeeps
  <2>2. ASSUME NEW v \in Workload, CreateRow(v)
        PROVE  status'[w] \in {"scheduled", "preempted"}
    BY <1>1, <2>2 DEF CreateRow, memory, EngineInv, HandlersFollow, TypeOK
  <2>3. CASE row' = row
    BY <1>1, <2>3
  <2> QED
    BY <1>1, <2>1, <2>2, <2>3 DEF Next, Step, Run, vars, Start, Stop, Exit, Crash, Ended,
       Submit, CopyStatus, Preempt, LoadSnapshot, LoadFails, SaveSnapshot, FinalSnapshot,
       FinalSkipped, StoreSnapshot, StoreFails, Copy, database
<1>2. ASSUME EngineInv, [Next]_vars
      PROVE  \A w \in Workload : (row'[w] = "scheduled" /\ row[w] # "scheduled")
                                     => status'[w] \in {"scheduled", "preempted"}
  BY <1>1, <1>2
<1> QED
  BY <1>2, Invariance, PTL DEF Spec, RowNeverAhead
-----------------------------------------------------------------------------
(* What a scheduling cycle does to the queue                               *)

(* Leaving positions out of a sorted queue leaves it sorted.               *)
LEMMA WithoutIsSorted ==
    ASSUME NEW q \in Seq(Workload), Sorted(q), NEW I \in SUBSET DOMAIN q,
           NEW r \in Without(q, DOMAIN q \ I)
    PROVE  Sorted(r)
<1> DEFINE R == DOMAIN q \ (DOMAIN q \ I)
<1>1. PICK k \in Lists(R) : /\ \A i, j \in DOMAIN k : i < j => k[i] < k[j]
                            /\ r = [i \in DOMAIN k |-> q[k[i]]]
  BY DEF Without
<1>2. R = I
  OBVIOUS
<1>3. \A i \in DOMAIN k : k[i] \in DOMAIN q
  BY <1>2 DEF Lists
<1>4. DOMAIN r = DOMAIN k /\ \A i \in DOMAIN k : r[i] = q[k[i]]
  BY <1>1
<1> QED
  BY <1>1, <1>3, <1>4 DEF Sorted

LEMMA CycleEffect ==
    ASSUME EngineInv, SchedulingCycle
    PROVE  /\ running' = running \cup (Elements(queue) \cap placeable)
           /\ Elements(queue') = Elements(queue) \ placeable
           /\ Sorted(queue')
<1>1. PICK q \in Sortings : /\ queue' \in Without(q, Scheduled(q))
                            /\ running' = running \cup {q[i] : i \in Scheduled(q)}
  BY DEF SchedulingCycle
<1>2. /\ q \in Seq(Workload) /\ NoRepeats(q) /\ Elements(q) = Elements(queue)
      /\ Sorted(q)
  BY SortingsAreSame DEF EngineInv, OnePlace, Sortings
<1>3. \A i \in DOMAIN q : q[i] \in Elements(q)
  BY DEF Elements
<1>4. Scheduled(q) = {i \in DOMAIN q : q[i] \in placeable}
  BY <1>2, <1>3 DEF Scheduled, EngineInv, OnePlace
<1>5. {q[i] : i \in Scheduled(q)} = Elements(queue) \cap placeable
  BY <1>2, <1>4 DEF Elements
<1> DEFINE I == DOMAIN q \ Scheduled(q)
<1>6. Elements(queue') = {q[i] : i \in I}
  <2>1. PICK k \in Lists(I) : queue' = [i \in DOMAIN k |-> q[k[i]]]
    BY <1>1 DEF Without
  <2>2. I \in SUBSET DOMAIN q
    OBVIOUS
  <2> HIDE DEF I
  <2>3. LET r == [i \in DOMAIN k |-> q[k[i]]]
        IN Elements(r) = {q[i] : i \in I}
    BY <1>2, <2>2, Picked
  <2> QED
    BY <2>1, <2>3
<1>7. {q[i] : i \in I} = Elements(queue) \ placeable
  BY <1>2, <1>4 DEF Elements
<1>8. Sorted(queue')
  <2>1. I \in SUBSET DOMAIN q /\ DOMAIN q \ I = Scheduled(q)
    BY <1>4
  <2> HIDE DEF I
  <2> QED
    BY <1>1, <1>2, <2>1, WithoutIsSorted
<1> QED
  BY <1>1, <1>5, <1>6, <1>7, <1>8

(* However long the queue is, a cycle places exactly what fits some node   *)
(* and leaves the rest in the order of priority.                           *)
THEOREM CyclesAreExact == Spec => CycleIsExact
<1>1. EngineInv /\ [Next]_vars
        => [SchedulingCycle => /\ running' = running \cup (Elements(queue) \cap placeable)
                               /\ Elements(queue') = Elements(queue) \ placeable
                               /\ Sorted(queue')]_vars
  BY CycleEffect
<1> QED
  BY <1>1, Invariance, PTL DEF Spec, CycleIsExact

(* The recovery adds to the queue that the handlers have begun to fill.    *)
LEMMA RecoveryKeepsQueue ==
    ASSUME EngineInv, LoadSnapshot
    PROVE  Elements(queue) \subseteq Elements(queue')
<1>1. CASE UNCHANGED memory
  BY <1>1 DEF memory
<1>2. ASSUME NEW r \in Lists(snap.running), Recover(r)
      PROVE  Elements(queue) \subseteq Elements(queue')
  <2>1. r \in Seq(Workload)
    <3>1. snap.running \subseteq Workload
      BY DEF EngineInv, TypeOK, Snapshot
    <3>2. IsFiniteSet(snap.running)
      BY <3>1, WorkloadsAreFinite, FS_Subset
    <3> QED
      BY <3>1, <3>2, ListIsPermutation
  <2>2. queue \in Seq(Workload) /\ snap.queue \in Seq(Workload)
    BY DEF EngineInv, TypeOK, Snapshot
  <2>3. CASE queue = <<>>
    BY <2>3 DEF Elements
  <2>4. CASE queue # <<>>
    <3>1. queue' = queue \o r
      BY <1>2, <2>4 DEF Recover
    <3>2. \A i \in DOMAIN queue : i \in DOMAIN (queue \o r) /\ (queue \o r)[i] = queue[i]
      BY <2>1, <2>2
    <3> QED
      BY <3>1, <3>2 DEF Elements
  <2> QED
    BY <2>3, <2>4
<1> QED
  BY <1>1, <1>2 DEF LoadSnapshot

(* A queued workload waits for a cycle in which it fits, or for the end of *)
(* the process: no submission, preemption, recovery or snapshot drops it.  *)
THEOREM StaysQueued == Spec => QueuedUntilPlaced
<1>1. ASSUME EngineInv, [Next]_vars, NEW w \in Elements(queue) \ Elements(queue')
      PROVE  \/ SchedulingCycle /\ w \in placeable \cap running'
             \/ Exit \/ Crash
  <2>1. queue' # queue
    BY <1>1
  <2>2. CASE SchedulingCycle
    BY <1>1, <2>2, CycleEffect
  <2>3. CASE LoadSnapshot
    BY <1>1, <2>3, RecoveryKeepsQueue
  <2>4. ASSUME NEW v \in Workload, Submit(v) PROVE FALSE
    <3>1. queue' = Append(queue, v) /\ queue \in Seq(Workload)
      BY <1>1, <2>4 DEF Submit, EngineInv, TypeOK
    <3>2. \A i \in DOMAIN queue : i \in DOMAIN Append(queue, v)
                                  /\ Append(queue, v)[i] = queue[i]
      BY <3>1
    <3>3. Elements(queue) \subseteq Elements(queue')
      BY <3>1, <3>2 DEF Elements
    <3> QED
      BY <1>1, <3>3
  <2> QED
    BY <1>1, <2>1, <2>2, <2>3, <2>4 DEF Next, Step, Run, vars, Start, Stop, CopyStatus,
       CreateRow, Preempt, LoadFails, SaveSnapshot, FinalSnapshot, FinalSkipped,
       StoreSnapshot, StoreFails, Copy, memory
<1>2. EngineInv /\ [Next]_vars
        => [\A w \in Elements(queue) \ Elements(queue') :
               \/ SchedulingCycle /\ w \in placeable \cap running'
               \/ (Exit \/ Crash)]_vars
  BY <1>1
<1> QED
  BY <1>2, Invariance, PTL DEF Spec, QueuedUntilPlaced
================================================================================
