------------------------------ MODULE GangProofs ------------------------------
(***************************************************************************)
(* What the run of GangScheduler checks on two gangs and two workers, for  *)
(* all gangs, workers, resource dimensions, capacities and job specs.      *)
(***************************************************************************)
EXTENDS GangScheduler, FiniteSetTheorems, TLAPS

(* A barrier lives from Start on; it is decided well only after a full     *)
(* count, and the count is the number of workers that came.                *)
Meeting(g) == /\ expected[g] = 0 => g \notin released /\ \A w \in Worker : at[g][w] = "away"
              /\ g \in failed => g \in released
              /\ arrived[g] = Cardinality(Came(g))
              /\ (g \in released /\ g \notin failed) => arrived[g] >= expected[g]
              /\ \A w \in Worker :
                    /\ at[g][w] = "last" => arrived[g] >= expected[g]
                    /\ at[g][w] = "woken" => g \in released
                    /\ at[g][w] = "ok" => g \in released /\ g \notin failed
                    /\ at[g][w] = "error" => g \in failed

BarrierInv ==
    \A g \in Gang : /\ state[g] \in {"", "pending", "gang_ready"} => expected[g] = 0
                    /\ state[g] = "running" => expected[g] > 0
                    /\ Meeting(g)

(* The states follow one another, so that a gang has at most four receipts. *)
LengthInv ==
    \A g \in Gang : /\ state[g] = "" => Len(events[g]) = 0
                    /\ state[g] = "pending" => Len(events[g]) = 1
                    /\ state[g] = "gang_ready" => Len(events[g]) = 2
                    /\ state[g] = "running" => Len(events[g]) = 3
                    /\ Len(events[g]) <= 4

-----------------------------------------------------------------------------
(* The steps by their effect on the scheduler: one moves a gang to a new   *)
(* state, the others leave the scheduler's variables alone.                *)
Move(g, to) == \/ to = "pending" /\ Submit(g)
               \/ to = "gang_ready" /\ Admit(g)
               \/ to = "running" /\ Start(g)
               \/ to \in {"succeeded", "failed"} /\ End(g, to)

Quiet == \E g \in Gang : \/ \E w \in Crew[g] : GetBarrier(g, w)
                         \/ Meet(g) /\ UNCHANGED schedVars

LEMMA StepKinds ==
    ASSUME [Next]_vars
    PROVE  \/ \E g \in Gang : \E to \in State : Move(g, to)
           \/ Quiet
           \/ UNCHANGED vars
<1> SUFFICES ASSUME NEW g \in Gang,
                    \/ Submit(g) \/ Admit(g) \/ Start(g) \/ Succeed(g) \/ Fail(g)
             PROVE  \E to \in State : Move(g, to)
  BY DEF Next, Quiet
<1>1. CASE Submit(g)
  BY <1>1 DEF Move, State
<1>2. CASE Admit(g)
  BY <1>2 DEF Move, State
<1>3. CASE Start(g)
  BY <1>3 DEF Move, State
<1>4. CASE Succeed(g)
  BY <1>4 DEF Move, State, Succeed
<1>5. CASE Fail(g)
  BY <1>5 DEF Move, State, Fail
<1> QED
  BY <1>1, <1>2, <1>3, <1>4, <1>5

LEMMA QuietKeeps == Quiet => UNCHANGED schedVars
BY DEF Quiet, GetBarrier

(* What the specs guarantee about the numbers derived from them.           *)
LEMMA Members ==
    ASSUME NEW s \in JobSpec
    PROVE  /\ s.replicas \in Nat /\ s.replicas > 0
           /\ requiredMembers(s) \in Nat
           /\ \A m \in Nat : totalRequest(s, m) \in [Dim -> Nat]
<1>1. /\ s.replicas \in Nat \ {0}
      /\ s.minMembers \in Nat
      /\ s.resources \in [Dim -> Nat]
  BY SpecsAreValid
<1>2. ASSUME NEW m \in Nat, NEW d \in Dim
      PROVE  s.resources[d] * m \in Nat
  BY <1>1
<1> QED
  BY <1>1, <1>2 DEF requiredMembers, totalRequest

-----------------------------------------------------------------------------
(* Types                                                                   *)

LEMMA GoesType ==
    ASSUME BarrierTypeOK, NEW g \in Gang, NEW w \in Worker, NEW from, NEW to \in Place,
           Goes(g, w, from, to)
    PROVE  at' \in [Gang -> [Worker -> Place]]
BY DEF BarrierTypeOK, Goes

LEMMA TypeInit == Init => TypeOK
<1> SUFFICES ASSUME Init PROVE TypeOK
  OBVIOUS
<1>1. BarrierTypeOK
  BY DEF Init, BarrierInit, BarrierTypeOK, Place
<1>2. events \in [Gang -> Seq(Receipt)]
  <2>1. <<>> \in Seq(Receipt)
    OBVIOUS
  <2> QED
    BY <2>1 DEF Init
<1> QED
  BY <1>1, <1>2 DEF Init, TypeOK, State

LEMMA MovesType ==
    ASSUME TypeOK, NEW g \in Gang, NEW to \in State, Moves(g, to)
    PROVE  /\ state' \in [Gang -> State]
           /\ seq' \in Nat
           /\ events' \in [Gang -> Seq(Receipt)]
<1>1. [seq |-> seq + 1, from |-> state[g], to |-> to] \in Receipt
  BY DEF TypeOK, Receipt
<1>2. Append(events[g], [seq |-> seq + 1, from |-> state[g], to |-> to]) \in Seq(Receipt)
  BY <1>1 DEF TypeOK
<1> QED
  BY <1>2 DEF Moves, TypeOK

LEMMA MeetType ==
    ASSUME BarrierTypeOK, NEW g \in Gang, Meet(g)
    PROVE  BarrierTypeOK'
<1>1. ASSUME NEW w \in Worker, BarrierStep(g, w)
      PROVE  BarrierTypeOK'
  <2> USE DEF BarrierTypeOK
  <2>1. CASE Arrive(g, w)
    <3>1. at' \in [Gang -> [Worker -> Place]]
      BY <2>1, GoesType DEF Arrive, Place
    <3>2. arrived[g] + 1 \in Nat
      OBVIOUS
    <3>3. arrived' \in [Gang -> Nat] /\ UNCHANGED <<expected, released, failed>>
      BY <2>1, <3>2 DEF Arrive
    <3> QED
      BY <3>1, <3>3
  <2>2. CASE ReleaseAll(g, w)
    BY <2>2, GoesType DEF ReleaseAll, Place
  <2>3. CASE Receive(g, w)
    BY <2>3, GoesType DEF Receive, Place
  <2>4. CASE ReadOutcome(g, w)
    <3>1. at' \in [Gang -> [Worker -> Place]]
      BY <2>4, GoesType DEF ReadOutcome, Place
    <3> QED
      BY <2>4, <3>1 DEF ReadOutcome
  <2>5. CASE Spin(g, w)
    BY <2>5, GoesType DEF Spin, Place
  <2>6. CASE SpinSees(g, w)
    BY <2>6, GoesType DEF SpinSees, Place
  <2>7. CASE SpinMisses(g, w)
    BY <2>7, GoesType DEF SpinMisses, Place
  <2>8. CASE SpinExpires(g, w)
    BY <2>8, GoesType DEF SpinExpires, FailBarrier, Place
  <2>9. CASE WorkerFails(g, w)
    BY <2>9, GoesType DEF WorkerFails, FailBarrier, Place
  <2> QED
    BY <1>1, <2>1, <2>2, <2>3, <2>4, <2>5, <2>6, <2>7, <2>8, <2>9 DEF BarrierStep, Leave
<1>2. CASE WatcherFires(g)
  BY <1>2 DEF WatcherFires, FailBarrier, BarrierTypeOK
<1> QED
  BY <1>1, <1>2, CrewsAreWorkers DEF Meet

LEMMA MoveType ==
    ASSUME TypeOK, NoOvercommit, ResourcesFollowState,
           NEW g \in Gang, NEW to \in State, Move(g, to)
    PROVE  /\ BarrierTypeOK'
           /\ UNCHANGED spec
           /\ state' \in [Gang -> State] /\ seq' \in Nat
           /\ events' \in [Gang -> Seq(Receipt)]
           /\ reserved' \subseteq Gang /\ barriers' \subseteq Gang
           /\ admitted' \in [Gang -> Nat]
<1>1. spec[g] \in JobSpec
  BY DEF TypeOK
<1>2. CASE to = "pending" /\ Submit(g)
  BY <1>2, MovesType DEF Submit, TypeOK, BarrierTypeOK, barrierVars
<1>3. CASE to = "gang_ready" /\ Admit(g)
  <2>1. requiredMembers(spec[g]) \in Nat
    BY <1>1, Members
  <2> QED
    BY <1>3, <2>1, MovesType DEF Admit, TypeOK, BarrierTypeOK, barrierVars
<1>4. CASE to = "running" /\ Start(g)
  <2>1. spec[g].replicas \in Nat
    BY <1>1, Members
  <2> QED
    BY <1>4, <2>1, MovesType DEF Start, Create, TypeOK, BarrierTypeOK
<1>5. CASE to \in {"succeeded", "failed"} /\ End(g, to)
  <2>1. released' \subseteq Gang /\ failed' \subseteq Gang
    BY <1>5 DEF End, DropBarrier, FailBarrier, TypeOK, BarrierTypeOK
  <2> QED
    BY <1>5, <2>1, MovesType DEF End, DropBarrier, Refund, TypeOK, BarrierTypeOK
<1> QED
  BY <1>2, <1>3, <1>4, <1>5 DEF Move

LEMMA QuietType ==
    ASSUME TypeOK, Quiet
    PROVE  TypeOK'
<1>1. BarrierTypeOK'
  <2>1. ASSUME NEW g \in Gang, NEW w \in Worker, GetBarrier(g, w)
        PROVE  BarrierTypeOK'
    BY <2>1, GoesType DEF GetBarrier, TypeOK, BarrierTypeOK, Place
  <2> QED
    BY <2>1, MeetType, CrewsAreWorkers DEF Quiet, TypeOK
<1> QED
  BY <1>1, QuietKeeps DEF TypeOK, schedVars

-----------------------------------------------------------------------------
(* The ledger                                                              *)

(* n[g] units of every gang g of R.                                        *)
Blocks(R, n) == UNION {{g} \X (1..n[g]) : g \in R}

(* One gang more adds exactly its own units.                               *)
LEMMA BlocksAdd ==
    ASSUME NEW R \in SUBSET Gang, NEW g \in Gang, g \notin R,
           NEW n \in [Gang -> Nat]
    PROVE  /\ Cardinality(Blocks(R, n)) \in Nat
           /\ Cardinality(Blocks(R \cup {g}, n)) = Cardinality(Blocks(R, n)) + n[g]
<1> DEFINE Block(h) == {h} \X (1..n[h])
<1>1. ASSUME NEW h \in Gang
      PROVE  IsFiniteSet(Block(h)) /\ Cardinality(Block(h)) = n[h]
  <2>1. IsFiniteSet({h}) /\ Cardinality({h}) = 1
    BY FS_Singleton
  <2>2. IsFiniteSet(1..n[h]) /\ Cardinality(1..n[h]) = n[h]
    BY FS_Interval
  <2>3. IsFiniteSet(Block(h)) /\ Cardinality(Block(h)) = 1 * n[h]
    BY <2>1, <2>2, FS_Product
  <2> QED
    BY <2>3
<1>2. IsFiniteSet(Blocks(R, n))
  <2>1. IsFiniteSet(R)
    BY FS_Subset, GangsAreFinite
  <2>2. IsFiniteSet({Block(h) : h \in R})
    <3>1. [h \in R |-> Block(h)] \in Surjection(R, {Block(h) : h \in R})
      BY DEF Surjection
    <3> QED
      BY <2>1, <3>1, FS_Surjection
  <2>3. \A T \in {Block(h) : h \in R} : IsFiniteSet(T)
    BY <1>1
  <2> QED
    BY <2>2, <2>3, FS_UNION DEF Blocks
<1>3. Blocks(R \cup {g}, n) = Blocks(R, n) \cup Block(g)
  BY DEF Blocks
<1>4. Blocks(R, n) \cap Block(g) = {}
  BY DEF Blocks
<1>5. Cardinality(Blocks(R, n)) \in Nat
  BY <1>2, FS_CardinalityType
<1>6. Cardinality(Blocks(R \cup {g}, n)) = Cardinality(Blocks(R, n)) + n[g] - 0
  <2>1. IsFiniteSet(Block(g)) /\ Cardinality(Block(g)) = n[g]
    BY <1>1
  <2>2. Cardinality(Blocks(R, n) \cup Block(g))
           = Cardinality(Blocks(R, n)) + Cardinality(Block(g))
             - Cardinality(Blocks(R, n) \cap Block(g))
    BY <1>2, <2>1, FS_Union
  <2>3. Cardinality({}) = 0
    BY FS_EmptySet
  <2> HIDE DEF Block
  <2> QED
    BY <1>3, <1>4, <2>1, <2>2, <2>3
<1> QED
  BY <1>5, <1>6

(* The units held depend on the gangs of R only.                           *)
LEMMA BlocksAgree ==
    ASSUME NEW R, NEW m, NEW n, \A g \in R : m[g] = n[g]
    PROVE  Blocks(R, m) = Blocks(R, n)
BY DEF Blocks

(* What each gang needs of d, given its spec and its admitted members.     *)
Need(sp, ad, d) == [g \in Gang |-> totalRequest(sp[g], ad[g])[d]]

LEMMA NeedBlocks ==
    ASSUME NEW R \in SUBSET Gang, NEW sp \in [Gang -> JobSpec], NEW ad \in [Gang -> Nat],
           NEW d \in Dim
    PROVE  /\ UNION {{g} \X (1..totalRequest(sp[g], ad[g])[d]) : g \in R}
                 = Blocks(R, Need(sp, ad, d))
           /\ Need(sp, ad, d) \in [Gang -> Nat]
<1>1. \A g \in Gang : totalRequest(sp[g], ad[g])[d] \in Nat
  BY Members
<1>2. \A g \in R : totalRequest(sp[g], ad[g])[d] = Need(sp, ad, d)[g]
  BY DEF Need
<1> QED
  BY <1>1, <1>2 DEF Blocks, Need

(* Admission keeps the ledger: what is added is what the gang will hold,   *)
(* and it was free.                                                        *)
LEMMA AdmitKeepsLedger ==
    ASSUME TypeOK, NoOvercommit, ResourcesFollowState, NEW g \in Gang, Admit(g)
    PROVE  allocated' \in [Dim -> Nat] /\ NoOvercommit'
<1> DEFINE members == requiredMembers(spec[g])
           req == totalRequest(spec[g], members)
<1>1. g \notin reserved
  BY DEF Admit, ResourcesFollowState
<1>2. members \in Nat /\ req \in [Dim -> Nat]
  BY Members DEF TypeOK
<1>3. /\ UNCHANGED spec
      /\ reserved' = reserved \cup {g}
      /\ admitted' = [admitted EXCEPT ![g] = members]
      /\ allocated' = [d \in Dim |-> allocated[d] + req[d]]
      /\ \A d \in Dim : req[d] <= Capacity[d] - allocated[d]
  BY DEF Admit, Fits
<1>4. admitted' \in [Gang -> Nat]
  BY <1>2, <1>3 DEF TypeOK
<1>5. ASSUME NEW d \in Dim
      PROVE  /\ allocated[d] + req[d] \in Nat
             /\ allocated[d] + req[d] = Cardinality(Held(d)')
             /\ allocated[d] + req[d] <= Capacity[d]
  <2> DEFINE n == Need(spec, admitted, d)
             m == Need(spec, admitted', d)
  <2>1. Held(d) = Blocks(reserved, n) /\ n \in [Gang -> Nat]
    BY NeedBlocks DEF Held, TypeOK
  <2>2. Held(d)' = Blocks(reserved \cup {g}, m) /\ m \in [Gang -> Nat]
    <3>1. Held(d)' = UNION {{h} \X (1..totalRequest(spec[h], admitted'[h])[d])
                              : h \in reserved \cup {g}}
      BY <1>3 DEF Held
    <3>2. reserved \cup {g} \in SUBSET Gang /\ spec \in [Gang -> JobSpec]
      BY DEF TypeOK
    <3> QED
      BY <1>4, <3>1, <3>2, NeedBlocks
  <2>3. m[g] = req[d]
    BY <1>3 DEF Need, TypeOK
  <2>4. \A h \in reserved : m[h] = n[h]
    BY <1>1, <1>3 DEF Need, TypeOK
  <2>5. Blocks(reserved, m) = Blocks(reserved, n)
    BY <2>4, BlocksAgree
  <2> HIDE DEF m, n
  <2>6. reserved \in SUBSET Gang
    BY DEF TypeOK
  <2>7. /\ Cardinality(Blocks(reserved, m)) \in Nat
        /\ Cardinality(Blocks(reserved \cup {g}, m)) = Cardinality(Blocks(reserved, m)) + m[g]
    BY <1>1, <2>2, <2>6, BlocksAdd
  <2>8. allocated[d] = Cardinality(Held(d))
    BY DEF NoOvercommit
  <2>9. allocated[d] \in Nat /\ req[d] \in Nat /\ Capacity[d] \in Nat
    BY <1>2, CapacityIsNat DEF TypeOK
  <2>10. req[d] <= Capacity[d] - allocated[d]
    BY <1>3
  <2> HIDE DEF req
  <2> QED
    BY <2>1, <2>2, <2>3, <2>5, <2>7, <2>8, <2>9, <2>10
<1> HIDE DEF req
<1> QED
  BY <1>3, <1>5 DEF NoOvercommit

(* The end of a gang keeps the ledger: what is returned is what it held.   *)
LEMMA EndKeepsLedger ==
    ASSUME TypeOK, NoOvercommit, NEW g \in Gang, NEW to, End(g, to)
    PROVE  allocated' \in [Dim -> Nat] /\ NoOvercommit'
<1> DEFINE req == totalRequest(spec[g], admitted[g])
<1>1. /\ UNCHANGED <<spec, admitted>>
      /\ reserved' = reserved \ {g}
      /\ allocated' = IF g \in reserved THEN [d \in Dim |-> allocated[d] - req[d]]
                      ELSE allocated
  BY DEF End, Refund
<1>2. CASE g \notin reserved
  <2>1. UNCHANGED <<spec, admitted, reserved, allocated>>
    BY <1>1, <1>2
  <2>2. \A d \in Dim : Held(d)' = Held(d)
    BY <2>1 DEF Held
  <2> QED
    BY <2>1, <2>2 DEF NoOvercommit, TypeOK
<1>3. CASE g \in reserved
  <2> DEFINE R == reserved \ {g}
  <2>1. ASSUME NEW d \in Dim
        PROVE  /\ allocated[d] - req[d] \in Nat
               /\ allocated[d] - req[d] = Cardinality(Held(d)')
               /\ allocated[d] - req[d] <= Capacity[d]
    <3> DEFINE n == Need(spec, admitted, d)
    <3>1. Held(d) = Blocks(reserved, n) /\ n \in [Gang -> Nat]
      BY NeedBlocks DEF Held, TypeOK
    <3>2. Held(d)' = Blocks(R, n)
      <4>1. Held(d)' = UNION {{h} \X (1..totalRequest(spec[h], admitted[h])[d]) : h \in R}
        BY <1>1 DEF Held
      <4>2. /\ R \in SUBSET Gang
            /\ spec \in [Gang -> JobSpec] /\ admitted \in [Gang -> Nat]
        BY DEF TypeOK
      <4> QED
        BY <4>1, <4>2, NeedBlocks
    <3>3. n[g] = req[d]
      BY DEF Need
    <3>4. R \in SUBSET Gang /\ g \notin R /\ R \cup {g} = reserved
      BY <1>3 DEF TypeOK
    <3> HIDE DEF n, R
    <3>5. /\ Cardinality(Blocks(R, n)) \in Nat
          /\ Cardinality(Blocks(reserved, n)) = Cardinality(Blocks(R, n)) + n[g]
      BY <3>1, <3>4, BlocksAdd
    <3>6. allocated[d] = Cardinality(Held(d)) /\ allocated[d] <= Capacity[d]
      BY DEF NoOvercommit
    <3>7. allocated[d] \in Nat /\ n[g] \in Nat /\ Capacity[d] \in Nat
      BY <3>1, CapacityIsNat DEF TypeOK
    <3> HIDE DEF req
    <3> QED
      BY <3>1, <3>2, <3>3, <3>5, <3>6, <3>7
  <2> HIDE DEF req
  <2> QED
    BY <1>1, <1>3, <2>1 DEF NoOvercommit
<1> QED
  BY <1>2, <1>3

(* Steps that neither admit nor end a gang do not touch the ledger.        *)
LEMMA OthersKeepLedger ==
    ASSUME TypeOK, NoOvercommit, UNCHANGED <<spec, reserved, admitted, allocated>>
    PROVE  allocated' \in [Dim -> Nat] /\ NoOvercommit'
<1>1. \A d \in Dim : Held(d)' = Held(d)
  BY DEF Held
<1> QED
  BY <1>1 DEF NoOvercommit, TypeOK

-----------------------------------------------------------------------------
(* The barriers                                                            *)

(* A worker that moves among those that came, or among the others, does    *)
(* not change who came.                                                    *)
Outside == {"away", "holds", "gone"}

LEMMA CameSame ==
    ASSUME BarrierTypeOK, NEW g \in Gang, NEW w \in Worker, NEW from, NEW to,
           Goes(g, w, from, to), from \in Outside <=> to \in Outside
    PROVE  \A h \in Gang : Came(h)' = Came(h)
BY DEF BarrierTypeOK, Goes, Came, Outside

LEMMA CameMore ==
    ASSUME BarrierTypeOK, NEW g \in Gang, NEW w \in Worker, NEW to,
           Goes(g, w, "holds", to), to \notin Outside
    PROVE  /\ Cardinality(Came(g)') = Cardinality(Came(g)) + 1
           /\ Cardinality(Came(g)) \in Nat
           /\ \A h \in Gang \ {g} : Came(h)' = Came(h)
<1>1. Came(g)' = Came(g) \cup {w} /\ w \notin Came(g)
  BY DEF BarrierTypeOK, Goes, Came, Outside
<1>2. IsFiniteSet(Came(g))
  BY WorkersAreFinite, FS_Subset DEF Came
<1>3. Cardinality(Came(g) \cup {w}) = Cardinality(Came(g)) + 1
  BY <1>1, <1>2, FS_AddElement
<1>4. Cardinality(Came(g)) \in Nat
  BY <1>2, FS_CardinalityType
<1> QED
  BY <1>1, <1>3, <1>4 DEF BarrierTypeOK, Goes, Came

(* A step of one worker at its barrier.                                    *)
LEMMA WorkerKeepsMeeting ==
    ASSUME BarrierTypeOK, NEW g \in Gang, NEW w \in Worker, BarrierStep(g, w),
           \A h \in Gang : Meeting(h)
    PROVE  UNCHANGED expected /\ \A h \in Gang : Meeting(h)'
<1> USE DEF BarrierTypeOK, Meeting
<1>1. CASE Arrive(g, w)
  <2> DEFINE to == IF arrived[g] + 1 < expected[g] THEN "waits" ELSE "last"
  <2>1. Goes(g, w, "holds", to) /\ to \notin Outside
    BY <1>1 DEF Arrive, Outside
  <2>2. /\ Cardinality(Came(g)') = Cardinality(Came(g)) + 1
        /\ \A h \in Gang \ {g} : Came(h)' = Came(h)
    BY <2>1, CameMore
  <2>3. UNCHANGED <<expected, released, failed>> /\ arrived' = [arrived EXCEPT ![g] = @ + 1]
    BY <1>1 DEF Arrive
  <2>4. ASSUME NEW h \in Gang, h # g PROVE Meeting(h)'
    BY <2>1, <2>2, <2>3, <2>4 DEF Goes
  <2>5. Meeting(g)'
    <3>1. arrived'[g] = arrived[g] + 1 /\ arrived[g] \in Nat /\ expected[g] \in Nat
      BY <2>3
    <3>2. arrived'[g] = Cardinality(Came(g)')
      BY <2>2, <3>1
    <3>3. \A v \in Worker : at'[g][v] = IF v = w THEN to ELSE at[g][v]
      BY <2>1 DEF Goes
    <3>4. expected[g] # 0 /\ to \in {"waits", "last"}
      BY <2>1 DEF Goes
    <3>5. to = "last" => arrived'[g] >= expected[g]
      BY <3>1
    <3> HIDE DEF to
    <3> QED
      BY <2>3, <3>1, <3>2, <3>3, <3>4, <3>5
  <2> QED
    BY <2>3, <2>4, <2>5
<1>2. ASSUME NEW from, NEW to, Goes(g, w, from, to), from \in Outside <=> to \in Outside,
             from # "away", to \notin {"away", "last"},
             UNCHANGED <<expected, arrived>>,
             \/ UNCHANGED <<released, failed>>
             \/ FailBarrier(g)
             \/ arrived[g] >= expected[g] /\ released' = released \cup {g} /\ UNCHANGED failed,
             to = "woken" => g \in released,
             to = "ok" => g \in released /\ g \notin failed,
             to = "error" => g \in failed
      PROVE  UNCHANGED expected /\ \A h \in Gang : Meeting(h)'
  <2>1. \A h \in Gang : Came(h)' = Came(h)
    BY <1>2, CameSame
  <2>2. \A h \in Gang : h # g => at'[h] = at[h]
    BY <1>2 DEF Goes
  <2>3. \A v \in Worker : at'[g][v] = IF v = w THEN to ELSE at[g][v]
    BY <1>2 DEF Goes
  <2>4. expected[g] # 0
    BY <1>2 DEF Goes
  <2>5. ASSUME NEW h \in Gang, h # g PROVE Meeting(h)'
    BY <1>2, <2>1, <2>2, <2>5 DEF FailBarrier
  <2>6. Meeting(g)'
    BY <1>2, <2>1, <2>3, <2>4 DEF FailBarrier
  <2> QED
    BY <1>2, <2>5, <2>6
<1> HIDE DEF Meeting
<1>3. CASE ReleaseAll(g, w)
  <2>1. arrived[g] >= expected[g]
    BY <1>3 DEF ReleaseAll, Goes, Meeting
  <2> QED
    BY <1>2, <1>3, <2>1 DEF ReleaseAll, Outside
<1>4. CASE Receive(g, w)
  BY <1>2, <1>4 DEF Receive, Outside
<1>5. CASE ReadOutcome(g, w)
  <2>1. g \in released
    BY <1>5 DEF ReadOutcome, Goes, Meeting
  <2>2. CASE g \in failed
    BY <1>2, <1>5, <2>2 DEF ReadOutcome, Outside
  <2>3. CASE g \notin failed
    BY <1>2, <1>5, <2>1, <2>3 DEF ReadOutcome, Outside
  <2> QED
    BY <2>2, <2>3
<1>6. CASE Spin(g, w)
  BY <1>2, <1>6 DEF Spin, Outside
<1>7. CASE SpinSees(g, w)
  BY <1>2, <1>7 DEF SpinSees, Outside
<1>8. CASE SpinMisses(g, w)
  BY <1>2, <1>8 DEF SpinMisses, Outside
<1>9. CASE SpinExpires(g, w)
  BY <1>2, <1>9 DEF SpinExpires, Outside
<1>10. CASE WorkerFails(g, w)
  BY <1>2, <1>10 DEF WorkerFails, Outside
<1> QED
  BY <1>1, <1>3, <1>4, <1>5, <1>6, <1>7, <1>8, <1>9, <1>10 DEF BarrierStep, Leave

(* Fail from outside: the watcher, or the end of the gang.                 *)
LEMMA FailKeepsMeeting ==
    ASSUME BarrierTypeOK, NEW g \in Gang, FailBarrier(g), expected[g] > 0,
           UNCHANGED <<expected, arrived, at>>, \A h \in Gang : Meeting(h)
    PROVE  \A h \in Gang : Meeting(h)'
<1>1. \A h \in Gang : Came(h)' = Came(h)
  BY DEF Came
<1> QED
  BY <1>1 DEF FailBarrier, Meeting, BarrierTypeOK

LEMMA StillMeeting ==
    ASSUME UNCHANGED barrierVars, \A h \in Gang : Meeting(h)
    PROVE  \A h \in Gang : Meeting(h)'
<1>1. \A h \in Gang : Came(h)' = Came(h)
  BY DEF Came, barrierVars
<1> QED
  BY <1>1 DEF Meeting, barrierVars

LEMMA QuietKeepsBarriers ==
    ASSUME TypeOK, ResourcesFollowState, BarrierInv, Quiet
    PROVE  BarrierInv'
<1>1. UNCHANGED expected /\ \A h \in Gang : Meeting(h)'
  <2>1. ASSUME NEW g \in Gang, NEW w \in Worker, GetBarrier(g, w)
        PROVE  UNCHANGED expected /\ \A h \in Gang : Meeting(h)'
    <3>1. \A h \in Gang : Came(h)' = Came(h)
      BY <2>1, CameSame DEF GetBarrier, TypeOK, Outside
    <3>2. expected[g] > 0 /\ expected[g] \in Nat
      BY <2>1 DEF GetBarrier, ResourcesFollowState, BarrierInv, TypeOK, BarrierTypeOK
    <3>3. UNCHANGED <<expected, arrived, released, failed>> /\ at \in [Gang -> [Worker -> Place]]
      BY <2>1 DEF GetBarrier, TypeOK, BarrierTypeOK
    <3>4. \A h \in Gang : h # g => at'[h] = at[h]
      BY <2>1, <3>3 DEF GetBarrier, Goes
    <3>5. \A v \in Worker : at'[g][v] = IF v = w THEN "holds" ELSE at[g][v]
      BY <2>1, <3>3 DEF GetBarrier, Goes
    <3>6. \A h \in Gang : Meeting(h)
      BY DEF BarrierInv
    <3>7. ASSUME NEW h \in Gang, h # g PROVE Meeting(h)'
      BY <3>1, <3>3, <3>4, <3>6, <3>7 DEF Meeting
    <3>8. Meeting(g)'
      BY <3>1, <3>2, <3>3, <3>5, <3>6 DEF Meeting
    <3> QED
      BY <3>3, <3>7, <3>8
  <2>2. ASSUME NEW g \in Gang, Meet(g)
        PROVE  UNCHANGED expected /\ \A h \in Gang : Meeting(h)'
    <3>1. CASE WatcherFires(g)
      BY <3>1, FailKeepsMeeting DEF WatcherFires, BarrierInv, TypeOK
    <3>2. ASSUME NEW w \in Worker, BarrierStep(g, w)
          PROVE  UNCHANGED expected /\ \A h \in Gang : Meeting(h)'
      BY <3>2, WorkerKeepsMeeting DEF BarrierInv, TypeOK
    <3> QED
      BY <2>2, <3>1, <3>2, CrewsAreWorkers DEF Meet
  <2> QED
    BY <2>1, <2>2, CrewsAreWorkers DEF Quiet
<1> QED
  BY <1>1, QuietKeeps DEF BarrierInv, schedVars

(* A step that moves a gang to a new state.                                *)
LEMMA MoveKeepsBarriers ==
    ASSUME TypeOK, ResourcesFollowState, BarrierInv,
           NEW g \in Gang, NEW to \in State, Move(g, to)
    PROVE  BarrierInv'
<1>1. state' = [state EXCEPT ![g] = to]
  BY DEF Move, Submit, Admit, Start, End, Moves
<1>2. \A h \in Gang : Meeting(h)
  BY DEF BarrierInv
<1>3. CASE UNCHANGED barrierVars /\ to # "running"
           /\ (to \in {"pending", "gang_ready"} => state[g] \in {"", "pending"})
  <2>1. (\A h \in Gang : Meeting(h)') /\ expected' = expected
    BY <1>2, <1>3, StillMeeting DEF barrierVars
  <2>2. \A h \in Gang : state'[h] = IF h = g THEN to ELSE state[h]
    BY <1>1 DEF TypeOK
  <2>3. to \in {"pending", "gang_ready"} => expected[g] = 0
    BY <1>3 DEF BarrierInv
  <2>4. to # "running" /\ to # ""
    BY <1>3 DEF Move
  <2> QED
    BY <2>1, <2>2, <2>3, <2>4 DEF BarrierInv
<1>4. CASE to = "pending" /\ Submit(g)
  BY <1>3, <1>4 DEF Submit
<1>5. CASE to = "gang_ready" /\ Admit(g)
  BY <1>3, <1>5 DEF Admit
<1>6. CASE to = "running" /\ Start(g)
  <2>1. expected[g] = 0
    BY <1>6 DEF Start, Transition, BarrierInv
  <2>2. \A h \in Gang : Came(h)' = Came(h)
    BY <1>6 DEF Start, Create, Came
  <2>3. spec[g].replicas \in Nat /\ spec[g].replicas > 0
    BY Members DEF TypeOK
  <2>4. /\ expected' = [expected EXCEPT ![g] = spec[g].replicas]
        /\ UNCHANGED <<arrived, released, failed, at>>
    BY <1>6 DEF Start, Create
  <2>5. ASSUME NEW h \in Gang, h # g PROVE Meeting(h)'
    BY <1>2, <2>2, <2>4, <2>5 DEF Meeting
  <2>6. Meeting(g)'
    <3>1. g \notin released /\ \A w \in Worker : at[g][w] = "away"
      BY <1>2, <2>1 DEF Meeting
    <3> QED
      BY <1>2, <2>2, <2>3, <2>4, <3>1 DEF Meeting, TypeOK, BarrierTypeOK
  <2> QED
    BY <1>1, <1>6, <2>3, <2>4, <2>5, <2>6 DEF BarrierInv, TypeOK, BarrierTypeOK
<1>7. CASE to \in {"succeeded", "failed"} /\ End(g, to)
  <2>1. CASE g \notin barriers
    <3>1. UNCHANGED barrierVars
      BY <1>7, <2>1 DEF End, DropBarrier, barrierVars
    <3> QED
      BY <1>3, <1>7, <3>1
  <2>2. CASE g \in barriers
    <3>1. expected[g] > 0 /\ FailBarrier(g) /\ UNCHANGED <<expected, arrived, at>>
      BY <1>7, <2>2 DEF End, DropBarrier, ResourcesFollowState, BarrierInv
    <3>2. \A h \in Gang : Meeting(h)'
      BY <1>2, <3>1, FailKeepsMeeting DEF TypeOK
    <3> QED
      BY <1>1, <1>7, <3>1, <3>2 DEF BarrierInv, TypeOK
  <2> QED
    BY <2>1, <2>2
<1> QED
  BY <1>4, <1>5, <1>6, <1>7 DEF Move

-----------------------------------------------------------------------------
(* What a gang holds follows its state                                     *)

LEMMA MoveKeepsResources ==
    ASSUME TypeOK, ResourcesFollowState, BarrierInv,
           NEW g \in Gang, NEW to \in State, Move(g, to)
    PROVE  ResourcesFollowState'
<1> USE DEF ResourcesFollowState, Terminal
<1>1. state' = [state EXCEPT ![g] = to] /\ state \in [Gang -> State]
  BY DEF Move, Submit, Admit, Start, End, Moves, TypeOK
<1>2. CASE to = "pending" /\ Submit(g)
  BY <1>1, <1>2 DEF Submit, barrierVars
<1>3. CASE to = "gang_ready" /\ Admit(g)
  BY <1>1, <1>3 DEF Admit, barrierVars
<1>4. CASE to = "running" /\ Start(g)
  BY <1>1, <1>4 DEF Start, Create, Transition, TypeOK, BarrierTypeOK
<1>5. CASE to \in {"succeeded", "failed"} /\ End(g, to)
  <2>1. /\ reserved' = reserved \ {g}
        /\ barriers' = barriers \ {g}
        /\ expected' = expected
        /\ released \subseteq released'
    BY <1>5 DEF End, DropBarrier, FailBarrier, Refund
  <2>2. reserved' = {h \in Gang : state'[h] \in {"gang_ready", "running"}}
    BY <1>1, <1>5, <2>1
  <2>3. barriers' = {h \in Gang : state'[h] = "running"}
    BY <1>1, <1>5, <2>1
  <2>4. expected[g] > 0 => g \in released'
    <3>1. CASE g \in barriers
      BY <1>5, <3>1 DEF End, DropBarrier, FailBarrier
    <3>2. CASE g \notin barriers
      <4>1. <<state[g], to>> \in Transition /\ state[g] # "running"
        BY <1>5, <3>2 DEF End
      <4>2. state[g] \in {"pending", "gang_ready"}
        BY <4>1 DEF Transition
      <4>3. expected[g] = 0
        BY <4>2 DEF BarrierInv
      <4> QED
        BY <4>3
    <3> QED
      BY <3>1, <3>2
  <2> QED
    BY <1>1, <2>1, <2>2, <2>3, <2>4
<1> QED
  BY <1>2, <1>3, <1>4, <1>5 DEF Move

LEMMA QuietKeepsResources ==
    ASSUME TypeOK, ResourcesFollowState, Quiet
    PROVE  ResourcesFollowState'
<1>1. UNCHANGED schedVars
  BY QuietKeeps
<1>2. expected' = expected /\ released \subseteq released'
  BY DEF Quiet, GetBarrier, Meet, WatcherFires, BarrierStep, Leave, Arrive, ReleaseAll,
         Receive, ReadOutcome, Spin, SpinSees, SpinMisses, SpinExpires, WorkerFails, FailBarrier
<1> QED
  BY <1>1, <1>2 DEF ResourcesFollowState, Terminal, schedVars

-----------------------------------------------------------------------------
(* The inductive invariant                                                 *)
GangInv == TypeOK /\ NoOvercommit /\ ResourcesFollowState /\ BarrierInv

LEMMA GangInit == Init => GangInv
<1> SUFFICES ASSUME Init PROVE GangInv
  OBVIOUS
<1>1. TypeOK
  BY TypeInit
<1>2. NoOvercommit
  <2>1. \A d \in Dim : Held(d) = {}
    BY DEF Init, Held
  <2>2. Cardinality({}) = 0
    BY FS_EmptySet
  <2> QED
    <3>1. \A d \in Dim : allocated[d] = 0 /\ Capacity[d] \in Nat
      BY CapacityIsNat DEF Init
    <3> QED
      BY <2>1, <2>2, <3>1 DEF NoOvercommit
<1>3. ResourcesFollowState
  BY DEF Init, ResourcesFollowState, Terminal
<1>4. BarrierInv
  <2>1. \A g \in Gang : Came(g) = {}
    BY DEF Init, BarrierInit, Came
  <2>2. Cardinality({}) = 0
    BY FS_EmptySet
  <2> QED
    BY <2>1, <2>2 DEF Init, BarrierInit, BarrierInv, Meeting
<1> QED
  BY <1>1, <1>2, <1>3, <1>4 DEF GangInv

LEMMA GangStep == GangInv /\ [Next]_vars => GangInv'
<1> SUFFICES ASSUME GangInv, [Next]_vars PROVE GangInv'
  OBVIOUS
<1> USE DEF GangInv
<1>1. ASSUME NEW g \in Gang, NEW to \in State, Move(g, to)
      PROVE  GangInv'
  <2>1. allocated' \in [Dim -> Nat] /\ NoOvercommit'
    <3>1. CASE Admit(g)
      BY <3>1, AdmitKeepsLedger
    <3>2. CASE End(g, to)
      BY <3>2, EndKeepsLedger
    <3>3. CASE Submit(g) \/ Start(g)
      BY <3>3, OthersKeepLedger DEF Submit, Start
    <3> QED
      BY <1>1, <3>1, <3>2, <3>3 DEF Move
  <2>2. TypeOK'
    BY <1>1, <2>1, MoveType DEF TypeOK
  <2> QED
    BY <1>1, <2>1, <2>2, MoveKeepsBarriers, MoveKeepsResources
<1>2. CASE Quiet
  <2>1. NoOvercommit'
    BY <1>2, QuietKeeps, OthersKeepLedger DEF schedVars
  <2> QED
    BY <1>2, <2>1, QuietType, QuietKeepsBarriers, QuietKeepsResources
<1>3. CASE UNCHANGED vars
  <2>1. TypeOK' /\ ResourcesFollowState'
    BY <1>3 DEF vars, schedVars, barrierVars, TypeOK, BarrierTypeOK, ResourcesFollowState, Terminal
  <2>2. NoOvercommit'
    BY <1>3, OthersKeepLedger DEF vars, schedVars
  <2>3. BarrierInv'
    BY <1>3, StillMeeting DEF vars, schedVars, barrierVars, BarrierInv
  <2> QED
    BY <2>1, <2>2, <2>3
<1> QED
  BY <1>1, <1>2, <1>3, StepKinds

(* GangInv always holds.                                                   *)
THEOREM Invariance == Spec => []GangInv
BY GangInit, GangStep, PTL DEF Spec

(* Every variable of the scheduler and of the barriers keeps its type; in  *)
(* particular no dimension of s.allocated ever becomes negative.           *)
THEOREM TypeCorrect == Spec => []TypeOK
<1>1. GangInv => TypeOK
  BY DEF GangInv
<1> QED
  BY <1>1, Invariance, PTL

(* s.allocated is exactly what the admitted gangs hold and never exceeds   *)
(* the capacity, for any specs and any order of admissions and ends.       *)
THEOREM NeverOvercommitted == Spec => []NoOvercommit
<1>1. GangInv => NoOvercommit
  BY DEF GangInv
<1> QED
  BY <1>1, Invariance, PTL

(* Reservations and barriers follow the gang's state, and the end of a     *)
(* gang releases the barrier it had.                                       *)
THEOREM NothingLeaks == Spec => []ResourcesFollowState
<1>1. GangInv => ResourcesFollowState
  BY DEF GangInv
<1> QED
  BY <1>1, Invariance, PTL

(* Success is told only after the whole gang came, and never to one worker *)
(* while Wait tells failure to another.                                    *)
THEOREM SameOutcome == Spec => []OneOutcome
<1>1. GangInv => OneOutcome
  BY DEF GangInv, BarrierInv, Meeting, OneOutcome
<1> QED
  BY <1>1, Invariance, PTL

-----------------------------------------------------------------------------
(* The audit trail                                                         *)

LEMMA MoveIsTransition ==
    ASSUME NEW g \in Gang, NEW to \in State, Move(g, to)
    PROVE  /\ Moves(g, to)
           /\ \/ state[g] = "" /\ to = "pending"
              \/ <<state[g], to>> \in Transition
<1>1. CASE to = "pending" /\ Submit(g)
  BY <1>1 DEF Submit
<1>2. CASE to = "gang_ready" /\ Admit(g)
  BY <1>2 DEF Admit, Transition
<1>3. CASE to = "running" /\ Start(g)
  BY <1>3 DEF Start
<1>4. CASE to \in {"succeeded", "failed"} /\ End(g, to)
  BY <1>4 DEF End
<1> QED
  BY <1>1, <1>2, <1>3, <1>4 DEF Move

LEMMA ShortTrail ==
    ASSUME NEW k, k = 0 \/ k = 1 \/ k = 2 \/ k = 3
    PROVE  /\ k + 1 \in 1..4 /\ k + 1 <= 4
           /\ (k = 0 => k + 1 = 1) /\ (k = 1 => k + 1 = 2) /\ (k = 2 => k + 1 = 3)
OBVIOUS

LEMMA BeforeLast ==
    ASSUME NEW k \in Nat, k + 1 >= 2, k + 1 <= 4
    PROVE  k \in 1..k /\ k \in 1..4
OBVIOUS

LEMMA MoveKeepsTrail ==
    ASSUME TypeOK, LengthInv, ReceiptsAreComplete,
           NEW g \in Gang, NEW to \in State, Move(g, to)
    PROVE  LengthInv' /\ ReceiptsAreComplete'
<1>0. PICK e, n : e = events[g] /\ n = Len(e) + 1
  OBVIOUS
<1> DEFINE rec == [seq |-> seq + 1, from |-> state[g], to |-> to]
           new == <<g, n>>
<1>1. /\ state' = [state EXCEPT ![g] = to]
      /\ seq' = seq + 1
      /\ events' = [events EXCEPT ![g] = Append(e, rec)]
  BY <1>0, MoveIsTransition DEF Moves
<1>2. seq \in Nat /\ e \in Seq(Receipt) /\ Len(e) \in Nat
  BY <1>0 DEF TypeOK
<1>3. \/ state[g] = "" /\ to = "pending" /\ Len(e) = 0
      \/ state[g] = "pending" /\ to \in {"gang_ready", "failed"} /\ Len(e) = 1
      \/ state[g] = "gang_ready" /\ to \in {"running", "failed"} /\ Len(e) = 2
      \/ state[g] = "running" /\ to \in {"succeeded", "failed"} /\ Len(e) = 3
  BY <1>0, MoveIsTransition DEF Transition, LengthInv
<1>4. /\ \A h \in Gang : h # g => events'[h] = events[h] /\ state'[h] = state[h]
      /\ state'[g] = to
      /\ Len(events'[g]) = n
      /\ \A i \in 1..Len(e) : events'[g][i] = e[i]
      /\ events'[g][n] = rec
  <2>1. events'[g] = Append(e, rec)
    BY <1>1 DEF TypeOK
  <2> HIDE DEF rec
  <2> QED
    BY <1>0, <1>1, <1>2, <2>1 DEF TypeOK
<1>5. n \in 1..4 /\ n <= 4
  <2>1. Len(e) = 0 \/ Len(e) = 1 \/ Len(e) = 2 \/ Len(e) = 3
    BY <1>3
  <2> QED
    BY <1>0, <2>1, ShortTrail
<1>6. LengthInv'
  <2>1. ASSUME NEW h \in Gang, h # g
        PROVE  events'[h] = events[h] /\ state'[h] = state[h]
    BY <1>4, <2>1
  <2>2. /\ to = "pending" => n = 1
        /\ to = "gang_ready" => n = 2
        /\ to = "running" => n = 3
        /\ to # ""
    <3>1. /\ Len(e) = 0 => n = 1
          /\ Len(e) = 1 => n = 2
          /\ Len(e) = 2 => n = 3
      <4>1. Len(e) = 0 \/ Len(e) = 1 \/ Len(e) = 2 \/ Len(e) = 3
        BY <1>3
      <4> QED
        BY <1>0, <4>1, ShortTrail
    <3> QED
      BY <1>3, <3>1
  <2> DEFINE Short(h) == /\ state[h] = "" => Len(events[h]) = 0
                         /\ state[h] = "pending" => Len(events[h]) = 1
                         /\ state[h] = "gang_ready" => Len(events[h]) = 2
                         /\ state[h] = "running" => Len(events[h]) = 3
                         /\ Len(events[h]) <= 4
  <2>3. ASSUME NEW h \in Gang, h # g
        PROVE  Short(h)'
    <3>1. Short(h)
      BY DEF LengthInv
    <3> QED
      BY <2>1, <2>3, <3>1
  <2>4. Short(g)'
    <3>1. state'[g] = to /\ Len(events'[g]) = n
      BY <1>4
    <3> QED
      BY <1>5, <2>2, <3>1
  <2>5. \A h \in Gang : Short(h)'
    BY <2>3, <2>4
  <2> QED
    BY <2>5 DEF LengthInv
<1>7. Issued' = Issued \cup {new} /\ new \notin Issued
  <2>1. \A h \in Gang : \A i \in 1..4 :
           i <= Len(events'[h]) <=> (i <= Len(events[h]) \/ (h = g /\ i = n))
    BY <1>0, <1>2, <1>4, <1>5
  <2>2. Issued' \subseteq Issued \cup {new} /\ Issued \subseteq Issued'
    BY <2>1 DEF Issued
  <2>3. new \in Issued'
    BY <1>4, <1>5 DEF Issued
  <2>4. new \notin Issued
    BY <1>0, <1>2 DEF Issued
  <2> QED
    BY <2>2, <2>3, <2>4
<1>8. \A r \in Issued : SeqOf(r)' = SeqOf(r) /\ SeqOf(r) \in 1..seq
  <2>1. ASSUME NEW r \in Issued PROVE events'[r[1]][r[2]] = events[r[1]][r[2]]
    BY <1>0, <1>2, <1>4 DEF Issued
  <2> QED
    BY <2>1 DEF SeqOf, ReceiptsAreComplete
<1>9. SeqOf(new)' = seq + 1
  <2>1. SeqOf(new)' = events'[g][n].seq
    BY <1>4 DEF SeqOf
  <2> QED
    BY <1>4, <2>1
<1>10. \A r \in Issued' : SeqOf(r)' \in 1..seq'
  <2>1. seq' = seq + 1 /\ seq + 1 \in 1..seq + 1 /\ 1..seq \subseteq 1..seq + 1
    BY <1>1, <1>2
  <2> HIDE DEF new
  <2> QED
    BY <1>7, <1>8, <1>9, <2>1
<1>11. \A r, q \in Issued' : SeqOf(r)' = SeqOf(q)' => r = q
  <2>1. \A r, q \in Issued : SeqOf(r) = SeqOf(q) => r = q
    BY DEF ReceiptsAreComplete
  <2>2. \A r \in Issued : SeqOf(r)' # seq + 1
    BY <1>2, <1>8
  <2> HIDE DEF new
  <2> QED
    BY <1>7, <1>8, <1>9, <2>1, <2>2
<1>12. Cardinality(Issued') = seq'
  <2>1. IsFiniteSet(Gang \X (1..4))
    <3>1. 1 \in Int /\ 4 \in Int
      OBVIOUS
    <3>2. IsFiniteSet(1..4)
      BY <3>1, FS_Interval
    <3> QED
      BY <3>2, GangsAreFinite, FS_Product
  <2>2. IsFiniteSet(Issued)
    BY <2>1, FS_Subset DEF Issued
  <2>3. Cardinality(Issued \cup {new}) = Cardinality(Issued) + 1
    BY <1>7, <2>2, FS_AddElement
  <2> QED
    BY <1>1, <1>7, <2>3 DEF ReceiptsAreComplete
<1>13. ASSUME NEW h \in Gang, NEW i \in 2..Len(events'[h])
       PROVE  /\ events'[h][i].from = events'[h][i - 1].to
              /\ events'[h][i].seq > events'[h][i - 1].seq
  <2>1. CASE h # g
    BY <1>0, <1>4, <1>13, <2>1 DEF ReceiptsAreComplete
  <2>2. CASE h = g /\ i # n
    <3>1. i \in 2..Len(e) /\ i - 1 \in 1..Len(e) /\ i \in 1..Len(e)
      BY <1>0, <1>2, <1>4, <1>13, <2>2
    <3> QED
      BY <1>0, <1>4, <2>2, <3>1 DEF ReceiptsAreComplete
  <2>3. CASE h = g /\ i = n
    <3>1. Len(e) \in 1..Len(e) /\ Len(e) \in 1..4 /\ n - 1 = Len(e)
      <4>1. n >= 2
        BY <1>4, <1>13, <2>3
      <4>2. Len(e) + 1 >= 2 /\ Len(e) + 1 <= 4
        BY <1>0, <1>5, <4>1
      <4>3. Len(e) \in 1..Len(e) /\ Len(e) \in 1..4
        BY <1>2, <4>2, BeforeLast
      <4>4. n - 1 = Len(e)
        BY <1>0, <1>2
      <4> QED
        BY <4>3, <4>4
    <3>2. e[Len(e)].to = state[g]
      BY <1>0, <1>2, <3>1 DEF ReceiptsAreComplete
    <3>3. <<g, Len(e)>> \in Issued
      <4>1. Len(e) <= Len(events[g])
        BY <1>0, <1>2
      <4> QED
        BY <3>1, <4>1 DEF Issued
    <3>4. e[Len(e)].seq \in 1..seq
      BY <1>0, <1>8, <3>3 DEF SeqOf
    <3>5. rec.from = state[g] /\ rec.seq = seq + 1
      OBVIOUS
    <3>6. events'[g][n] = rec /\ events'[g][n - 1] = e[Len(e)]
      BY <1>4, <3>1
    <3> HIDE DEF rec
    <3> QED
      BY <1>2, <2>3, <3>2, <3>4, <3>5, <3>6
  <2> QED
    BY <2>1, <2>2, <2>3
<1>14. ASSUME NEW h \in Gang, events'[h] # <<>>
       PROVE  events'[h][Len(events'[h])].to = state'[h]
  BY <1>0, <1>2, <1>4, <1>14 DEF ReceiptsAreComplete
<1> QED
  BY <1>6, <1>10, <1>11, <1>12, <1>13, <1>14 DEF ReceiptsAreComplete

LEMMA TrailInit == Init => LengthInv /\ ReceiptsAreComplete
<1> SUFFICES ASSUME Init PROVE LengthInv /\ ReceiptsAreComplete
  OBVIOUS
<1>1. \A g \in Gang : events[g] = <<>> /\ state[g] = "" /\ Len(events[g]) = 0
  BY DEF Init
<1>2. Issued = {}
  <2>1. ASSUME NEW g \in Gang, NEW i \in 1..4 PROVE ~(i <= Len(events[g]))
    <3>1. Len(events[g]) = 0
      BY <1>1
    <3> QED
      BY <3>1
  <2> QED
    BY <2>1 DEF Issued
<1>3. Cardinality({}) = 0
  BY FS_EmptySet
<1>4. LengthInv
  <2>1. \A g \in Gang : state[g] = "" /\ Len(events[g]) = 0
    BY <1>1
  <2>2. 0 <= 4
    OBVIOUS
  <2>3. \A g \in Gang : Len(events[g]) <= 4
    BY <2>1, <2>2, Zenon
  <2> QED
    BY <2>1, <2>3 DEF LengthInv
<1>5. seq = 0 /\ \A g \in Gang : 2..Len(events[g]) = {}
  <2>1. 2..0 = {}
    OBVIOUS
  <2> QED
    BY <1>1, <2>1, Zenon DEF Init
<1> QED
  BY <1>1, <1>2, <1>3, <1>4, <1>5 DEF ReceiptsAreComplete

LEMMA TrailStep ==
    TypeOK /\ LengthInv /\ ReceiptsAreComplete /\ [Next]_vars
        => LengthInv' /\ ReceiptsAreComplete'
<1> SUFFICES ASSUME TypeOK, LengthInv, ReceiptsAreComplete, [Next]_vars
             PROVE  LengthInv' /\ ReceiptsAreComplete'
  OBVIOUS
<1>1. CASE UNCHANGED schedVars
  <2>1. Issued' = Issued /\ \A r \in Issued : SeqOf(r)' = SeqOf(r)
    BY <1>1 DEF schedVars, Issued, SeqOf
  <2>2. LengthInv'
    BY <1>1 DEF schedVars, LengthInv
  <2>3. events' = events /\ state' = state /\ seq' = seq
    BY <1>1 DEF schedVars
  <2> QED
    BY <2>1, <2>2, <2>3 DEF ReceiptsAreComplete
<1> QED
  BY <1>1, StepKinds, QuietKeeps, MoveKeepsTrail DEF vars

(* The receipts carry the numbers 1..seq, once each, and tell the history  *)
(* of every gang without a gap.                                            *)
THEOREM TrailIsComplete == Spec => []ReceiptsAreComplete
BY TrailInit, TrailStep, TypeCorrect, PTL DEF Spec

-----------------------------------------------------------------------------
(* The barriers implement the rendezvous                                   *)

(* What a step does to the abstract state, gang by gang.                   *)
SameCame(G) == \A h \in G : Came(h)' = Came(h)
SameOutcomes(G) == \A h \in G : Outcome(h)' = Outcome(h)
SameTold(G) == \A h \in G : Told(h)' = Told(h)

LEMMA AbsStutters ==
    ASSUME UNCHANGED expected, SameCame(Gang), SameOutcomes(Gang), SameTold(Gang)
    PROVE  UNCHANGED RV!absVars
BY DEF RV!absVars, SameCame, SameOutcomes, SameTold

LEMMA AbsDecides ==
    ASSUME NEW g \in Gang, UNCHANGED expected, SameCame(Gang), SameTold(Gang),
           SameOutcomes(Gang \ {g}), Outcome(g) = "open", expected[g] > 0,
           \/ Outcome(g)' = "failed"
           \/ Outcome(g)' = "ok" /\ Cardinality(Came(g)) >= expected[g]
    PROVE  RV!AbsNext
<1>1. [h \in Gang |-> Outcome(h)]' = [[h \in Gang |-> Outcome(h)] EXCEPT ![g] = Outcome(g)']
  BY DEF SameOutcomes
<1>2. UNCHANGED <<expected, [h \in Gang |-> Came(h)], [h \in Gang |-> Told(h)]>>
  BY DEF SameCame, SameTold
<1>3. /\ [h \in Gang |-> Outcome(h)][g] = Outcome(g)
      /\ [h \in Gang |-> Came(h)][g] = Came(g)
  OBVIOUS
<1>4. RV!Break(g) \/ RV!Complete(g)
  <2>1. CASE Outcome(g)' = "failed"
    BY <1>1, <1>2, <1>3, <2>1 DEF RV!Break
  <2>2. CASE Outcome(g)' = "ok" /\ Cardinality(Came(g)) >= expected[g]
    <3>1. [h \in Gang |-> Outcome(h)]' = [[h \in Gang |-> Outcome(h)] EXCEPT ![g] = "ok"]
      BY <1>1, <2>2
    <3>2. Cardinality([h \in Gang |-> Came(h)][g]) >= expected[g]
      BY <2>2
    <3> QED
      BY <1>2, <1>3, <3>1, <3>2 DEF RV!Complete, RV!Cardinality, Cardinality
  <2> QED
    BY <2>1, <2>2
<1> QED
  BY <1>4 DEF RV!AbsNext

(* Fail decides the barrier if nobody did before.                          *)
LEMMA FailDecides ==
    ASSUME BarrierTypeOK, NEW g \in Gang, FailBarrier(g), expected[g] > 0, Meeting(g),
           UNCHANGED expected, SameCame(Gang), SameTold(Gang)
    PROVE  RV!AbsNext \/ UNCHANGED RV!absVars
<1>1. SameOutcomes(Gang \ {g})
  BY DEF SameOutcomes, Outcome, FailBarrier
<1>2. CASE g \in released
  <2>1. Outcome(g)' = Outcome(g)
    BY <1>2 DEF Outcome, FailBarrier
  <2>2. SameOutcomes(Gang)
    BY <1>1, <2>1 DEF SameOutcomes
  <2> QED
    BY <2>2, AbsStutters
<1>3. CASE g \notin released
  <2>1. Outcome(g) = "open" /\ Outcome(g)' = "failed"
    BY <1>3 DEF Outcome, FailBarrier
  <2> QED
    BY <1>1, <2>1, AbsDecides
<1> QED
  BY <1>2, <1>3

(* Who was told what changes only when a worker gets or drops an answer.   *)
LEMMA ToldSame ==
    ASSUME BarrierTypeOK, NEW g \in Gang, NEW w \in Worker, NEW from, NEW to,
           Goes(g, w, from, to), from \notin {"ok", "error"}, to \notin {"ok", "error"}
    PROVE  SameTold(Gang)
<1>1. \A h \in Gang : \A v \in Worker :
         at'[h][v] = at[h][v] \/ (at[h][v] \notin {"ok", "error"} /\ at'[h][v] \notin {"ok", "error"})
  BY DEF BarrierTypeOK, Goes
<1> QED
  BY <1>1 DEF SameTold, Told

LEMMA WorkerRefines ==
    ASSUME BarrierTypeOK, NEW g \in Gang, NEW w \in Worker, BarrierStep(g, w),
           \A h \in Gang : Meeting(h)
    PROVE  RV!AbsNext \/ UNCHANGED RV!absVars
<1>1. expected' = expected
  BY WorkerKeepsMeeting
<1>2. at[g][w] # "away" => expected[g] > 0
  BY DEF Meeting, BarrierTypeOK
<1>3. CASE Arrive(g, w)
  <2> DEFINE to == IF arrived[g] + 1 < expected[g] THEN "waits" ELSE "last"
  <2>1. Goes(g, w, "holds", to) /\ to \in {"waits", "last"}
    BY <1>3 DEF Arrive
  <2>2. SameTold(Gang)
    BY <2>1, ToldSame
  <2>3. SameOutcomes(Gang)
    BY <1>3 DEF Arrive, SameOutcomes, Outcome
  <2>4. w \notin Came(g) /\ Came(g)' = Came(g) \cup {w} /\ SameCame(Gang \ {g})
    BY <2>1 DEF BarrierTypeOK, Goes, Came, SameCame
  <2>5. [h \in Gang |-> Came(h)]' = [[h \in Gang |-> Came(h)] EXCEPT ![g] = @ \cup {w}]
    BY <2>4 DEF SameCame
  <2>6. UNCHANGED <<expected, [h \in Gang |-> Outcome(h)], [h \in Gang |-> Told(h)]>>
    BY <1>1, <2>2, <2>3 DEF SameOutcomes, SameTold
  <2>7. expected[g] > 0
    BY <1>2, <2>1 DEF Goes
  <2>8. RV!Come(g)
    BY <2>4, <2>5, <2>6, <2>7 DEF RV!Come
  <2> QED
    BY <2>8 DEF RV!AbsNext
<1>4. CASE ReleaseAll(g, w)
  <2>1. SameCame(Gang) /\ SameTold(Gang)
    BY <1>4, CameSame, ToldSame DEF ReleaseAll, Outside, SameCame
  <2>2. SameOutcomes(Gang \ {g})
    BY <1>4 DEF ReleaseAll, SameOutcomes, Outcome
  <2>3. CASE g \in released
    <3>1. Outcome(g)' = Outcome(g)
      BY <1>4, <2>3 DEF ReleaseAll, Outcome
    <3>2. SameOutcomes(Gang)
      BY <2>2, <3>1 DEF SameOutcomes
    <3> QED
      BY <1>1, <2>1, <3>2, AbsStutters
  <2>4. CASE g \notin released
    <3>1. g \notin failed /\ Cardinality(Came(g)) >= expected[g]
      BY <1>4, <2>4 DEF ReleaseAll, Goes, Meeting
    <3>2. Outcome(g) = "open" /\ Outcome(g)' = "ok"
      BY <1>4, <2>4, <3>1 DEF ReleaseAll, Outcome
    <3>3. expected[g] > 0
      BY <1>2, <1>4 DEF ReleaseAll, Goes
    <3> QED
      BY <1>1, <2>1, <2>2, <3>1, <3>2, <3>3, AbsDecides
  <2> QED
    BY <2>3, <2>4
<1>5. CASE ReadOutcome(g, w)
  <2> DEFINE to == IF g \in failed THEN "error" ELSE "ok"
  <2>1. Goes(g, w, "woken", to) /\ UNCHANGED <<released, failed>>
    BY <1>5 DEF ReadOutcome
  <2>2. SameCame(Gang)
    BY <2>1, CameSame DEF Outside, SameCame
  <2>3. SameOutcomes(Gang)
    BY <2>1 DEF SameOutcomes, Outcome
  <2>4. SameTold(Gang \ {g})
    BY <2>1 DEF Goes, SameTold, Told, BarrierTypeOK
  <2>5. Outcome(g) # "open" /\ Outcome(g) = IF to = "ok" THEN "ok" ELSE "failed"
    BY <2>1 DEF Goes, Meeting, Outcome
  <2>6. Told(g)' = Told(g) \cup {Outcome(g)}
    <3>1. /\ at[g][w] = "woken" /\ to \in {"ok", "error"}
          /\ \A v \in Worker : at'[g][v] = IF v = w THEN to ELSE at[g][v]
      BY <2>1 DEF Goes, BarrierTypeOK
    <3> HIDE DEF to
    <3> QED
      BY <2>5, <3>1 DEF Told
  <2>7. [h \in Gang |-> Told(h)]' = [[h \in Gang |-> Told(h)] EXCEPT ![g] = @ \cup {Outcome(g)}]
    BY <2>4, <2>6 DEF SameTold
  <2>8. UNCHANGED <<expected, [h \in Gang |-> Came(h)], [h \in Gang |-> Outcome(h)]>>
    BY <1>1, <2>2, <2>3 DEF SameCame, SameOutcomes
  <2>9. RV!Tell(g)
    BY <2>5, <2>7, <2>8 DEF RV!Tell
  <2> QED
    BY <2>9 DEF RV!AbsNext
<1>6. ASSUME NEW from, NEW to, Goes(g, w, from, to), UNCHANGED <<released, failed>>,
             from \notin Outside, to \notin Outside,
             from \notin {"ok", "error"}, to \notin {"ok", "error"}
      PROVE  UNCHANGED RV!absVars
  <2>1. SameCame(Gang) /\ SameTold(Gang)
    BY <1>6, CameSame, ToldSame DEF SameCame
  <2>2. SameOutcomes(Gang)
    BY <1>6 DEF SameOutcomes, Outcome
  <2> QED
    BY <1>1, <2>1, <2>2, AbsStutters
<1>7. CASE Receive(g, w)
  BY <1>6, <1>7 DEF Receive, Outside
<1>8. CASE Spin(g, w)
  BY <1>6, <1>8 DEF Spin, Outside
<1>9. CASE SpinSees(g, w)
  BY <1>6, <1>9 DEF SpinSees, Outside
<1>10. CASE SpinMisses(g, w)
  BY <1>6, <1>10 DEF SpinMisses, Outside
<1>11. ASSUME NEW from, NEW to, Goes(g, w, from, to), FailBarrier(g),
              from # "away", from \in Outside <=> to \in Outside,
              from \notin {"ok", "error"}, to \notin {"ok", "error"}
       PROVE  RV!AbsNext \/ UNCHANGED RV!absVars
  <2>1. SameCame(Gang) /\ SameTold(Gang)
    BY <1>11, CameSame, ToldSame DEF SameCame
  <2>2. expected[g] > 0
    BY <1>2, <1>11 DEF Goes
  <2> QED
    BY <1>1, <1>11, <2>1, <2>2, FailDecides
<1>12. CASE SpinExpires(g, w)
  BY <1>11, <1>12 DEF SpinExpires, Outside
<1>13. CASE WorkerFails(g, w)
  BY <1>11, <1>13 DEF WorkerFails, Outside
<1> QED
  BY <1>3, <1>4, <1>5, <1>7, <1>8, <1>9, <1>10, <1>12, <1>13 DEF BarrierStep, Leave

LEMMA StartRefines ==
    ASSUME TypeOK, BarrierInv, NEW g \in Gang, Start(g)
    PROVE  RV!AbsNext
<1>1. expected[g] = 0 /\ expected \in [Gang -> Nat]
  BY DEF Start, Transition, BarrierInv, TypeOK, BarrierTypeOK
<1>2. spec[g].replicas \in Nat \ {0} /\ expected' = [expected EXCEPT ![g] = spec[g].replicas]
  BY Members DEF Start, Create, TypeOK
<1>3. UNCHANGED <<[h \in Gang |-> Came(h)], [h \in Gang |-> Outcome(h)], [h \in Gang |-> Told(h)]>>
  BY DEF Start, Create, Came, Outcome, Told
<1>4. RV!Open(g)
  BY <1>1, <1>2, <1>3 DEF RV!Open
<1> QED
  BY <1>4 DEF RV!AbsNext

LEMMA StepRefines ==
    ASSUME GangInv, [Next]_vars
    PROVE  RV!AbsNext \/ UNCHANGED RV!absVars
<1> USE DEF GangInv
<1>1. \A h \in Gang : Meeting(h)
  BY DEF BarrierInv
<1>2. CASE UNCHANGED barrierVars
  <2>1. SameCame(Gang) /\ SameOutcomes(Gang) /\ SameTold(Gang)
    BY <1>2 DEF barrierVars, SameCame, SameOutcomes, SameTold, Came, Outcome, Told
  <2> QED
    BY <1>2, <2>1, AbsStutters DEF barrierVars
<1>3. ASSUME NEW g \in Gang, FailBarrier(g), expected[g] > 0, UNCHANGED <<expected, arrived, at>>
      PROVE  RV!AbsNext \/ UNCHANGED RV!absVars
  <2>1. SameCame(Gang) /\ SameTold(Gang)
    BY <1>3 DEF SameCame, SameTold, Came, Told
  <2> QED
    BY <1>1, <1>3, <2>1, FailDecides DEF TypeOK
<1>4. ASSUME NEW g \in Gang, NEW to \in State, Move(g, to)
      PROVE  RV!AbsNext \/ UNCHANGED RV!absVars
  <2>1. CASE Submit(g) \/ Admit(g)
    BY <1>2, <2>1 DEF Submit, Admit
  <2>2. CASE Start(g)
    BY <2>2, StartRefines
  <2>3. CASE End(g, to)
    <3>1. CASE g \in barriers
      BY <1>3, <2>3, <3>1 DEF End, DropBarrier, ResourcesFollowState, BarrierInv
    <3>2. CASE g \notin barriers
      BY <1>2, <2>3, <3>2 DEF End, DropBarrier, barrierVars
    <3> QED
      BY <3>1, <3>2
  <2> QED
    BY <1>4, <2>1, <2>2, <2>3 DEF Move
<1>5. CASE Quiet
  <2>1. ASSUME NEW g \in Gang, NEW w \in Worker, GetBarrier(g, w)
        PROVE  UNCHANGED RV!absVars
    <3>1. SameCame(Gang) /\ SameTold(Gang)
      <4>1. BarrierTypeOK /\ Goes(g, w, "away", "holds")
        BY <2>1 DEF GetBarrier, TypeOK
      <4>2. SameCame(Gang)
        BY <4>1, CameSame DEF Outside, SameCame
      <4>3. SameTold(Gang)
        BY <4>1, ToldSame
      <4> QED
        BY <4>2, <4>3
    <3>2. SameOutcomes(Gang) /\ expected' = expected
      BY <2>1 DEF GetBarrier, SameOutcomes, Outcome
    <3> QED
      BY <3>1, <3>2, AbsStutters
  <2>2. ASSUME NEW g \in Gang, Meet(g)
        PROVE  RV!AbsNext \/ UNCHANGED RV!absVars
    <3>1. CASE WatcherFires(g)
      BY <1>3, <3>1 DEF WatcherFires
    <3>2. ASSUME NEW w \in Worker, BarrierStep(g, w)
          PROVE  RV!AbsNext \/ UNCHANGED RV!absVars
      BY <1>1, <3>2, WorkerRefines DEF TypeOK
    <3> QED
      BY <2>2, <3>1, <3>2, CrewsAreWorkers DEF Meet
  <2> QED
    BY <1>5, <2>1, <2>2, CrewsAreWorkers DEF Quiet
<1> QED
  BY <1>2, <1>4, <1>5, StepKinds DEF vars

(* Every barrier keeps the promise of the comments of Wait and Fail: it is *)
(* decided once, well only after enough workers came, and all who wait are *)
(* told that decision.                                                     *)
THEOREM BarriersAreRendezvous == Spec => ImplementsRendezvous
<1>1. Init => RV!AbsInit
  <2>1. ASSUME Init, NEW g \in Gang
        PROVE  Came(g) = {} /\ Outcome(g) = "open" /\ Told(g) = {}
    BY <2>1 DEF Init, BarrierInit, Came, Outcome, Told
  <2> QED
    BY <2>1 DEF Init, BarrierInit, RV!AbsInit
<1>2. GangInv /\ [Next]_vars => [RV!AbsNext]_RV!absVars
  BY StepRefines
<1> QED
  BY <1>1, <1>2, Invariance, PTL DEF Spec, ImplementsRendezvous, RV!AbsSpec
-----------------------------------------------------------------------------
(* Nobody is stranded                                                      *)

(* Only workers that looked a barrier up are at it, and a complete count   *)
(* is followed by the release, which the last arrival is about to make.    *)
CrewInv == \A g \in Gang : \A w \in Worker \ Crew[g] : at[g][w] = "away"
Covered(g) == expected[g] > 0 /\ arrived[g] >= expected[g]
                  => g \in released \/ \E v \in Crew[g] : at[g][v] = "last"
FullInv == \A g \in Gang : Covered(g)

(* A step of worker w at its barrier, other than an arrival, leaves the    *)
(* count alone, and the "last" worker only with the release.               *)
LEMMA WorkerKeepsCovered ==
    ASSUME BarrierTypeOK, NEW g \in Gang, NEW w \in Crew[g], BarrierStep(g, w),
           FullInv
    PROVE  FullInv'
<1>0. w \in Worker /\ Crew[g] \subseteq Worker
  BY CrewsAreWorkers
<1>1. expected' = expected /\ released \subseteq released'
  BY DEF BarrierStep, Arrive, Leave, ReleaseAll, Receive, ReadOutcome, Spin, SpinSees,
         SpinMisses, SpinExpires, WorkerFails, FailBarrier
<1>2. \E from, to \in Place : Goes(g, w, from, to)
  <2>1. at[g][w] \in Place
    BY <1>0 DEF BarrierTypeOK
  <2> QED
    BY <2>1 DEF BarrierStep, Arrive, Leave, ReleaseAll, Receive, ReadOutcome, Spin, SpinSees,
                SpinMisses, SpinExpires, WorkerFails, Goes, Place
<1>3. /\ \A h \in Gang \ {g} : at'[h] = at[h]
      /\ \A v \in Worker \ {w} : at'[g][v] = at[g][v]
  BY <1>0, <1>2 DEF Goes, BarrierTypeOK
<1>4. \A h \in Gang \ {g} : arrived'[h] = arrived[h]
  BY DEF BarrierStep, Arrive, Leave, ReleaseAll, Receive, ReadOutcome, Spin, SpinSees,
         SpinMisses, SpinExpires, WorkerFails, BarrierTypeOK
<1>5. Covered(g)'
  <2>1. CASE Arrive(g, w)
    <3>1. arrived'[g] = arrived[g] + 1 /\ arrived[g] \in Nat /\ expected[g] \in Nat
      BY <2>1 DEF Arrive, BarrierTypeOK
    <3>2. at'[g][w] = IF arrived[g] + 1 < expected[g] THEN "waits" ELSE "last"
      BY <1>0, <2>1 DEF Arrive, Goes, BarrierTypeOK
    <3> QED
      BY <1>1, <3>1, <3>2 DEF Covered
  <2>2. CASE ReleaseAll(g, w)
    BY <2>2 DEF ReleaseAll, Covered
  <2>3. CASE ~ Arrive(g, w) /\ ~ ReleaseAll(g, w)
    <3>1. arrived' = arrived /\ at[g][w] # "last"
      BY <2>3 DEF BarrierStep, Leave, Receive, ReadOutcome, Spin, SpinSees,
                  SpinMisses, SpinExpires, WorkerFails, Goes
    <3> QED
      BY <1>0, <1>1, <1>3, <3>1 DEF FullInv, Covered
  <2> QED
    BY <2>1, <2>2, <2>3
<1>6. ASSUME NEW h \in Gang \ {g} PROVE Covered(h)'
  BY <1>1, <1>3, <1>4 DEF FullInv, Covered
<1> QED
  BY <1>5, <1>6 DEF FullInv

(* A step that neither moves a worker nor counts one keeps both parts.     *)
LEMMA StillCovered ==
    ASSUME UNCHANGED <<expected, arrived, at>>, released \subseteq released', FullInv, CrewInv
    PROVE  FullInv' /\ CrewInv'
BY DEF FullInv, CrewInv, Covered

(* Nobody but a worker of the crew leaves the place "away".                *)
LEMMA GoesInCrew ==
    ASSUME BarrierTypeOK, NEW g \in Gang, NEW w \in Crew[g], NEW from, NEW to,
           Goes(g, w, from, to), CrewInv
    PROVE  CrewInv'
<1>1. w \in Worker
  BY CrewsAreWorkers
<1> QED
  BY <1>1 DEF BarrierTypeOK, Goes, CrewInv

LEMMA QuietCovers == GangInv /\ CrewInv /\ FullInv /\ Quiet => CrewInv' /\ FullInv'
<1> SUFFICES ASSUME GangInv, CrewInv, FullInv, Quiet PROVE CrewInv' /\ FullInv'
  OBVIOUS
<1>1. BarrierTypeOK
  BY DEF GangInv, TypeOK
<1>2. ASSUME NEW g \in Gang, NEW w \in Crew[g], GetBarrier(g, w) PROVE CrewInv' /\ FullInv'
  <2>1. Goes(g, w, "away", "holds") /\ UNCHANGED <<expected, arrived, released>>
    BY <1>2 DEF GetBarrier
  <2>2. w \in Worker
    BY CrewsAreWorkers
  <2>3. \A h \in Gang : \A v \in Crew[h] : at[h][v] = "last" => at'[h][v] = "last"
    BY <1>1, <2>1, <2>2, CrewsAreWorkers DEF Goes, BarrierTypeOK
  <2> QED
    BY <1>1, <2>1, <2>3, GoesInCrew DEF FullInv, Covered
<1>3. ASSUME NEW g \in Gang, NEW w \in Crew[g], BarrierStep(g, w) PROVE CrewInv' /\ FullInv'
  <2>1. \E from, to : Goes(g, w, from, to)
    BY <1>3 DEF BarrierStep, Arrive, Leave, ReleaseAll, Receive, ReadOutcome, Spin, SpinSees,
                SpinMisses, SpinExpires, WorkerFails
  <2> QED
    BY <1>1, <1>3, <2>1, GoesInCrew, WorkerKeepsCovered
<1>4. ASSUME NEW g \in Gang, WatcherFires(g) PROVE CrewInv' /\ FullInv'
  BY <1>4, StillCovered DEF WatcherFires, FailBarrier
<1> QED
  BY <1>2, <1>3, <1>4 DEF Quiet, Meet

(* A barrier starts with nobody at it, so with an incomplete count.        *)
LEMMA MoveCovers ==
    ASSUME GangInv, CrewInv, FullInv, NEW g \in Gang, NEW to \in State, Move(g, to)
    PROVE  CrewInv' /\ FullInv'
<1>1. CASE Submit(g) \/ Admit(g)
  BY <1>1, StillCovered DEF Submit, Admit, barrierVars
<1>2. CASE End(g, to)
  BY <1>2, StillCovered DEF End, DropBarrier, FailBarrier
<1>3. CASE Start(g)
  <2>1. /\ expected' = [expected EXCEPT ![g] = spec[g].replicas]
        /\ UNCHANGED <<arrived, released, failed, at>>
    BY <1>3 DEF Start, Create
  <2>2. CrewInv'
    BY <2>1 DEF CrewInv
  <2>3. \A h \in Gang \ {g} : Covered(h)'
    BY <2>1 DEF FullInv, Covered, GangInv, TypeOK, BarrierTypeOK
  <2>4. arrived[g] = 0
    <3>1. state[g] = "gang_ready"
      BY <1>3 DEF Start, Transition
    <3>2. expected[g] = 0
      BY <3>1 DEF GangInv, BarrierInv
    <3>3. Came(g) = {}
      BY <3>2 DEF GangInv, BarrierInv, Meeting, Came
    <3> QED
      BY <3>3, FS_EmptySet DEF GangInv, BarrierInv, Meeting
  <2>5. spec[g].replicas \in Nat /\ spec[g].replicas > 0
    BY Members DEF GangInv, TypeOK
  <2>6. expected'[g] = spec[g].replicas /\ arrived'[g] = 0
    BY <2>1, <2>4 DEF GangInv, TypeOK, BarrierTypeOK
  <2>7. Covered(g)'
    BY <2>5, <2>6 DEF Covered
  <2> QED
    BY <2>2, <2>3, <2>7 DEF FullInv
<1> QED
  BY <1>1, <1>2, <1>3 DEF Move

(* However many workers there are and whatever the timers do, no worker    *)
(* waits for a release that nobody is going to make: what the liveness of  *)
(* the barrier needs besides fairness.                                     *)
THEOREM NobodyIsStranded == Spec => []NobodyStranded
<1>1. Init => CrewInv /\ FullInv
  <2>1. ASSUME Init, NEW g \in Gang
        PROVE  expected[g] = 0 /\ \A w \in Worker : at[g][w] = "away"
    BY <2>1 DEF Init, BarrierInit
  <2> QED
    BY <2>1 DEF CrewInv, FullInv, Covered
<1>2. GangInv /\ CrewInv /\ FullInv /\ [Next]_vars => CrewInv' /\ FullInv'
  <2>1. CASE UNCHANGED vars
    BY <2>1, StillCovered DEF vars, barrierVars
  <2> QED
    BY <2>1, StepKinds, QuietCovers, MoveCovers
<1>3. GangInv /\ CrewInv /\ FullInv => NobodyStranded
  <2> SUFFICES ASSUME GangInv, FullInv, NEW g \in Gang, NEW w \in Crew[g],
                      at[g][w] \in {"waits", "spins"}, ~ Covered(g) \/ Terminal(g)
               PROVE  g \in released
    BY DEF NobodyStranded, FullInv, Covered
  <2>1. expected[g] > 0
    <3>1. w \in Worker /\ expected[g] \in Nat
      BY CrewsAreWorkers DEF GangInv, TypeOK, BarrierTypeOK
    <3>2. expected[g] # 0
      BY <3>1 DEF GangInv, BarrierInv, Meeting
    <3> QED
      BY <3>1, <3>2
  <2> QED
    BY <2>1 DEF FullInv, GangInv, ResourcesFollowState
<1> QED
  BY <1>1, <1>2, <1>3, Invariance, PTL DEF Spec
==============================================================================
