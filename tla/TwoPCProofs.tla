----------------------------- MODULE TwoPCProofs -----------------------------
(***************************************************************************)
(* What the runs of TwoPC check on small instances, for every set of       *)
(* participants and recovery tasks and every number of retries.            *)
(***************************************************************************)
EXTENDS TwoPC, TLAPS

(* Execute's decision is made before anything in phase 2 happens, by any   *)
(* task, and it needs every vote.                                          *)
DecisionInv ==
    /\ result = "none" <=> stage[Exec] # "done"
    /\ phase \in {"Prepared", "Committing", "Committed"} => CommitDecided
    /\ \A t \in Task : stage[t] \in {"toCommit", "committing"} => CommitDecided
    /\ CommitDecided => \A p \in Participant : votes[p] \in {"Yes", "ReadOnly"}

(* A vote that was not collected may still be on its way; a PREPARE that   *)
(* has not run yet holds nothing.                                          *)
VoteInv ==
    /\ stage[Exec] = "idle" => \A p \in Participant : reply[p] = "unsent"
    /\ \A p \in Participant :
           reply[p] \in {"unsent", "sent"} => fate[p] = "none" /\ votes[p] = "absent"

(* Only COMMIT applies operations, and COMMIT follows the decision.        *)
CommitInv ==
    \A p \in Participant : /\ p \in committed => CommitDecided
                           /\ fate[p] = "applied" => p \in committed

(* Until recovery presumes an abort, only Execute aborts.                  *)
AbortInv ==
    ~ presumed => /\ \A r \in Recoverer : stage[r] \notin {"toAbort", "aborting"}
                  /\ \A p \in Participant : fate[p] = "dropped" => AbortDecided

(* A task that counted no error has committed every participant it is      *)
(* done with.                                                              *)
DeliveryInv ==
    /\ \A t \in Task, p \in Participant :
           (/\ stage[t] = "committing" /\ t \notin failed
            /\ votes[p] = "Yes" /\ left[t][p] = 0) => p \in committed
    /\ SuccessIsTotal

Inv == TypeOK /\ DecisionInv /\ VoteInv /\ CommitInv /\ AbortInv /\ DeliveryInv

-----------------------------------------------------------------------------
(* txn and the participants stay in their types in every reachable state.  *)
LEMMA TypeInit == Init => TypeOK
<1> SUFFICES ASSUME Init PROVE TypeOK
  OBVIOUS
<1>1. left \in [Task -> [Participant -> 0..MaxRetries]]
  <2>1. [p \in Participant |-> 0] \in [Participant -> 0..MaxRetries]
    BY MaxRetriesPositive
  <2> QED
    BY <2>1 DEF Init
<1> QED
  BY <1>1 DEF Init, TypeOK, Phase, Vote, Reply, Fate, Stage

(* Every step keeps txn and the participants in their types.               *)
LEMMA TypeStep == TypeOK /\ [Next]_vars => TypeOK'
<1> SUFFICES ASSUME TypeOK, [Next]_vars PROVE TypeOK'
  OBVIOUS
<1> USE DEF partVars
<1>1. CASE BeginPrepare
  BY <1>1 DEF TypeOK, BeginPrepare, Phase, Vote, Reply, Stage
<1>2. ASSUME NEW p \in Participant, Prepare(p) PROVE TypeOK'
  <2>1. ASSUME NEW v \in Vote, NEW f \in Fate, PrepareEnds(p, v, f) PROVE TypeOK'
    BY <2>1 DEF TypeOK, PrepareEnds, Reply
  <2> QED
    BY <1>2, <2>1
    DEF Prepare, PrepareYes, PrepareNo, PrepareReadOnly, PrepareError, Vote, Fate
<1>3. ASSUME NEW p \in Participant, CollectVote(p) PROVE TypeOK'
  BY <1>3 DEF TypeOK, CollectVote
<1>4. CASE PrepareSucceeds
  BY <1>4 DEF TypeOK, PrepareSucceeds, Phase, Stage
<1>5. CASE PrepareFails
  BY <1>5 DEF TypeOK, PrepareFails, Stage
<1>6. ASSUME NEW t \in Task, TaskStep(t) PROVE TypeOK'
  <2>1. CASE BeginCommit(t)
    <3>1. [p \in Participant |-> IF GetsCommit(p) THEN MaxRetries ELSE 0]
              \in [Participant -> 0..MaxRetries]
      BY MaxRetriesPositive
    <3>2. left' \in [Task -> [Participant -> 0..MaxRetries]]
      BY <2>1, <3>1 DEF TypeOK, BeginCommit
    <3> QED
      BY <2>1, <3>2 DEF TypeOK, BeginCommit, Phase, Stage
  <2>2. CASE EndCommit(t)
    BY <2>2 DEF TypeOK, EndCommit, Rest, Phase, Stage
  <2>3. CASE BeginAbort(t)
    <3>1. [p \in Participant |-> IF GetsAbort(p) THEN 1 ELSE 0]
              \in [Participant -> 0..MaxRetries]
      BY MaxRetriesPositive
    <3>2. left' \in [Task -> [Participant -> 0..MaxRetries]]
      BY <2>3, <3>1 DEF TypeOK, BeginAbort
    <3> QED
      BY <2>3, <3>2 DEF TypeOK, BeginAbort, Phase, Stage
  <2>4. CASE EndAbort(t)
    BY <2>4 DEF TypeOK, EndAbort, Rest, Phase, Stage
  <2>5. ASSUME NEW p \in Participant,
               CommitReturns(t, p) \/ CommitAttemptFails(t, p) \/ AbortAttempt(t, p)
        PROVE  TypeOK'
    <3>1. left[t] \in [Participant -> 0..MaxRetries]
      BY DEF TypeOK
    <3>2. [left[t] EXCEPT ![p] = 0] \in [Participant -> 0..MaxRetries]
      BY <3>1, MaxRetriesPositive
    <3>3. CASE CommitReturns(t, p)
      <4>1. left' \in [Task -> [Participant -> 0..MaxRetries]]
        BY <3>2, <3>3 DEF TypeOK, CommitReturns
      <4> QED
        BY <3>3, <4>1 DEF TypeOK, CommitReturns, CommitAt, Fate
    <3>4. CASE CommitAttemptFails(t, p)
      <4>1. [left[t] EXCEPT ![p] = @ - 1] \in [Participant -> 0..MaxRetries]
        BY <3>1, <3>4, MaxRetriesPositive DEF CommitAttemptFails
      <4>2. left' \in [Task -> [Participant -> 0..MaxRetries]]
        BY <3>4, <4>1 DEF TypeOK, CommitAttemptFails
      <4>3. fate' \in [Participant -> Fate] /\ committed' \subseteq Participant
        BY <3>4 DEF TypeOK, CommitAttemptFails, CommitAt, Fate
      <4> QED
        BY <3>4, <4>2, <4>3 DEF TypeOK, CommitAttemptFails
    <3>5. CASE AbortAttempt(t, p)
      <4>1. left' \in [Task -> [Participant -> 0..MaxRetries]]
        BY <3>2, <3>5 DEF TypeOK, AbortAttempt
      <4>2. fate' \in [Participant -> Fate]
        BY <3>5 DEF TypeOK, AbortAttempt, Fate
      <4> QED
        BY <3>5, <4>1, <4>2 DEF TypeOK, AbortAttempt
    <3> QED
      BY <2>5, <3>3, <3>4, <3>5
  <2> QED
    BY <1>6, <2>1, <2>2, <2>3, <2>4, <2>5 DEF TaskStep
<1>7. ASSUME NEW r \in Recoverer, RecoverCommit(r) \/ RecoverAbort(r) PROVE TypeOK'
  BY <1>7 DEF TypeOK, RecoverCommit, RecoverAbort, Stage, Task
<1>8. CASE UNCHANGED vars
  BY <1>8 DEF TypeOK, vars
<1> QED
  BY <1>1, <1>2, <1>3, <1>4, <1>5, <1>6, <1>7, <1>8 DEF Next

(* Type correctness of the coordinator, for any constants.                 *)
THEOREM TypeCorrect == Spec => []TypeOK
<1>1. QED
  BY TypeInit, TypeStep, PTL DEF Spec

(* The decision is made once, by Execute, and nothing takes it back. *)
LEMMA DecisionStep == Inv /\ [Next]_vars => DecisionInv'
<1> SUFFICES ASSUME Inv, [Next]_vars PROVE DecisionInv'
  OBVIOUS
<1> USE ExecIsNoRecoverer DEF Inv, TypeOK, DecisionInv, CommitDecided, partVars, Task, Vote
<1>1. CASE BeginPrepare
  BY <1>1 DEF BeginPrepare
<1>2. ASSUME NEW p \in Participant, Prepare(p) PROVE DecisionInv'
  <2>1. ASSUME NEW v \in Vote, NEW f \in {"none", "held"}, PrepareEnds(p, v, f)
        PROVE  DecisionInv'
    BY <2>1 DEF PrepareEnds
  <2> QED
    BY <1>2, <2>1
    DEF Prepare, PrepareYes, PrepareNo, PrepareReadOnly, PrepareError
<1>3. ASSUME NEW p \in Participant, CollectVote(p) PROVE DecisionInv'
  BY <1>3 DEF CollectVote
<1>4. CASE PrepareSucceeds
  BY <1>4 DEF PrepareSucceeds, AllYes, AllCollected
<1>5. CASE PrepareFails
  BY <1>5 DEF PrepareFails
<1>6. ASSUME NEW t \in Task, TaskStep(t) PROVE DecisionInv'
  <2>1. CASE BeginCommit(t)
    BY <2>1 DEF BeginCommit, GetsCommit
  <2>2. CASE EndCommit(t)
    BY <2>2 DEF EndCommit, Rest
  <2>3. CASE BeginAbort(t)
    BY <2>3 DEF BeginAbort
  <2>4. CASE EndAbort(t)
    BY <2>4 DEF EndAbort, Rest
  <2>5. ASSUME NEW p \in Participant, CommitReturns(t, p) PROVE DecisionInv'
    BY <2>5 DEF CommitReturns, CommitAt
  <2>6. ASSUME NEW p \in Participant, CommitAttemptFails(t, p) PROVE DecisionInv'
    BY <2>6 DEF CommitAttemptFails, CommitAt
  <2>7. ASSUME NEW p \in Participant, AbortAttempt(t, p) PROVE DecisionInv'
    BY <2>7 DEF AbortAttempt
  <2> QED
    BY <1>6, <2>1, <2>2, <2>3, <2>4, <2>5, <2>6, <2>7 DEF TaskStep
<1>7. ASSUME NEW r \in Recoverer, RecoverCommit(r) \/ RecoverAbort(r) PROVE DecisionInv'
  BY <1>7 DEF RecoverCommit, RecoverAbort
<1>8. CASE UNCHANGED vars
  BY <1>8 DEF vars
<1> QED
  BY <1>1, <1>2, <1>3, <1>4, <1>5, <1>6, <1>7, <1>8 DEF Next

(* Only a PREPARE call that ended leaves an answer. *)
LEMMA VoteStep == Inv /\ [Next]_vars => VoteInv'
<1> SUFFICES ASSUME Inv, [Next]_vars PROVE VoteInv'
  OBVIOUS
<1> USE ExecIsNoRecoverer DEF Inv, TypeOK, VoteInv, partVars, Task, Vote
<1>1. CASE BeginPrepare
  BY <1>1 DEF BeginPrepare
<1>2. ASSUME NEW p \in Participant, Prepare(p) PROVE VoteInv'
  <2>1. ASSUME NEW v \in Vote, NEW f \in {"none", "held"}, PrepareEnds(p, v, f)
        PROVE  VoteInv'
    BY <2>1 DEF PrepareEnds
  <2> QED
    BY <1>2, <2>1
    DEF Prepare, PrepareYes, PrepareNo, PrepareReadOnly, PrepareError
<1>3. ASSUME NEW p \in Participant, CollectVote(p) PROVE VoteInv'
  BY <1>3 DEF CollectVote
<1>4. CASE PrepareSucceeds
  BY <1>4 DEF PrepareSucceeds, AllYes, AllCollected
<1>5. CASE PrepareFails
  BY <1>5 DEF PrepareFails
<1>6. ASSUME NEW t \in Task, TaskStep(t) PROVE VoteInv'
  <2>1. CASE BeginCommit(t)
    BY <2>1 DEF BeginCommit, GetsCommit
  <2>2. CASE EndCommit(t)
    BY <2>2 DEF EndCommit, Rest
  <2>3. CASE BeginAbort(t)
    BY <2>3 DEF BeginAbort
  <2>4. CASE EndAbort(t)
    BY <2>4 DEF EndAbort, Rest
  <2>5. ASSUME NEW p \in Participant, CommitReturns(t, p) PROVE VoteInv'
    BY <2>5 DEF CommitReturns, CommitAt
  <2>6. ASSUME NEW p \in Participant, CommitAttemptFails(t, p) PROVE VoteInv'
    BY <2>6 DEF CommitAttemptFails, CommitAt
  <2>7. ASSUME NEW p \in Participant, AbortAttempt(t, p) PROVE VoteInv'
    BY <2>7 DEF AbortAttempt
  <2> QED
    BY <1>6, <2>1, <2>2, <2>3, <2>4, <2>5, <2>6, <2>7 DEF TaskStep
<1>7. ASSUME NEW r \in Recoverer, RecoverCommit(r) \/ RecoverAbort(r) PROVE VoteInv'
  BY <1>7 DEF RecoverCommit, RecoverAbort
<1>8. CASE UNCHANGED vars
  BY <1>8 DEF vars
<1> QED
  BY <1>1, <1>2, <1>3, <1>4, <1>5, <1>6, <1>7, <1>8 DEF Next

(* COMMIT is delivered by committing tasks alone. *)
LEMMA CommitStep == Inv /\ [Next]_vars => CommitInv'
<1> SUFFICES ASSUME Inv, [Next]_vars PROVE CommitInv'
  OBVIOUS
<1> USE ExecIsNoRecoverer DEF Inv, TypeOK, DecisionInv, CommitInv, VoteInv, CommitDecided, partVars, Task, Vote
<1>1. CASE BeginPrepare
  BY <1>1 DEF BeginPrepare
<1>2. ASSUME NEW p \in Participant, Prepare(p) PROVE CommitInv'
  <2>1. ASSUME NEW v \in Vote, NEW f \in {"none", "held"}, PrepareEnds(p, v, f)
        PROVE  CommitInv'
    BY <2>1 DEF PrepareEnds
  <2> QED
    BY <1>2, <2>1
    DEF Prepare, PrepareYes, PrepareNo, PrepareReadOnly, PrepareError
<1>3. ASSUME NEW p \in Participant, CollectVote(p) PROVE CommitInv'
  BY <1>3 DEF CollectVote
<1>4. CASE PrepareSucceeds
  BY <1>4 DEF PrepareSucceeds, AllYes, AllCollected
<1>5. CASE PrepareFails
  BY <1>5 DEF PrepareFails
<1>6. ASSUME NEW t \in Task, TaskStep(t) PROVE CommitInv'
  <2>1. CASE BeginCommit(t)
    BY <2>1 DEF BeginCommit, GetsCommit
  <2>2. CASE EndCommit(t)
    BY <2>2 DEF EndCommit, Rest
  <2>3. CASE BeginAbort(t)
    BY <2>3 DEF BeginAbort
  <2>4. CASE EndAbort(t)
    BY <2>4 DEF EndAbort, Rest
  <2>5. ASSUME NEW p \in Participant, CommitReturns(t, p) PROVE CommitInv'
    BY <2>5 DEF CommitReturns, CommitAt
  <2>6. ASSUME NEW p \in Participant, CommitAttemptFails(t, p) PROVE CommitInv'
    BY <2>6 DEF CommitAttemptFails, CommitAt
  <2>7. ASSUME NEW p \in Participant, AbortAttempt(t, p) PROVE CommitInv'
    BY <2>7 DEF AbortAttempt
  <2> QED
    BY <1>6, <2>1, <2>2, <2>3, <2>4, <2>5, <2>6, <2>7 DEF TaskStep
<1>7. ASSUME NEW r \in Recoverer, RecoverCommit(r) \/ RecoverAbort(r) PROVE CommitInv'
  BY <1>7 DEF RecoverCommit, RecoverAbort
<1>8. CASE UNCHANGED vars
  BY <1>8 DEF vars
<1> QED
  BY <1>1, <1>2, <1>3, <1>4, <1>5, <1>6, <1>7, <1>8 DEF Next

(* Without a presumed abort only Execute delivers ABORT. *)
LEMMA AbortStep == Inv /\ [Next]_vars => AbortInv'
<1> SUFFICES ASSUME Inv, [Next]_vars PROVE AbortInv'
  OBVIOUS
<1> USE ExecIsNoRecoverer DEF Inv, TypeOK, DecisionInv, AbortInv, VoteInv, AbortDecided, partVars, Task, Vote
<1>1. CASE BeginPrepare
  BY <1>1 DEF BeginPrepare
<1>2. ASSUME NEW p \in Participant, Prepare(p) PROVE AbortInv'
  <2>1. ASSUME NEW v \in Vote, NEW f \in {"none", "held"}, PrepareEnds(p, v, f)
        PROVE  AbortInv'
    BY <2>1 DEF PrepareEnds
  <2> QED
    BY <1>2, <2>1
    DEF Prepare, PrepareYes, PrepareNo, PrepareReadOnly, PrepareError
<1>3. ASSUME NEW p \in Participant, CollectVote(p) PROVE AbortInv'
  BY <1>3 DEF CollectVote
<1>4. CASE PrepareSucceeds
  BY <1>4 DEF PrepareSucceeds, AllYes, AllCollected
<1>5. CASE PrepareFails
  BY <1>5 DEF PrepareFails
<1>6. ASSUME NEW t \in Task, TaskStep(t) PROVE AbortInv'
  <2>1. CASE BeginCommit(t)
    BY <2>1 DEF BeginCommit, GetsCommit
  <2>2. CASE EndCommit(t)
    BY <2>2 DEF EndCommit, Rest
  <2>3. CASE BeginAbort(t)
    BY <2>3 DEF BeginAbort
  <2>4. CASE EndAbort(t)
    BY <2>4 DEF EndAbort, Rest
  <2>5. ASSUME NEW p \in Participant, CommitReturns(t, p) PROVE AbortInv'
    BY <2>5 DEF CommitReturns, CommitAt
  <2>6. ASSUME NEW p \in Participant, CommitAttemptFails(t, p) PROVE AbortInv'
    BY <2>6 DEF CommitAttemptFails, CommitAt
  <2>7. ASSUME NEW p \in Participant, AbortAttempt(t, p) PROVE AbortInv'
    BY <2>7 DEF AbortAttempt
  <2> QED
    BY <1>6, <2>1, <2>2, <2>3, <2>4, <2>5, <2>6, <2>7 DEF TaskStep
<1>7. ASSUME NEW r \in Recoverer, RecoverCommit(r) \/ RecoverAbort(r) PROVE AbortInv'
  BY <1>7 DEF RecoverCommit, RecoverAbort
<1>8. CASE UNCHANGED vars
  BY <1>8 DEF vars
<1> QED
  BY <1>1, <1>2, <1>3, <1>4, <1>5, <1>6, <1>7, <1>8 DEF Next

(* A committing task starts with a call to make to every Yes voter, and    *)
(* the last call it gives up on is counted.                                *)
LEMMA CallsToMake ==
    ASSUME TypeOK, NEW t \in Task, BeginCommit(t), NEW p \in Participant
    PROVE  /\ left'[t][p] = 0 => votes[p] # "Yes"
           /\ \A u \in Task : u # t => left'[u] = left[u]
BY MaxRetriesPositive DEF TypeOK, BeginCommit, GetsCommit

(* Lowering one positive entry of a table lowers that entry alone; it is   *)
(* zero afterwards only if it was one.                                     *)
LEMMA EntryThatFell ==
    ASSUME NEW T, NEW P, NEW M \in Nat, NEW l \in [T -> [P -> 0..M]],
           NEW t \in T, NEW p \in P, NEW m,
           m = [l EXCEPT ![t] = [l[t] EXCEPT ![p] = l[t][p] - 1]],
           NEW u \in T, NEW q \in P, m[u][q] = 0, l[u][q] # 0
    PROVE  u = t /\ q = p /\ l[t][p] = 1
<1>1. CASE u # t
  <2>1. m[u] = l[u]
    BY <1>1
  <2> QED
    BY <2>1
<1>2. CASE u = t
  <2>1. m[t] = [l[t] EXCEPT ![p] = l[t][p] - 1]
    OBVIOUS
  <2>2. q = p
    BY <2>1, <1>2
  <2>3. l[t][p] \in 0..M /\ l[t][p] - 1 = 0
    BY <2>1, <2>2, <1>2
  <2> QED
    BY <2>2, <2>3, <1>2
<1> QED
  BY <1>1, <1>2

(* A task whose last call to a voter failed has counted the error.         *)
LEMMA LastAttempt ==
    ASSUME TypeOK, NEW t \in Task, NEW p \in Participant, CommitAttemptFails(t, p),
           NEW u \in Task, NEW q \in Participant, left'[u][q] = 0, left[u][q] # 0
    PROVE  u \in failed'
<1>1. left \in [Task -> [Participant -> 0..MaxRetries]] /\ MaxRetries \in Nat
  BY MaxRetriesPositive DEF TypeOK
<1>2. left' = [left EXCEPT ![t] = [left[t] EXCEPT ![p] = left[t][p] - 1]]
  BY <1>1 DEF CommitAttemptFails
<1>3. u = t /\ left[t][p] = 1
  BY <1>1, <1>2, EntryThatFell
<1> QED
  BY <1>3 DEF CommitAttemptFails

(* A call that is still to be made is the only reason for a voter not to be committed. *)
LEMMA DeliveryStep == Inv /\ [Next]_vars => DeliveryInv'
<1> SUFFICES ASSUME Inv, [Next]_vars PROVE DeliveryInv'
  OBVIOUS
<1> USE ExecIsNoRecoverer DEF Inv, TypeOK, DecisionInv, DeliveryInv, SuccessIsTotal, CommitDecided, partVars, Task, Vote
<1>1. CASE BeginPrepare
  BY <1>1 DEF BeginPrepare
<1>2. ASSUME NEW p \in Participant, Prepare(p) PROVE DeliveryInv'
  <2>1. ASSUME NEW v \in Vote, NEW f \in {"none", "held"}, PrepareEnds(p, v, f)
        PROVE  DeliveryInv'
    BY <2>1 DEF PrepareEnds
  <2> QED
    BY <1>2, <2>1
    DEF Prepare, PrepareYes, PrepareNo, PrepareReadOnly, PrepareError
<1>3. ASSUME NEW p \in Participant, CollectVote(p) PROVE DeliveryInv'
  BY <1>3 DEF CollectVote
<1>4. CASE PrepareSucceeds
  BY <1>4 DEF PrepareSucceeds, AllYes, AllCollected
<1>5. CASE PrepareFails
  BY <1>5 DEF PrepareFails
<1>6. ASSUME NEW t \in Task, TaskStep(t) PROVE DeliveryInv'
  <2>1. CASE BeginCommit(t)
    <3>1. /\ UNCHANGED <<votes, committed, result>>
          /\ \A u \in Task : u # t => stage'[u] = stage[u]
          /\ failed \ {t} \subseteq failed'
      BY <2>1 DEF BeginCommit
    <3>2. SuccessIsTotal'
      BY <3>1
    <3>3. ASSUME NEW u \in Task, NEW p \in Participant,
                 stage'[u] = "committing", u \notin failed',
                 votes'[p] = "Yes", left'[u][p] = 0
          PROVE  p \in committed'
      <4>1. CASE u = t
        BY <2>1, <3>1, <3>3, <4>1, CallsToMake
      <4>2. CASE u # t
        <5>1. left'[u] = left[u]
          BY <2>1, <4>2, CallsToMake
        <5> QED
          BY <3>1, <3>3, <4>2, <5>1
      <4> QED
        BY <4>1, <4>2
    <3> QED
      BY <3>2, <3>3
  <2>2. CASE EndCommit(t)
    BY <2>2 DEF EndCommit, Rest
  <2>3. CASE BeginAbort(t)
    BY <2>3 DEF BeginAbort
  <2>4. CASE EndAbort(t)
    BY <2>4 DEF EndAbort, Rest
  <2>5. ASSUME NEW p \in Participant, CommitReturns(t, p) PROVE DeliveryInv'
    BY <2>5 DEF CommitReturns, CommitAt
  <2>6. ASSUME NEW p \in Participant, CommitAttemptFails(t, p) PROVE DeliveryInv'
    <3>1. /\ committed \subseteq committed'
          /\ failed \subseteq failed'
          /\ UNCHANGED <<votes, stage, result>>
      BY <2>6 DEF CommitAttemptFails, CommitAt
    <3> QED
      BY <2>6, <3>1, LastAttempt
  <2>7. ASSUME NEW p \in Participant, AbortAttempt(t, p) PROVE DeliveryInv'
    BY <2>7 DEF AbortAttempt
  <2> QED
    BY <1>6, <2>1, <2>2, <2>3, <2>4, <2>5, <2>6, <2>7 DEF TaskStep
<1>7. ASSUME NEW r \in Recoverer, RecoverCommit(r) \/ RecoverAbort(r) PROVE DeliveryInv'
  BY <1>7 DEF RecoverCommit, RecoverAbort
<1>8. CASE UNCHANGED vars
  BY <1>8 DEF vars
<1> QED
  BY <1>1, <1>2, <1>3, <1>4, <1>5, <1>6, <1>7, <1>8 DEF Next

-----------------------------------------------------------------------------
(* The invariant holds at first.                                           *)
LEMMA InvInit == Init => Inv
BY TypeInit DEF Init, Inv, DecisionInv, VoteInv, CommitInv, AbortInv, DeliveryInv,
                SuccessIsTotal, CommitDecided, Task

(* Every step keeps the invariant.                                         *)
LEMMA InvStep == Inv /\ [Next]_vars => Inv'
<1>1. Inv /\ [Next]_vars => TypeOK'
  BY TypeStep DEF Inv
<1> QED
  BY <1>1, DecisionStep, VoteStep, CommitStep, AbortStep, DeliveryStep DEF Inv

(* The inductive invariant holds in every reachable state.                 *)
THEOREM InvCorrect == Spec => []Inv
BY InvInit, InvStep, PTL DEF Spec

(* COMMIT is sent only after everyone voted Yes or ReadOnly, whatever      *)
(* recovery does.                                                          *)
THEOREM CommitNeedsEveryYesCorrect == Spec => []CommitNeedsEveryYes
<1>1. Inv => CommitNeedsEveryYes
  BY DEF Inv, TypeOK, DecisionInv, CommitInv, CommitNeedsEveryYes
<1> QED
  BY <1>1, InvCorrect, PTL

(* Execute returns nil only if each Yes voter has been committed.          *)
THEOREM SuccessIsTotalCorrect == Spec => []SuccessIsTotal
<1>1. Inv => SuccessIsTotal
  BY DEF Inv, DeliveryInv
<1> QED
  BY <1>1, InvCorrect, PTL

(* Until recovery presumes an abort, participants never diverge: an        *)
(* applied share needs the decision to commit, a dropped one the decision  *)
(* to abort, and Execute makes one of the two.                             *)
THEOREM AtomicCorrect == Spec => []AtomicUnlessPresumed
<1>1. Inv => AtomicUnlessPresumed
  BY DEF Inv, TypeOK, CommitInv, AbortInv, DecisionInv, CommitDecided, AbortDecided,
         AtomicUnlessPresumed, Atomic
<1> QED
  BY <1>1, InvCorrect, PTL

-----------------------------------------------------------------------------
(* A step without a presumed abort is a step of AtomicCommit.              *)
LEMMA RefinementStep ==
    ASSUME Inv, ~ presumed, [NextUnpresumed]_vars
    PROVE  [AC!AbsNext]_(AC!absVars)
<1> USE ExecIsNoRecoverer DEF partVars, Task, Decision, CommitDecided, AbortDecided,
        AC!AbsNext, AC!absVars, AC!Hold, AC!Decide, AC!Apply, AC!Drop
<1>1. CASE BeginPrepare
  BY <1>1 DEF BeginPrepare, Inv, TypeOK, DecisionInv
<1>2. ASSUME NEW p \in Participant, Prepare(p) PROVE [AC!AbsNext]_(AC!absVars)
  <2>1. reply[p] = "sent" => Decision # "commit" /\ fate[p] = "none"
    BY DEF Inv, TypeOK, VoteInv, DecisionInv
  <2>2. ASSUME NEW v \in Vote, NEW f \in {"none", "held"}, PrepareEnds(p, v, f)
        PROVE  [AC!AbsNext]_(AC!absVars)
    BY <2>1, <2>2 DEF PrepareEnds, Inv, TypeOK
  <2> QED
    BY <1>2, <2>2
    DEF Prepare, PrepareYes, PrepareNo, PrepareReadOnly, PrepareError, Vote
<1>3. ASSUME NEW p \in Participant, CollectVote(p) PROVE [AC!AbsNext]_(AC!absVars)
  BY <1>3 DEF CollectVote
<1>4. CASE PrepareSucceeds
  BY <1>4 DEF PrepareSucceeds, Inv, TypeOK, DecisionInv
<1>5. CASE PrepareFails
  BY <1>5 DEF PrepareFails, Inv, TypeOK, DecisionInv
<1>6. ASSUME NEW t \in Task, TaskStep(t) PROVE [AC!AbsNext]_(AC!absVars)
  <2>1. CASE BeginCommit(t)
    BY <2>1 DEF BeginCommit, Inv, TypeOK, DecisionInv
  <2>2. CASE EndCommit(t)
    BY <2>2 DEF EndCommit, Rest, Inv, TypeOK, DecisionInv
  <2>3. CASE BeginAbort(t)
    BY <2>3 DEF BeginAbort, Inv, TypeOK, DecisionInv
  <2>4. CASE EndAbort(t)
    BY <2>4 DEF EndAbort, Rest, Inv, TypeOK, DecisionInv, AbortInv
  <2>5. ASSUME NEW p \in Participant, CommitReturns(t, p) \/ CommitAttemptFails(t, p)
        PROVE  [AC!AbsNext]_(AC!absVars)
    <3>1. CommitDecided
      BY <2>5 DEF CommitReturns, CommitAttemptFails, Inv, DecisionInv
    <3> QED
      BY <2>5, <3>1 DEF CommitReturns, CommitAttemptFails, CommitAt, Inv, TypeOK
  <2>6. ASSUME NEW p \in Participant, AbortAttempt(t, p)
        PROVE  [AC!AbsNext]_(AC!absVars)
    <3>1. t = Exec
      BY <2>6 DEF AbortAttempt, Inv, AbortInv
    <3> QED
      BY <2>6, <3>1 DEF AbortAttempt, Inv, TypeOK, DecisionInv
  <2> QED
    BY <1>6, <2>1, <2>2, <2>3, <2>4, <2>5, <2>6 DEF TaskStep
<1>7. ASSUME NEW r \in Recoverer, RecoverCommit(r) PROVE [AC!AbsNext]_(AC!absVars)
  BY <1>7 DEF RecoverCommit, Inv, TypeOK
<1>8. CASE UNCHANGED vars
  BY <1>8 DEF vars
<1>9. \A r \in Recoverer : ~ (RecoverAbort(r) /\ UNCHANGED presumed)
  BY DEF RecoverAbort
<1> QED
  BY <1>1, <1>2, <1>3, <1>4, <1>5, <1>6, <1>7, <1>8, <1>9 DEF NextUnpresumed, Next

(* What AtomicCommit is for: every behaviour it allows is all or nothing.  *)
THEOREM AbstractIsAtomic == AC!AbsSpec => []AC!AbsAtomic
<1> DEFINE AbsInv == \A p \in Participant :
                         /\ fate[p] = "applied" => Decision = "commit"
                         /\ fate[p] = "dropped" => Decision = "abort"
           AbsType == AC!AbsTypeOK
<1>1. AC!AbsInit => AbsType /\ AbsInv
  BY DEF AC!AbsInit, AC!AbsTypeOK, AC!Fate
<1>2. AbsType /\ AbsInv /\ [AC!AbsNext]_(AC!absVars) => AbsType' /\ AbsInv'
  BY DEF AC!AbsTypeOK, AC!Fate, AC!AbsNext, AC!absVars, AC!Hold, AC!Apply, AC!Drop, AC!Decide
<1>3. AbsInv => AC!AbsAtomic
  BY DEF AC!AbsAtomic
<1> QED
  BY <1>1, <1>2, <1>3, PTL DEF AC!AbsSpec

(* The coordinator without presumed aborts implements atomic commitment.   *)
THEOREM Implements == SpecUnpresumed => ImplementsAtomicCommit
<1>1. Init => AC!AbsInit /\ ~ presumed
  BY DEF Init, AC!AbsInit, Decision, CommitDecided, AbortDecided, Task
<1>2. ~ presumed /\ [NextUnpresumed]_vars => ~ presumed'
  BY DEF NextUnpresumed, vars
<1>3. [NextUnpresumed]_vars => [Next]_vars
  BY DEF NextUnpresumed
<1>4. SpecUnpresumed => Spec
  BY <1>3, PTL DEF SpecUnpresumed, Spec
<1>5. Inv /\ ~ presumed /\ [NextUnpresumed]_vars => [AC!AbsNext]_(AC!absVars)
  BY RefinementStep
<1> QED
  BY <1>1, <1>2, <1>4, <1>5, InvCorrect, PTL
  DEF SpecUnpresumed, ImplementsAtomicCommit, AC!AbsSpec

(* No step takes a presumed abort back.                                    *)
LEMMA PresumedStays == TypeOK /\ presumed /\ [Next]_vars => presumed'
<1> SUFFICES ASSUME TypeOK, presumed, [Next]_vars PROVE presumed'
  OBVIOUS
<1>1. ASSUME NEW t \in Task, TaskStep(t) PROVE presumed'
  BY <1>1 DEF TaskStep, BeginCommit, EndCommit, BeginAbort, EndAbort,
              CommitReturns, CommitAttemptFails, AbortAttempt
<1>2. ASSUME NEW p \in Participant, Prepare(p) \/ CollectVote(p) PROVE presumed'
  BY <1>2 DEF Prepare, PrepareYes, PrepareNo, PrepareReadOnly, PrepareError,
              PrepareEnds, CollectVote
<1>3. CASE UNCHANGED vars
  BY <1>3 DEF vars
<1> QED
  BY <1>1, <1>2, <1>3
  DEF Next, BeginPrepare, PrepareSucceeds, PrepareFails, RecoverCommit, RecoverAbort

(* In every run, the steps before the first presumed abort are steps of    *)
(* atomic commitment.                                                      *)
THEOREM ImplementsUnless == Spec => ImplementsUnlessPresumed
<1>1. Init => AC!AbsInit
  BY DEF Init, AC!AbsInit, Decision, CommitDecided, AbortDecided, Task
<1>2. ASSUME Inv, [Next]_vars
      PROVE  [presumed' \/ AC!AbsNext]_(AC!absVars)
  <2>1. CASE presumed'
    BY <2>1
  <2>2. CASE ~ presumed'
    <3>1. presumed \in BOOLEAN /\ presumed' \in BOOLEAN
      BY <1>2, TypeStep DEF Inv, TypeOK
    <3>2. TypeOK
      BY <1>2 DEF Inv
    <3>3. ~ presumed
      BY <1>2, <2>2, <3>2, PresumedStays
    <3>4. presumed' = presumed
      BY <2>2, <3>1, <3>3
    <3>5. [NextUnpresumed]_vars
      BY <1>2, <3>4 DEF NextUnpresumed, vars
    <3> QED
      BY <1>2, <3>3, <3>5, RefinementStep
  <2> QED
    BY <2>1, <2>2
<1> QED
  BY <1>1, <1>2, InvCorrect, PTL DEF Spec, ImplementsUnlessPresumed
-----------------------------------------------------------------------------
(* What txn.Phase tells those who read it                                  *)

(* Until recovery presumes an abort, the phase says so only if Execute     *)
(* decided it.                                                             *)
AbortedInv == phase \in {"Aborting", "Aborted"} /\ ~ presumed => AbortDecided

(* Whatever tasks race for the phase, one that is not final has a task     *)
(* that will change it, or a failed COMMIT that recovery will repeat.      *)
LEMMA OrphanStep == TypeOK /\ NoOrphanPhase /\ [Next]_vars => NoOrphanPhase'
<1> SUFFICES ASSUME TypeOK, NoOrphanPhase, [Next]_vars PROVE NoOrphanPhase'
  OBVIOUS
<1>0. stage \in [Task -> Stage] /\ Exec \in Task /\ Recoverer \subseteq Task
  BY DEF TypeOK, Task
<1> USE DEF NoOrphanPhase
<1>1. CASE BeginPrepare
  BY <1>0, <1>1 DEF BeginPrepare
<1>2. CASE UNCHANGED <<phase, stage, failed>>
  BY <1>2
<1>3. ASSUME NEW p \in Participant, Prepare(p) \/ CollectVote(p) PROVE NoOrphanPhase'
  BY <1>2, <1>3 DEF Prepare, PrepareYes, PrepareNo, PrepareReadOnly, PrepareError,
                    PrepareEnds, CollectVote
<1>4. CASE PrepareSucceeds \/ PrepareFails
  BY <1>0, <1>4 DEF PrepareSucceeds, PrepareFails
<1>5. ASSUME NEW t \in Task, TaskStep(t) PROVE NoOrphanPhase'
  <2>1. CASE BeginCommit(t)
    BY <1>0, <2>1 DEF BeginCommit
  <2>2. CASE EndCommit(t)
    BY <1>0, <2>2 DEF EndCommit, Rest
  <2>3. CASE BeginAbort(t)
    BY <1>0, <2>3 DEF BeginAbort
  <2>4. CASE EndAbort(t)
    BY <2>4 DEF EndAbort
  <2>5. ASSUME NEW p \in Participant,
               CommitReturns(t, p) \/ CommitAttemptFails(t, p) \/ AbortAttempt(t, p)
        PROVE  NoOrphanPhase'
    <3>1. UNCHANGED <<phase, stage>> /\ failed \subseteq failed'
      BY <2>5 DEF CommitReturns, CommitAttemptFails, AbortAttempt
    <3> QED
      BY <3>1
  <2> QED
    BY <1>5, <2>1, <2>2, <2>3, <2>4, <2>5 DEF TaskStep
<1>6. ASSUME NEW r \in Recoverer, RecoverCommit(r) \/ RecoverAbort(r) PROVE NoOrphanPhase'
  BY <1>0, <1>6, ExecIsNoRecoverer DEF RecoverCommit, RecoverAbort
<1>7. CASE UNCHANGED vars
  BY <1>2, <1>7 DEF vars
<1> QED
  BY <1>1, <1>3, <1>4, <1>5, <1>6, <1>7 DEF Next

(* No race on txn.Phase orphans the transaction.                           *)
THEOREM NoOrphanPhaseCorrect == Spec => []NoOrphanPhase
<1>1. Init => NoOrphanPhase
  BY DEF Init, NoOrphanPhase
<1> QED
  BY <1>1, OrphanStep, TypeCorrect, PTL DEF Spec

(* Execute's decision to abort is not taken back.                          *)
LEMMA AbortDecidedStays == Inv /\ AbortDecided /\ [Next]_vars => AbortDecided'
<1> SUFFICES ASSUME Inv, AbortDecided, [Next]_vars PROVE AbortDecided'
  OBVIOUS
<1>0. /\ stage \in [Task -> Stage] /\ Exec \in Task /\ Recoverer \subseteq Task
      /\ stage[Exec] \in {"toAbort", "aborting", "done"}
      /\ result = "none" <=> stage[Exec] # "done"
  BY DEF Inv, TypeOK, Task, DecisionInv, AbortDecided
<1> USE DEF AbortDecided
<1>1. CASE UNCHANGED <<stage, result>>
  BY <1>1
<1>2. ASSUME NEW p \in Participant, Prepare(p) \/ CollectVote(p) PROVE AbortDecided'
  BY <1>1, <1>2 DEF Prepare, PrepareYes, PrepareNo, PrepareReadOnly, PrepareError,
                    PrepareEnds, CollectVote
<1>3. CASE BeginPrepare \/ PrepareSucceeds \/ PrepareFails
  BY <1>0, <1>3 DEF BeginPrepare, PrepareSucceeds, PrepareFails
<1>4. ASSUME NEW t \in Task, TaskStep(t) PROVE AbortDecided'
  <2>1. CASE BeginCommit(t) \/ BeginAbort(t)
    BY <1>0, <2>1 DEF BeginCommit, BeginAbort
  <2>2. CASE EndCommit(t) \/ EndAbort(t)
    BY <1>0, <2>2 DEF EndCommit, EndAbort, Rest
  <2>3. ASSUME NEW p \in Participant,
               CommitReturns(t, p) \/ CommitAttemptFails(t, p) \/ AbortAttempt(t, p)
        PROVE  AbortDecided'
    BY <2>3 DEF CommitReturns, CommitAttemptFails, AbortAttempt
  <2> QED
    BY <1>4, <2>1, <2>2, <2>3 DEF TaskStep
<1>5. ASSUME NEW r \in Recoverer, RecoverCommit(r) \/ RecoverAbort(r) PROVE AbortDecided'
  BY <1>0, <1>5, ExecIsNoRecoverer DEF RecoverCommit, RecoverAbort
<1>6. CASE UNCHANGED vars
  BY <1>6 DEF vars
<1> QED
  BY <1>2, <1>3, <1>4, <1>5, <1>6 DEF Next

(* Who sets the phase to an aborted one is Execute, or recovery with an    *)
(* abort that it presumed.                                                 *)
LEMMA AbortedStep == Inv /\ AbortedInv /\ [Next]_vars => AbortedInv'
<1> SUFFICES ASSUME Inv, AbortedInv, [Next]_vars,
                    phase' \in {"Aborting", "Aborted"}, ~ presumed'
             PROVE  AbortDecided'
  BY DEF AbortedInv
<1>1. TypeOK /\ ~ presumed
  BY PresumedStays DEF Inv
<1>2. CASE phase \in {"Aborting", "Aborted"}
  BY <1>1, <1>2, AbortDecidedStays DEF AbortedInv
<1>3. ASSUME NEW t \in Task, BeginAbort(t) \/ EndAbort(t) PROVE AbortDecided'
  <2>1. t = Exec
    BY <1>1, <1>3 DEF Inv, AbortInv, Task, BeginAbort, EndAbort
  <2>2. AbortDecided
    BY <1>3, <2>1 DEF AbortDecided, BeginAbort, EndAbort
  <2> QED
    BY <2>2, AbortDecidedStays
<1>4. ASSUME phase \notin {"Aborting", "Aborted"},
             ~ \E t \in Task : BeginAbort(t) \/ EndAbort(t)
      PROVE  FALSE
  <2>1. ASSUME NEW t \in Task, TaskStep(t) PROVE FALSE
    BY <1>4, <2>1 DEF TaskStep, BeginCommit, EndCommit, CommitReturns,
                      CommitAttemptFails, AbortAttempt
  <2>2. ASSUME NEW p \in Participant, Prepare(p) \/ CollectVote(p) PROVE FALSE
    BY <1>4, <2>2 DEF Prepare, PrepareYes, PrepareNo, PrepareReadOnly, PrepareError,
                      PrepareEnds, CollectVote
  <2>3. CASE UNCHANGED vars
    BY <1>4, <2>3 DEF vars
  <2> QED
    BY <1>4, <2>1, <2>2, <2>3 DEF Next, BeginPrepare, PrepareSucceeds, PrepareFails,
                                  RecoverCommit, RecoverAbort
<1> QED
  BY <1>2, <1>3, <1>4

(* The phase becomes Committed with the end of a commit that delivered     *)
(* everything, and no vote comes in after the decision.                    *)
CommittedInv ==
    phase = "Committed" => \A p \in Participant : votes[p] = "Yes" => p \in committed

LEMMA CommittedStep == Inv /\ CommittedInv /\ [Next]_vars => CommittedInv'
<1> SUFFICES ASSUME Inv, CommittedInv, [Next]_vars, phase' = "Committed",
                    NEW p \in Participant, votes'[p] = "Yes"
             PROVE  p \in committed'
  BY DEF CommittedInv
<1>1. ASSUME phase = "Committed", votes'[p] = votes[p], committed \subseteq committed'
      PROVE  p \in committed'
  BY <1>1 DEF CommittedInv
<1>2. phase = "Committed" => votes[p] # "absent"
  BY DEF Inv, DecisionInv
<1>3. ASSUME NEW q \in Participant, CollectVote(q) PROVE p \in committed'
  <2>1. phase' = phase /\ committed' = committed /\ votes[q] = "absent"
    BY <1>3 DEF CollectVote, partVars
  <2>2. votes[q] # "absent"
    BY <2>1 DEF Inv, DecisionInv
  <2> QED
    BY <2>1, <2>2
<1>4. ASSUME NEW q \in Participant, Prepare(q) PROVE p \in committed'
  BY <1>1, <1>4 DEF Prepare, PrepareYes, PrepareNo, PrepareReadOnly, PrepareError, PrepareEnds
<1>5. ASSUME NEW t \in Task, TaskStep(t) PROVE p \in committed'
  <2>1. CASE EndCommit(t)
    <3>1. /\ votes' = votes /\ committed' = committed
          /\ stage[t] = "committing" /\ left[t][p] = 0
      BY <2>1 DEF EndCommit, partVars
    <3>2. CASE t \in failed
      BY <1>1, <2>1, <3>1, <3>2 DEF EndCommit
    <3>3. CASE t \notin failed
      BY <3>1, <3>3 DEF Inv, DeliveryInv
    <3> QED
      BY <3>2, <3>3
  <2>2. CASE BeginCommit(t) \/ BeginAbort(t) \/ EndAbort(t)
    BY <2>2 DEF BeginCommit, BeginAbort, EndAbort
  <2>3. ASSUME NEW q \in Participant,
               CommitReturns(t, q) \/ CommitAttemptFails(t, q) \/ AbortAttempt(t, q)
        PROVE  p \in committed'
    BY <1>1, <2>3 DEF CommitReturns, CommitAttemptFails, AbortAttempt, CommitAt, partVars
  <2> QED
    BY <1>5, <2>1, <2>2, <2>3 DEF TaskStep
<1>6. CASE \/ BeginPrepare \/ PrepareSucceeds \/ PrepareFails
           \/ \E r \in Recoverer : RecoverCommit(r) \/ RecoverAbort(r)
           \/ UNCHANGED vars
  BY <1>1, <1>6 DEF BeginPrepare, PrepareSucceeds, PrepareFails, RecoverCommit,
                    RecoverAbort, partVars, vars
<1> QED
  BY <1>3, <1>4, <1>5, <1>6 DEF Next

(* A final phase tells the truth about the participants.                   *)
THEOREM PhaseIsTrueCorrect == Spec => []PhaseIsTrue
<1>1. Init => AbortedInv /\ CommittedInv
  BY DEF Init, AbortedInv, CommittedInv
<1>2. Inv /\ AbortedInv /\ CommittedInv /\ [Next]_vars => AbortedInv' /\ CommittedInv'
  BY AbortedStep, CommittedStep
<1>3. Inv /\ AbortedInv /\ CommittedInv => PhaseIsTrue
  <2>1. Inv /\ AbortDecided => ~ CommitDecided
    BY DEF Inv, DecisionInv, AbortDecided, CommitDecided
  <2>2. Inv /\ committed # {} => CommitDecided
    BY DEF Inv, TypeOK, CommitInv
  <2> QED
    BY <2>1, <2>2 DEF AbortedInv, CommittedInv, PhaseIsTrue
<1> QED
  BY <1>1, <1>2, <1>3, InvCorrect, PTL DEF Spec
-----------------------------------------------------------------------------
(* When an abort releases every share                                      *)

NextNoneLeft == Next /\ ~ presumed' /\ ~ LeavesShare

(* A collected vote is the participant's answer, and without an error that *)
(* hides a prepared share abort has a call for whoever holds operations.   *)
AnswerInv ==
    \A p \in Participant :
        /\ reply[p] \in {"ReadOnly", "None"} => fate[p] = "none"
        /\ votes[p] # "absent" => votes[p] = reply[p]

(* An abort that began with every vote in has a call to make to each       *)
(* participant that holds operations.                                      *)
ReleaseInv ==
    /\ AbortDecided => AllCollected
    /\ stage[Exec] = "aborting" =>
           \A p \in Participant : left[Exec][p] = 0 => fate[p] # "held"
    /\ result = "aborted" => \A p \in Participant : fate[p] # "held"

(* Only the end of PREPARE makes a participant hold operations.            *)
LEMMA SharesFall ==
    ASSUME TypeOK, [Next]_vars, NEW p \in Participant, ~ Prepare(p)
    PROVE  fate[p] # "held" => fate'[p] # "held"
<1>0. fate \in [Participant -> Fate]
  BY DEF TypeOK
<1>1. ASSUME NEW q \in Participant, Prepare(q) \/ CollectVote(q)
      PROVE  fate[p] # "held" => fate'[p] # "held"
  <2>1. CASE Prepare(q)
    <3>1. q # p /\ \E f \in Fate : fate' = [fate EXCEPT ![q] = f]
      BY <2>1 DEF Prepare, PrepareYes, PrepareNo, PrepareReadOnly, PrepareError,
                  PrepareEnds, Fate
    <3> QED
      BY <1>0, <3>1
  <2>2. CASE CollectVote(q)
    BY <2>2 DEF CollectVote, partVars
  <2> QED
    BY <1>1, <2>1, <2>2
<1>2. ASSUME NEW t \in Task, TaskStep(t)
      PROVE  fate[p] # "held" => fate'[p] # "held"
  <2>1. ASSUME NEW q \in Participant, CommitAt(q) \/ AbortAttempt(t, q)
        PROVE  fate[p] # "held" => fate'[p] # "held"
    BY <1>0, <2>1 DEF CommitAt, AbortAttempt
  <2> QED
    BY <1>2, <2>1 DEF TaskStep, BeginCommit, EndCommit, BeginAbort, EndAbort,
                      CommitReturns, CommitAttemptFails, partVars
<1>3. CASE \/ BeginPrepare \/ PrepareSucceeds \/ PrepareFails
           \/ \E r \in Recoverer : RecoverCommit(r) \/ RecoverAbort(r)
           \/ UNCHANGED vars
  BY <1>3 DEF BeginPrepare, PrepareSucceeds, PrepareFails, RecoverCommit,
              RecoverAbort, partVars, vars
<1> QED
  BY <1>1, <1>2, <1>3 DEF Next

(* The votes tell who holds operations.                                    *)
LEMMA AnswerStep == Inv /\ AnswerInv /\ [NextNoneLeft]_vars => AnswerInv'
<1> SUFFICES ASSUME Inv, AnswerInv, [NextNoneLeft]_vars, NEW p \in Participant
             PROVE  /\ reply'[p] \in {"ReadOnly", "None"} => fate'[p] = "none"
                    /\ votes'[p] # "absent" => votes'[p] = reply'[p]
  BY DEF AnswerInv
<1>0. /\ TypeOK /\ VoteInv
      /\ reply \in [Participant -> Reply] /\ fate \in [Participant -> Fate]
      /\ votes \in [Participant -> Vote \cup {"absent"}]
  BY DEF Inv, TypeOK
<1>1. ASSUME reply'[p] = reply[p], votes'[p] = votes[p],
             fate[p] = "none" => fate'[p] = "none"
      PROVE  /\ reply'[p] \in {"ReadOnly", "None"} => fate'[p] = "none"
             /\ votes'[p] # "absent" => votes'[p] = reply'[p]
  BY <1>1 DEF AnswerInv
<1>2. CASE BeginPrepare
  BY <1>0, <1>2 DEF BeginPrepare, VoteInv
<1>3. ASSUME NEW q \in Participant, Prepare(q)
      PROVE  /\ reply'[p] \in {"ReadOnly", "None"} => fate'[p] = "none"
             /\ votes'[p] # "absent" => votes'[p] = reply'[p]
  <2>1. ASSUME NEW v, NEW f, PrepareEnds(q, v, f), q # p
        PROVE  reply'[p] = reply[p] /\ votes'[p] = votes[p] /\ fate'[p] = fate[p]
    BY <1>0, <2>1 DEF PrepareEnds
  <2>2. CASE q # p
    BY <1>1, <1>3, <2>1, <2>2
    DEF Prepare, PrepareYes, PrepareNo, PrepareReadOnly, PrepareError
  <2>3. CASE q = p
    <3>1. ASSUME NEW v, NEW f, PrepareEnds(p, v, f)
          PROVE  reply'[p] = v /\ votes'[p] = "absent" /\ fate'[p] = f
      BY <1>0, <3>1 DEF PrepareEnds, VoteInv
    <3>2. CASE PrepareYes(p) \/ PrepareNo(p) \/ PrepareReadOnly(p)
      BY <3>1, <3>2 DEF PrepareYes, PrepareNo, PrepareReadOnly
    <3>3. CASE PrepareError(p)
      <4>1. ~ LeavesShare
        BY <1>0, <3>3 DEF NextNoneLeft, PrepareError, PrepareEnds, vars
      <4>2. ~ PrepareEnds(p, "None", "held")
        BY <3>1, <4>1 DEF LeavesShare
      <4>3. PICK v \in {"None", "No"}, f \in {"none", "held"} : PrepareEnds(p, v, f)
        BY <3>3 DEF PrepareError
      <4>4. v = "None" => f = "none"
        BY <4>2, <4>3
      <4> QED
        BY <3>1, <4>3, <4>4
    <3> QED
      BY <1>3, <2>3, <3>2, <3>3 DEF Prepare
  <2> QED
    BY <2>2, <2>3
<1>4. ASSUME NEW q \in Participant, CollectVote(q)
      PROVE  /\ reply'[p] \in {"ReadOnly", "None"} => fate'[p] = "none"
             /\ votes'[p] # "absent" => votes'[p] = reply'[p]
  BY <1>0, <1>4 DEF CollectVote, partVars, AnswerInv
<1>5. ASSUME NEW t \in Task, TaskStep(t)
      PROVE  reply' = reply /\ votes' = votes /\ (fate[p] = "none" => fate'[p] = "none")
  <2>1. ASSUME NEW q \in Participant, CommitAt(q) \/ AbortAttempt(t, q)
        PROVE  fate[p] = "none" => fate'[p] = "none"
    BY <1>0, <2>1 DEF CommitAt, AbortAttempt
  <2> QED
    BY <1>5, <2>1 DEF TaskStep, BeginCommit, EndCommit, BeginAbort, EndAbort,
                      CommitReturns, CommitAttemptFails, AbortAttempt, partVars
<1>6. CASE \/ PrepareSucceeds \/ PrepareFails
           \/ \E r \in Recoverer : RecoverCommit(r) \/ RecoverAbort(r)
           \/ UNCHANGED vars
  BY <1>1, <1>6 DEF PrepareSucceeds, PrepareFails, RecoverCommit, RecoverAbort,
                    partVars, vars
<1> QED
  BY <1>1, <1>2, <1>3, <1>4, <1>5, <1>6 DEF NextNoneLeft, Next

(* With every vote in and every answer truthful, a share that Execute's    *)
(* abort has no call for is none.                                          *)
LEMMA AbortCallsHolders ==
    ASSUME Inv, AnswerInv, ReleaseInv, BeginAbort(Exec), NEW p \in Participant,
           left'[Exec][p] = 0
    PROVE  fate[p] # "held"
<1>1. /\ left \in [Task -> [Participant -> 0..MaxRetries]] /\ Exec \in Task
      /\ votes[p] \in Vote \cup {"absent"}
  BY DEF Inv, TypeOK, Task
<1>2. votes[p] # "absent"
  BY DEF ReleaseInv, AbortDecided, AllCollected, BeginAbort
<1>3. votes[p] \in {"None", "ReadOnly"}
  BY <1>1, <1>2 DEF BeginAbort, GetsAbort
<1> QED
  BY <1>3 DEF AnswerInv

(* Execute's abort leaves no share behind. *)
LEMMA ReleaseStep ==
    Inv /\ AnswerInv /\ ReleaseInv /\ ~ presumed /\ [NextNoneLeft]_vars => ReleaseInv'
<1> SUFFICES ASSUME Inv, AnswerInv, ReleaseInv, ~ presumed, [NextNoneLeft]_vars
             PROVE  ReleaseInv'
  OBVIOUS
<1>0. /\ TypeOK /\ [Next]_vars /\ Exec \in Task /\ Recoverer \subseteq Task
      /\ stage \in [Task -> Stage]
      /\ left \in [Task -> [Participant -> 0..MaxRetries]]
      /\ fate \in [Participant -> Fate]
  BY DEF Inv, TypeOK, Task, NextNoneLeft
<1>1. ASSUME UNCHANGED <<votes, result, stage, left>>, ~ \E p \in Participant : Prepare(p)
      PROVE  ReleaseInv'
  BY <1>0, <1>1, SharesFall DEF ReleaseInv, AbortDecided, AllCollected
<1>2. ASSUME NEW p \in Participant, Prepare(p) PROVE ReleaseInv'
  <2>1. reply[p] = "sent" /\ UNCHANGED <<votes, result, stage, left>>
    BY <1>2 DEF Prepare, PrepareYes, PrepareNo, PrepareReadOnly, PrepareError,
                PrepareEnds
  <2>2. ~ AbortDecided
    BY <2>1 DEF Inv, VoteInv, ReleaseInv, AllCollected
  <2> QED
    BY <2>1, <2>2 DEF ReleaseInv, AbortDecided
<1>3. ASSUME NEW p \in Participant, CollectVote(p) PROVE ReleaseInv'
  <2>1. ~ AbortDecided /\ UNCHANGED <<fate, result, stage, left>>
    BY <1>3 DEF CollectVote, partVars, AbortDecided, Inv, DecisionInv
  <2> QED
    BY <2>1 DEF ReleaseInv, AbortDecided
<1>4. CASE BeginPrepare \/ PrepareSucceeds
  <2>1. ~ AbortDecided' /\ stage'[Exec] # "aborting" /\ result' # "aborted"
    BY <1>0, <1>4 DEF BeginPrepare, PrepareSucceeds, AbortDecided, Inv, DecisionInv
  <2> QED
    BY <2>1 DEF ReleaseInv
<1>5. CASE PrepareFails
  <2>1. stage'[Exec] = "toAbort" /\ result' # "aborted" /\ votes' = votes
    BY <1>0, <1>5 DEF PrepareFails, Inv, DecisionInv
  <2>2. ~ LeavesShare
    BY <1>0, <1>5 DEF NextNoneLeft, PrepareFails, vars
  <2> QED
    BY <1>5, <2>1, <2>2 DEF LeavesShare, ReleaseInv, AllCollected
<1>6. ASSUME NEW t \in Task, TaskStep(t) PROVE ReleaseInv'
  <2>0. ASSUME NEW p \in Participant, fate[p] # "held" PROVE fate'[p] # "held"
    <3>1. reply' = reply
      BY <1>6 DEF TaskStep, BeginCommit, EndCommit, BeginAbort, EndAbort,
                  CommitReturns, CommitAttemptFails, AbortAttempt
    <3>2. ASSUME Prepare(p) PROVE FALSE
      <4>1. reply[p] = "sent" /\ reply'[p] # "sent"
        BY <3>2 DEF Inv, TypeOK, Prepare, PrepareYes, PrepareNo, PrepareReadOnly,
                    PrepareError, PrepareEnds
      <4> QED
        BY <3>1, <4>1
    <3> QED
      BY <1>0, <2>0, <3>2, SharesFall
  <2>1. CASE BeginCommit(t)
    <3>1. ~ AbortDecided' /\ stage'[Exec] # "aborting" /\ result' # "aborted"
      BY <1>0, <2>1 DEF BeginCommit, AbortDecided, Inv, DecisionInv, CommitDecided, Task
    <3> QED
      BY <3>1 DEF ReleaseInv
  <2>2. CASE EndCommit(t)
    <3>1. ~ AbortDecided' /\ stage'[Exec] # "aborting" /\ result' # "aborted"
      BY <1>0, <2>2 DEF EndCommit, Rest, AbortDecided, Inv, DecisionInv, CommitDecided, Task
    <3> QED
      BY <3>1 DEF ReleaseInv
  <2>3. CASE BeginAbort(t)
    <3>1. t = Exec
      BY <2>3 DEF BeginAbort, Inv, AbortInv, Task
    <3>2. stage[Exec] = "toAbort" /\ votes' = votes /\ fate' = fate /\ result' # "aborted"
      BY <2>3, <3>1 DEF BeginAbort, partVars, Inv, DecisionInv
    <3>3. \A p \in Participant : left'[Exec][p] = 0 => fate[p] # "held"
      BY <2>3, <3>1, AbortCallsHolders
    <3> QED
      BY <3>2, <3>3 DEF ReleaseInv, AbortDecided, AllCollected
  <2>4. CASE EndAbort(t)
    <3>1. t = Exec
      BY <2>4 DEF EndAbort, Inv, AbortInv, Task
    <3>2. /\ stage[Exec] = "aborting" /\ votes' = votes /\ fate' = fate
          /\ stage'[Exec] = "done" /\ \A p \in Participant : left[Exec][p] = 0
      BY <1>0, <2>4, <3>1 DEF EndAbort, Rest, partVars
    <3> QED
      BY <3>2 DEF ReleaseInv, AbortDecided, AllCollected
  <2>5. ASSUME NEW p \in Participant, CommitReturns(t, p) \/ CommitAttemptFails(t, p)
        PROVE  ReleaseInv'
    <3>1. /\ stage[t] = "committing" /\ UNCHANGED <<votes, stage, result>>
          /\ \A u \in Task : u # t => left'[u] = left[u]
      BY <1>0, <2>5 DEF CommitReturns, CommitAttemptFails
    <3>2. ~ AbortDecided
      BY <3>1 DEF Inv, DecisionInv, CommitDecided, AbortDecided
    <3> QED
      BY <3>1, <3>2 DEF ReleaseInv, AbortDecided
  <2>6. ASSUME NEW p \in Participant, AbortAttempt(t, p) PROVE ReleaseInv'
    <3>1. t = Exec
      BY <2>6 DEF AbortAttempt, Inv, AbortInv, Task
    <3>2. /\ UNCHANGED <<votes, stage, result>>
          /\ \A q \in Participant : q # p => left'[Exec][q] = left[Exec][q]
      BY <1>0, <2>6, <3>1 DEF AbortAttempt
    <3>3. ~ LeavesShare
      <4>1. left[Exec][p] > 0 /\ left'[Exec][p] = 0
        BY <1>0, <2>6, <3>1 DEF AbortAttempt
      <4> QED
        BY <4>1 DEF NextNoneLeft, vars
    <3>4. fate'[p] # "held"
      BY <2>6, <3>3 DEF LeavesShare
    <3> QED
      BY <2>0, <3>2, <3>4 DEF ReleaseInv, AbortDecided, AllCollected
  <2> QED
    BY <1>6, <2>1, <2>2, <2>3, <2>4, <2>5, <2>6 DEF TaskStep
<1>7. ASSUME NEW r \in Recoverer, RecoverCommit(r) \/ RecoverAbort(r) PROVE ReleaseInv'
  <2>1. /\ UNCHANGED <<votes, fate, result, left>> /\ stage'[Exec] = stage[Exec]
    BY <1>0, <1>7, ExecIsNoRecoverer DEF RecoverCommit, RecoverAbort, partVars
  <2> QED
    BY <2>1 DEF ReleaseInv, AbortDecided, AllCollected
<1>8. CASE UNCHANGED vars
  BY <1>8 DEF vars, ReleaseInv, AbortDecided, AllCollected
<1> QED
  BY <1>2, <1>3, <1>4, <1>5, <1>6, <1>7, <1>8 DEF NextNoneLeft, Next

(* An abort that began with every answer in hand, with no error that hides *)
(* a prepared share and no call of Abort without effect, and no presumed   *)
(* abort beside it, leaves nobody holding operations: the run              *)
(* TwoPC_orphan needs one of these.                                        *)
THEOREM AbortReleasesIfNoneLeft == SpecNoneLeft => []AbortReleasesAll
<1> DEFINE NoneLeft == Inv /\ ~ presumed /\ AbortedInv /\ AnswerInv /\ ReleaseInv
<1>1. Init => NoneLeft
  BY InvInit DEF Init, AbortedInv, AnswerInv, ReleaseInv, AbortDecided, AllCollected, Task
<1>2. NoneLeft /\ [NextNoneLeft]_vars => NoneLeft'
  <2> SUFFICES ASSUME NoneLeft, [NextNoneLeft]_vars PROVE NoneLeft'
    OBVIOUS
  <2>1. [Next]_vars
    BY DEF NextNoneLeft
  <2>2. ~ presumed'
    BY DEF NextNoneLeft, vars
  <2> QED
    BY <2>1, <2>2, InvStep, AbortedStep, AnswerStep, ReleaseStep
<1>3. NoneLeft => AbortReleasesAll
  BY DEF AbortReleasesAll, Quiescent, AbortedInv, ReleaseInv, AbortDecided, Task
<1> QED
  <2> HIDE DEF NoneLeft
  <2> QED
    BY <1>1, <1>2, <1>3, PTL DEF SpecNoneLeft, NextNoneLeft
===============================================================================
