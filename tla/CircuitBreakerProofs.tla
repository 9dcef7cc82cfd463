------------------------- MODULE CircuitBreakerProofs -------------------------
(***************************************************************************)
(* What the run of CircuitBreaker checks on four callers, for every set of *)
(* callers and all thresholds.                                             *)
(***************************************************************************)
EXTENDS CircuitBreaker, FiniteSetTheorems, TLAPS

(* The slots taken in a HalfOpen period are those of its probes, and each  *)
(* of them that came back successfully is counted as a success.            *)
SlotInv == /\ granted = halfOpenRequests
           /\ state = "half-open" => halfOpenRequests <= Cardinality(probes) + successCount

Inv == TypeOK /\ CountersFollowState /\ ProbeLimit /\ SlotInv

-----------------------------------------------------------------------------
(* Sets of callers can be counted, and one caller makes a difference of at *)
(* most one.                                                               *)
LEMMA Counting ==
    ASSUME NEW S \in SUBSET Caller, NEW c \in Caller
    PROVE  /\ Cardinality(S) \in Nat
           /\ c \notin S => Cardinality(S \cup {c}) = Cardinality(S) + 1
           /\ Cardinality(S \ {c}) >= Cardinality(S) - 1
<1>1. IsFiniteSet(S)
  BY FS_Subset, CallersAreFinite
<1>2. Cardinality(S) \in Nat
  BY <1>1, FS_CardinalityType
<1>3. Cardinality(S \cup {c}) = IF c \in S THEN Cardinality(S) ELSE Cardinality(S) + 1
  BY <1>1, FS_AddElement
<1>4. Cardinality(S \ {c}) = IF c \in S THEN Cardinality(S) - 1 ELSE Cardinality(S)
  BY <1>1, FS_RemoveElement
<1> QED
  BY <1>2, <1>3, <1>4

(* A new breaker satisfies the invariant.                                  *)
LEMMA InvInit == Init => Inv
<1> SUFFICES ASSUME Init PROVE Inv
  OBVIOUS
<1>1. TypeOK
  <2>1. 0 \in 0..FailureThreshold
    BY ThresholdsArePositive
  <2> QED
    BY <2>1 DEF Init, TypeOK
<1>2. CountersFollowState /\ ProbeLimit /\ SlotInv
  BY ThresholdsArePositive DEF Init, CountersFollowState, ProbeLimit, SlotInv
<1> QED
  BY <1>1, <1>2 DEF Inv

(* Admission keeps the invariant: a slot is taken for every probe.         *)
LEMMA BeforeKeeps ==
    ASSUME Inv, NEW c \in Caller, BeforeRequest(c)
    PROVE  Inv'
<1> USE ThresholdsArePositive DEF Inv, TypeOK, CountersFollowState, ProbeLimit, SlotInv, counters
<1>0. c \notin inside
  BY DEF BeforeRequest
<1>1. CASE AdmitClosed(c)
  BY <1>1 DEF AdmitClosed
<1>2. CASE AdmitFirst(c)
  <2>1. Cardinality({c}) = 1
    BY FS_Singleton
  <2> QED
    BY <1>2, <2>1 DEF AdmitFirst, TransitionTo, NewPeriod
<1>3. CASE AdmitProbe(c)
  <2>1. Cardinality(probes) \in Nat /\ Cardinality(probes \cup {c}) = Cardinality(probes) + 1
    BY <1>0, Counting
  <2> QED
    BY <1>3, <2>1 DEF AdmitProbe
<1> QED
  BY <1>1, <1>2, <1>3 DEF BeforeRequest

(* Results keep the invariant: a probe leaves, a success comes.            *)
LEMMA AfterKeeps ==
    ASSUME Inv, NEW c \in Caller, AfterRequest(c)
    PROVE  Inv'
<1> USE ThresholdsArePositive DEF Inv, TypeOK, CountersFollowState, ProbeLimit, SlotInv, counters
<1>0. /\ Cardinality(probes) \in Nat
      /\ Cardinality(probes \ {c}) \in Nat
      /\ Cardinality(probes \ {c}) >= Cardinality(probes) - 1
  BY Counting
<1>1. CASE SuccessClosed(c)
  BY <1>1 DEF SuccessClosed, Leave
<1>2. CASE SuccessHalfOpen(c)
  <2>1. CASE Enough(successCount + 1)
    BY <1>2, <2>1, FS_EmptySet DEF SuccessHalfOpen, TransitionTo, NewPeriod
  <2>2. CASE ~ Enough(successCount + 1)
    <3>1. /\ state = "half-open" /\ state' = "half-open"
          /\ successCount' = successCount + 1 /\ successCount' < SuccessThreshold
          /\ inside' = inside \ {c} /\ probes' = probes \ {c}
          /\ UNCHANGED <<failureCount, halfOpenRequests, expired, granted>>
      BY <1>2, <2>2 DEF SuccessHalfOpen, Enough, Leave
    <3>2. halfOpenRequests' <= Cardinality(probes') + successCount'
      BY <1>0, <3>1
    <3> QED
      BY <3>1, <3>2
  <2> QED
    BY <2>1, <2>2
<1>3. CASE FailureClosed(c)
  <2>1. CASE TooMany(failureCount + 1)
    BY <1>3, <2>1 DEF FailureClosed, TooMany, TransitionTo, Leave
  <2>2. CASE ~ TooMany(failureCount + 1)
    BY <1>3, <2>2 DEF FailureClosed, TooMany, Leave
  <2> QED
    BY <2>1, <2>2
<1>4. CASE FailureHalfOpen(c)
  BY <1>4, FS_EmptySet DEF FailureHalfOpen, TransitionTo, NewPeriod
<1>5. CASE ResultOpen(c)
  BY <1>5 DEF ResultOpen, Leave
<1> QED
  BY <1>1, <1>2, <1>3, <1>4, <1>5 DEF AfterRequest

(* Every step keeps the invariant.                                         *)
LEMMA InvStep == Inv /\ [Next]_vars => Inv'
<1> SUFFICES ASSUME Inv, [Next]_vars PROVE Inv'
  OBVIOUS
<1>1. CASE Elapse
  BY <1>1 DEF Elapse, Inv, TypeOK, CountersFollowState, ProbeLimit, SlotInv, counters
<1>2. CASE ReadState
  BY <1>2, FS_EmptySet, ThresholdsArePositive
     DEF ReadState, TransitionTo, NewPeriod, Inv, TypeOK, CountersFollowState, ProbeLimit,
         SlotInv, counters
<1>3. CASE Reset
  <2>1. granted' = 0
    BY <1>3, FS_EmptySet DEF Reset, NewPeriod
  <2>2. TypeOK'
    <3>1. 0 \in 0..FailureThreshold
      BY ThresholdsArePositive
    <3>2. expired' \in BOOLEAN /\ state' = "closed"
      BY <1>3 DEF Reset, TransitionTo, Inv, TypeOK
    <3> QED
      BY <1>3, <2>1, <3>1, <3>2 DEF Reset, NewPeriod, Inv, TypeOK
  <2>3. CountersFollowState' /\ ProbeLimit' /\ SlotInv'
    BY <1>3, <2>1, ThresholdsArePositive
       DEF Reset, TransitionTo, CountersFollowState, ProbeLimit, SlotInv
  <2> QED
    BY <2>2, <2>3 DEF Inv
<1>4. CASE \E c \in Caller : BeforeRequest(c) \/ AfterRequest(c)
  BY <1>4, BeforeKeeps, AfterKeeps
<1>5. CASE UNCHANGED vars
  BY <1>5 DEF vars, counters, Inv, TypeOK, CountersFollowState, ProbeLimit, SlotInv
<1> QED
  BY <1>1, <1>2, <1>3, <1>4, <1>5 DEF Next

(* The inductive invariant holds in every reachable state.                 *)
LEMMA InvAlways == Spec => []Inv
BY InvInit, InvStep, PTL DEF Spec

(* A breaker and the sets of its callers stay in their types.              *)
THEOREM TypeCorrect == Spec => []TypeOK
BY InvAlways, PTL DEF Inv

(* No count survives the HalfOpen period it belongs to.                    *)
THEOREM FreshCounters == Spec => []CountersFollowState
BY InvAlways, PTL DEF Inv

(* No HalfOpen period admits more than MaxHalfOpenRequests requests.       *)
THEOREM LimitedProbes == Spec => []ProbeLimit
BY InvAlways, PTL DEF Inv

(* With a slot for every success that is needed, a HalfOpen breaker always *)
(* has a probe under way or a slot for one.                                *)
THEOREM SlotsSuffice == Spec => []NeverStuck
<1>1. Inv => NeverStuck
  BY FS_EmptySet, ThresholdsArePositive
     DEF Inv, TypeOK, SlotInv, CountersFollowState, NeverStuck
<1> QED
  BY <1>1, InvAlways, PTL

(* Nothing but Reset ends the rejections of a breaker that ran out of      *)
(* slots, whatever the thresholds: the defaults of NewCircuitBreaker, one  *)
(* slot for two successes, lead there when the first probe succeeds.       *)
THEOREM StuckUntilResetCorrect == Spec => StuckUntilReset
<1>1. ASSUME Inv, [Next]_vars, Stuck PROVE Stuck' \/ Reset \/ UNCHANGED vars
  <2>1. ASSUME NEW c \in Caller, BeforeRequest(c) PROVE FALSE
    BY <1>1, <2>1, ThresholdsArePositive
    DEF Inv, TypeOK, Stuck, BeforeRequest, AdmitClosed, AdmitFirst, AdmitProbe
  <2>2. ASSUME NEW c \in Caller, AfterRequest(c) PROVE FALSE
    BY <1>1, <2>2 DEF Stuck, AfterRequest
  <2>3. CASE Elapse \/ ReadState
    BY <1>1, <2>3 DEF Stuck, Elapse, ReadState, counters
  <2> QED
    BY <1>1, <2>1, <2>2, <2>3 DEF Next
<1> QED
  BY <1>1, InvAlways, PTL DEF Spec, StuckUntilReset
===============================================================================
