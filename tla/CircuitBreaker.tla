---------------------------- MODULE CircuitBreaker ----------------------------
(***************************************************************************)
(* The circuit breaker of pkg/resilience/circuit.go and the callers of its *)
(* Execute.  The lock is free while the caller's function runs, so the     *)
(* breaker may change its state any number of times between beforeRequest  *)
(* and afterRequest.  A function that panics is not modelled: Execute then *)
(* never calls afterRequest.                                               *)
(*                                                                         *)
(* expired stands for time.Since(lastStateChangeAt) >= Timeout.            *)
(***************************************************************************)
EXTENDS Naturals, FiniteSets

CONSTANTS Caller,
          FailureThreshold, SuccessThreshold, MaxHalfOpenRequests

ASSUME CallersAreFinite == IsFiniteSet(Caller)

(* NewCircuitBreaker replaces what is not positive by a default.           *)
ASSUME ThresholdsArePositive ==
    /\ FailureThreshold \in Nat /\ FailureThreshold > 0
    /\ SuccessThreshold \in Nat /\ SuccessThreshold > 0
    /\ MaxHalfOpenRequests \in Nat /\ MaxHalfOpenRequests > 0

VARIABLES state, failureCount, successCount, halfOpenRequests, expired,
          inside,   \* the callers between beforeRequest and afterRequest
          probes,   \* history: those of them admitted in this HalfOpen period
          granted   \* history: how many were admitted in this HalfOpen period

counters == <<failureCount, successCount, halfOpenRequests>>
vars == <<state, counters, expired, inside, probes, granted>>

TypeOK == /\ state \in {"closed", "open", "half-open"}
          /\ failureCount \in 0..FailureThreshold
          /\ successCount \in Nat
          /\ halfOpenRequests \in Nat
          /\ expired \in BOOLEAN
          /\ inside \subseteq Caller
          /\ probes \subseteq inside
          /\ granted \in Nat

Init == /\ state = "closed"
        /\ failureCount = 0
        /\ successCount = 0
        /\ halfOpenRequests = 0
        /\ expired = FALSE
        /\ inside = {}
        /\ probes = {}
        /\ granted = 0

-----------------------------------------------------------------------------
(* transitionTo; a period of HalfOpen begins and ends without probes.      *)
TransitionTo(new) == /\ state' = new
                     /\ expired' = IF state = new THEN expired ELSE FALSE

NewPeriod(P) == probes' = P /\ granted' = Cardinality(P)

Elapse == /\ ~expired
          /\ expired' = TRUE
          /\ UNCHANGED <<state, counters, inside, probes, granted>>

(* State, where it has the effect.                                         *)
ReadState == /\ state = "open" /\ expired
             /\ TransitionTo("half-open")
             /\ NewPeriod({})
             /\ UNCHANGED <<counters, inside>>

(* Mutation: the counters are left for the next period to find.            *)
MutKeepCounts == /\ TransitionTo("closed")
                 /\ NewPeriod({})
                 /\ failureCount' = 0
                 /\ UNCHANGED <<successCount, halfOpenRequests, inside>>

Reset == /\ TransitionTo("closed")
         /\ NewPeriod({})
         /\ failureCount' = 0
         /\ successCount' = 0
         /\ halfOpenRequests' = 0
         /\ UNCHANGED inside

(* beforeRequest, state by state.                                          *)
AdmitClosed(c) == /\ state = "closed"
                  /\ inside' = inside \cup {c}
                  /\ UNCHANGED <<state, counters, expired, probes, granted>>

(* Mutation: the request that ends the Open period is not counted.         *)
MutNotCounted(c) == /\ state = "open" /\ expired
                    /\ TransitionTo("half-open")
                    /\ inside' = inside \cup {c}
                    /\ NewPeriod({c})
                    /\ UNCHANGED counters

(* Mutation: the end of the timeout closes the circuit, without a probe.   *)
MutNoProbe(c) == /\ state = "open" /\ expired
                 /\ TransitionTo("closed")
                 /\ failureCount' = 0
                 /\ inside' = inside \cup {c}
                 /\ NewPeriod({})
                 /\ UNCHANGED <<successCount, halfOpenRequests>>

AdmitFirst(c) == /\ state = "open" /\ expired
                 /\ TransitionTo("half-open")
                 /\ halfOpenRequests' = 1
                 /\ inside' = inside \cup {c}
                 /\ NewPeriod({c})
                 /\ UNCHANGED <<failureCount, successCount>>

AdmitProbe(c) == /\ state = "half-open"
                 /\ halfOpenRequests < MaxHalfOpenRequests
                 /\ halfOpenRequests' = halfOpenRequests + 1
                 /\ inside' = inside \cup {c}
                 /\ probes' = probes \cup {c}
                 /\ granted' = granted + 1
                 /\ UNCHANGED <<state, failureCount, successCount, expired>>

BeforeRequest(c) == /\ c \notin inside
                    /\ AdmitClosed(c) \/ AdmitFirst(c) \/ AdmitProbe(c)

Leave(c) == inside' = inside \ {c} /\ probes' = probes \ {c}

(* onSuccess                                                               *)
SuccessClosed(c) == /\ state = "closed"
                    /\ failureCount' = 0
                    /\ Leave(c)
                    /\ UNCHANGED <<state, successCount, halfOpenRequests, expired, granted>>

(* Mutation: > for >=.                                                     *)
MutOneMore(n) == n > SuccessThreshold

Enough(n) == n >= SuccessThreshold

SuccessHalfOpen(c) ==
    /\ state = "half-open"
    /\ IF Enough(successCount + 1)
       THEN /\ TransitionTo("closed")
            /\ failureCount' = 0
            /\ successCount' = 0
            /\ halfOpenRequests' = 0
            /\ inside' = inside \ {c}
            /\ NewPeriod({})
       ELSE /\ successCount' = successCount + 1
            /\ Leave(c)
            /\ UNCHANGED <<state, failureCount, halfOpenRequests, expired, granted>>

(* Mutation: > for >=.                                                     *)
MutOneFailureMore(n) == n > FailureThreshold

TooMany(n) == n >= FailureThreshold

(* onFailure                                                               *)
FailureClosed(c) ==
    /\ state = "closed"
    /\ failureCount' = failureCount + 1
    /\ IF TooMany(failureCount + 1) THEN TransitionTo("open")
       ELSE UNCHANGED <<state, expired>>
    /\ Leave(c)
    /\ UNCHANGED <<successCount, halfOpenRequests, granted>>

(* Mutation: the slots that were taken are not given back.                 *)
MutKeepSlots(c) == /\ state = "half-open"
                   /\ TransitionTo("open")
                   /\ successCount' = 0
                   /\ inside' = inside \ {c}
                   /\ NewPeriod({})
                   /\ UNCHANGED <<failureCount, halfOpenRequests>>

FailureHalfOpen(c) == /\ state = "half-open"
                      /\ TransitionTo("open")
                      /\ successCount' = 0
                      /\ halfOpenRequests' = 0
                      /\ inside' = inside \ {c}
                      /\ NewPeriod({})
                      /\ UNCHANGED failureCount

(* A result that comes while the breaker is Open changes nothing.          *)
ResultOpen(c) == /\ state = "open"
                 /\ Leave(c)
                 /\ UNCHANGED <<state, counters, expired, granted>>

AfterRequest(c) == /\ c \in inside
                   /\ \/ SuccessClosed(c) \/ SuccessHalfOpen(c)
                      \/ FailureClosed(c) \/ FailureHalfOpen(c) \/ ResultOpen(c)

Next == \/ Elapse \/ ReadState \/ Reset
        \/ \E c \in Caller : BeforeRequest(c) \/ AfterRequest(c)

Spec == Init /\ [][Next]_vars

-----------------------------------------------------------------------------
(* Properties                                                              *)

(* Every HalfOpen period is judged on its own: outside of it no success    *)
(* and no request of an earlier one is still counted, and a Closed breaker *)
(* is always short of the threshold, whatever late results and resets did. *)
CountersFollowState ==
    /\ state # "half-open" => successCount = 0 /\ halfOpenRequests = 0
    /\ state = "closed" => failureCount < FailureThreshold
    /\ state = "half-open" => successCount < SuccessThreshold

(* "A limited number of requests are allowed": over the whole of one       *)
(* HalfOpen period, entered through beforeRequest or through State, at     *)
(* most MaxHalfOpenRequests are admitted.                                  *)
ProbeLimit == granted <= MaxHalfOpenRequests

(* A HalfOpen breaker whose probes have all returned admits another one or *)
(* has closed: it does not reject for ever.  Slots are never given back,   *)
(* so this needs at least as many of them as successes to close; the       *)
(* defaults (2 successes, 1 slot) do not have them.                        *)
NeverStuck ==
    SuccessThreshold <= MaxHalfOpenRequests =>
        (state = "half-open" /\ probes = {} => halfOpenRequests < MaxHalfOpenRequests)

(* The condition of NeverStuck is needed: a HalfOpen breaker whose slots   *)
(* are used up, and whose requests have all returned, rejects every        *)
(* caller, however long it waits, until somebody calls Reset.              *)
Stuck == /\ state = "half-open"
         /\ halfOpenRequests >= MaxHalfOpenRequests
         /\ inside = {}
StuckUntilReset == [][Stuck => Stuck' \/ Reset]_vars

(* Time passes, and the callers' functions return.                         *)
FairSpec == /\ Spec
            /\ WF_vars(Elapse)
            /\ \A c \in Caller : WF_vars(AfterRequest(c))

Failure == \E c \in inside : FailureClosed(c) \/ FailureHalfOpen(c)
Request == \E c \in Caller : BeforeRequest(c)

(* A service that is healthy again and still asked for gets its circuit    *)
(* back, and not for a moment only: once failures have stopped the breaker *)
(* is Closed for good, given a slot for each success it needs.             *)
Recovers ==
    (SuccessThreshold <= MaxHalfOpenRequests /\ <>[][~ Failure]_vars /\ WF_vars(Request))
        => <>[](state = "closed")

(* A broken service trips the breaker, and for good: results of calls made *)
(* before the circuit opened may still close it in place of its probes,    *)
(* and reset the count of failures, but once nothing succeeds any more and *)
(* nobody calls Reset, the requests that keep coming open the circuit and  *)
(* no lapse of the timeout lets them all through again.                    *)
Success == \E c \in inside : SuccessClosed(c) \/ SuccessHalfOpen(c)
Trips == (<>[][~ Success /\ ~ Reset]_vars /\ WF_vars(Request)) => <>[](state # "closed")
=============================================================================
