----------------------------- MODULE GangScheduler -----------------------------
(***************************************************************************)
(* The gang scheduler of pkg/training/gang.go with the barriers it hands   *)
(* to the workers of a running gang.  Every method holds s.mu from its     *)
(* first read to its last write, so a method is one step; the workers take *)
(* their steps in between (module GangBarrier).                            *)
(*                                                                         *)
(* Signing a receipt cannot fail in this code (ed25519 over the JSON of a  *)
(* fixed struct), so the branches that undo s.seq and the reservation are  *)
(* left out.  Capacity is never changed after NewGangScheduler.            *)
(***************************************************************************)
EXTENDS GangBarrier, Sequences

CONSTANTS Dim,       \* the resource dimensions: GPUs, CPU cores, memory
          Capacity,  \* Capacity[d]: what the cluster has of d
          JobSpec    \* the specs that may be submitted

ASSUME CapacityIsNat == Capacity \in [Dim -> Nat]
ASSUME DimsAreFinite == IsFiniteSet(Dim)
ASSUME GangsAreFinite == IsFiniteSet(Gang)

(* validate: at least one replica, MinMembers at most Replicas, no         *)
(* negative request.                                                       *)
ASSUME SpecsAreValid ==
    \A s \in JobSpec : /\ s.replicas \in Nat \ {0}
                     /\ s.minMembers \in 0..s.replicas
                     /\ s.resources \in [Dim -> Nat]

VARIABLES spec,       \* spec[g]: job.Spec, as the caller of Submit has it
          state,      \* state[g]: job.State, "" before Submit
          reserved,   \* the gangs whose job.Reserved holds
          admitted,   \* admitted[g]: job.AdmittedMembers
          allocated,  \* s.allocated
          barriers,   \* the gangs with an entry in s.barriers
          seq,        \* s.seq
          events      \* events[g]: the receipts in job.Events

schedVars == <<spec, state, reserved, admitted, allocated, barriers, seq, events>>
vars == <<schedVars, barrierVars>>

State == {"", "pending", "gang_ready", "running", "succeeded", "failed"}

(* gangTransitions                                                         *)
Transition == {<<"pending", "gang_ready">>, <<"pending", "failed">>,
               <<"gang_ready", "running">>, <<"gang_ready", "failed">>,
               <<"running", "succeeded">>, <<"running", "failed">>}

Terminal(g) == state[g] \in {"succeeded", "failed"}

Receipt == [seq : Nat, from : State, to : State]

TypeOK == /\ BarrierTypeOK
          /\ spec \in [Gang -> JobSpec]
          /\ state \in [Gang -> State]
          /\ reserved \subseteq Gang
          /\ admitted \in [Gang -> Nat]
          /\ allocated \in [Dim -> Nat]
          /\ barriers \subseteq Gang
          /\ seq \in Nat
          /\ events \in [Gang -> Seq(Receipt)]

Init == /\ BarrierInit
        /\ spec \in [Gang -> JobSpec]
        /\ state = [g \in Gang |-> ""]
        /\ reserved = {}
        /\ admitted = [g \in Gang |-> 0]
        /\ allocated = [d \in Dim |-> 0]
        /\ barriers = {}
        /\ seq = 0
        /\ events = [g \in Gang |-> <<>>]

-----------------------------------------------------------------------------
requiredMembers(s) ==
    IF s.minMembers = 0 \/ s.minMembers > s.replicas THEN s.replicas ELSE s.minMembers

totalRequest(s, members) == [d \in Dim |-> s.resources[d] * members]

(* Mutation: every gang is compared with the whole cluster.                *)
MutFitsCluster(s) == LET req == totalRequest(s, requiredMembers(s))
                     IN \A d \in Dim : req[d] <= Capacity[d]

Fits(s) == LET req == totalRequest(s, requiredMembers(s))
           IN \A d \in Dim : req[d] <= Capacity[d] - allocated[d]

(* signLocked and the rest of transitionLocked.                            *)
Moves(g, to) ==
    /\ state' = [state EXCEPT ![g] = to]
    /\ seq' = seq + 1
    /\ events' = [events EXCEPT ![g] = Append(@, [seq |-> seq + 1, from |-> state[g], to |-> to])]

Submit(g) ==
    /\ state[g] = ""
    /\ Moves(g, "pending")
    /\ UNCHANGED <<spec, reserved, admitted, allocated, barriers, barrierVars>>

(* Admit, where decideLocked admits; otherwise nothing changes.            *)
Admit(g) ==
    LET members == requiredMembers(spec[g])
        req == totalRequest(spec[g], members)
    IN /\ state[g] = "pending"
       /\ Fits(spec[g])
       /\ allocated' = [d \in Dim |-> allocated[d] + req[d]]
       /\ reserved' = reserved \cup {g}
       /\ admitted' = [admitted EXCEPT ![g] = members]
       /\ Moves(g, "gang_ready")
       /\ UNCHANGED <<spec, barriers, barrierVars>>

Start(g) ==
    /\ <<state[g], "running">> \in Transition
    /\ barriers' = barriers \cup {g}
    /\ Create(g, spec[g].replicas)
    /\ Moves(g, "running")
    /\ UNCHANGED <<spec, reserved, admitted, allocated>>

(* Mutation: the entry is deleted without failing the barrier.             *)
MutForgetBarrier(g) ==
    /\ barriers' = barriers \ {g}
    /\ UNCHANGED barrierVars

(* releaseLocked: the barrier fails and leaves the map, the reservation is *)
(* returned if there is one.                                               *)
DropBarrier(g) ==
    /\ IF g \in barriers THEN FailBarrier(g) ELSE UNCHANGED <<released, failed>>
    /\ barriers' = barriers \ {g}
    /\ UNCHANGED <<expected, arrived, at>>

(* Mutation: the request of every replica is returned, not of the members. *)
MutRefundReplicas(g) ==
    LET req == totalRequest(spec[g], spec[g].replicas)
    IN /\ allocated' = IF g \in reserved THEN [d \in Dim |-> allocated[d] - req[d]]
                       ELSE allocated
       /\ reserved' = reserved \ {g}

Refund(g) ==
    LET req == totalRequest(spec[g], admitted[g])
    IN /\ allocated' = IF g \in reserved THEN [d \in Dim |-> allocated[d] - req[d]]
                       ELSE allocated
       /\ reserved' = reserved \ {g}

(* Succeed (to = "succeeded") and Fail (to = "failed").                    *)
End(g, to) ==
    /\ <<state[g], to>> \in Transition
    /\ DropBarrier(g)
    /\ Refund(g)
    /\ Moves(g, to)
    /\ UNCHANGED <<spec, admitted>>

Succeed(g) == End(g, "succeeded")
Fail(g)    == End(g, "failed")

(* A worker looks its barrier up; it finds one only while the gang runs.   *)
GetBarrier(g, w) ==
    /\ g \in barriers
    /\ Goes(g, w, "away", "holds")
    /\ UNCHANGED <<schedVars, expected, arrived, released, failed>>

Meet(g) == \/ \E w \in Crew[g] : BarrierStep(g, w)
           \/ WatcherFires(g)

Next == \E g \in Gang : \/ Submit(g) \/ Admit(g) \/ Start(g) \/ Succeed(g)
                        \/ Fail(g)
                        \/ \E w \in Crew[g] : GetBarrier(g, w)
                        \/ Meet(g) /\ UNCHANGED schedVars

Spec == Init /\ [][Next]_vars

-----------------------------------------------------------------------------
(* Properties                                                              *)

(* The reservations, unit by unit.                                         *)
Held(d) == UNION {{g} \X (1..totalRequest(spec[g], admitted[g])[d]) : g \in reserved}

(* The ledger is exact and never overdrawn: s.allocated is the sum of what *)
(* the admitted gangs hold, whatever is admitted, fails or succeeds in     *)
(* whatever order, and no dimension exceeds the cluster's capacity.        *)
NoOvercommit == \A d \in Dim : /\ allocated[d] = Cardinality(Held(d))
                               /\ allocated[d] <= Capacity[d]

(* A gang holds a reservation exactly while it is ready or running, has a  *)
(* barrier in the map exactly while it is running, and no barrier of a     *)
(* gang that ended is left closed ("all waiting workers are released").    *)
ResourcesFollowState ==
    /\ reserved = {g \in Gang : state[g] \in {"gang_ready", "running"}}
    /\ barriers = {g \in Gang : state[g] = "running"}
    /\ \A g \in Gang : Terminal(g) /\ expected[g] > 0 => g \in released

(* The audit trail: the sequence numbers of all receipts are 1..seq        *)
(* without a gap and without a repetition, whichever gangs they belong to; *)
(* the receipts of one gang are in order, each starts where the one before *)
(* ended, and the last one ends in the gang's state.                       *)
Issued == {r \in Gang \X (1..4) : r[2] <= Len(events[r[1]])}
SeqOf(r) == events[r[1]][r[2]].seq
ReceiptsAreComplete ==
    /\ \A r \in Issued : SeqOf(r) \in 1..seq
    /\ \A r, q \in Issued : SeqOf(r) = SeqOf(q) => r = q
    /\ Cardinality(Issued) = seq
    /\ \A g \in Gang : \A i \in 2..Len(events[g]) :
           /\ events[g][i].from = events[g][i - 1].to
           /\ events[g][i].seq > events[g][i - 1].seq
    /\ \A g \in Gang : events[g] # <<>> => events[g][Len(events[g])].to = state[g]

(* Whoever is told success was joined by the whole gang, and no peer that  *)
(* called Wait is told failure, however arrivals, Fail, timeouts and the   *)
(* end of the gang interleave.                                             *)
OneOutcome ==
    \A g \in Gang : \A w \in Worker : at[g][w] = "ok" =>
        /\ Cardinality(Came(g)) >= expected[g]
        /\ \A v \in Worker : at[g][v] # "error"

(* Each barrier is a Rendezvous: Wait and Fail as their comments have it.  *)
Outcome(g) == IF g \notin released THEN "open"
              ELSE IF g \in failed THEN "failed" ELSE "ok"

Told(g) == {IF at[g][w] = "ok" THEN "ok" ELSE "failed"
               : w \in {v \in Worker : at[g][v] \in {"ok", "error"}}}

RV == INSTANCE Rendezvous WITH size <- expected,
                               came <- [g \in Gang |-> Came(g)],
                               outcome <- [g \in Gang |-> Outcome(g)],
                               told <- [g \in Gang |-> Told(g)]

ImplementsRendezvous == RV!AbsSpec

(* Nobody is stranded: where a worker still waits at the barrier of a gang *)
(* that ended, or whose count is complete, the channel is closed or a peer *)
(* is about to close it; no such wait is left to a timer.                  *)
NobodyStranded ==
    \A g \in Gang : \A w \in Crew[g] :
        (/\ at[g][w] \in {"waits", "spins"}
         /\ Terminal(g) \/ (expected[g] > 0 /\ arrived[g] >= expected[g]))
            => g \in released \/ \E v \in Crew[g] : at[g][v] = "last"

(* Goroutines that are ready to run do run.                                *)
FairSpec == Spec /\ \A g \in Gang : \A w \in Crew[g] :
                        WF_vars(Leave(g, w) /\ UNCHANGED schedVars)

Waiting == {"last", "waits", "woken", "spins", "late"}

(* The end of a gang leaves no worker behind at its barrier, also one that *)
(* arrives after the end with a pointer it got before.                     *)
TerminatedFreesWorkers ==
    \A g \in Gang : \A w \in Crew[g] :
        (Terminal(g) /\ at[g][w] \in Waiting) ~> at[g][w] \notin Waiting

(* Once as many workers arrived as the barrier expects, all of them leave. *)
FullGangLeaves ==
    \A g \in Gang : \A w \in Crew[g] :
        (expected[g] > 0 /\ arrived[g] >= expected[g] /\ at[g][w] \in Waiting)
            ~> at[g][w] \notin Waiting
=============================================================================
