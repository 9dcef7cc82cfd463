------------------------------ MODULE GangBarrier ------------------------------
(***************************************************************************)
(* The barriers of pkg/training/gang_barrier.go, one for each gang, and    *)
(* the workers that meet at them.  A worker holds the pointer it got from  *)
(* GetBarrier, so a barrier outlives its entry in the scheduler's map.     *)
(*                                                                         *)
(* The counter is atomic and outside the lock: the worker whose increment  *)
(* completes the gang releases the others in a later step, and any Fail    *)
(* may come between.  Wait receives from the closed channel first and      *)
(* reads failErr under the lock afterwards.                                *)
(***************************************************************************)
EXTENDS Naturals, FiniteSets

CONSTANTS Gang,
          Worker,
          Crew     \* Crew[g]: the workers that look up the barrier of gang g

ASSUME CrewsAreWorkers == Crew \in [Gang -> SUBSET Worker]
ASSUME WorkersAreFinite == IsFiniteSet(Worker)

VARIABLES expected,  \* expected[g]: b.expected, 0 before NewGangBarrier
          arrived,   \* arrived[g]: b.arrived
          released,  \* the gangs whose b.released holds: releaseCh is closed
          failed,    \* the gangs whose b.failErr is set
          at         \* at[g][w]: where worker w of gang g stands

barrierVars == <<expected, arrived, released, failed, at>>

(* "last": the increment completed the gang, Arrive is about to lock;      *)
(* "woken": the receive of Wait returned; "spins", "late": inside          *)
(* SpinUntilAllReady, "late" between IsReleased and Fail; "gone": called   *)
(* Fail and left; the last three are the answers a worker may get.         *)
Place == {"away", "holds", "last", "waits", "woken", "spins", "late", "gone",
          "ok", "error", "timeout"}

BarrierTypeOK == /\ expected \in [Gang -> Nat]
                 /\ arrived \in [Gang -> Nat]
                 /\ released \subseteq Gang
                 /\ failed \subseteq Gang
                 /\ at \in [Gang -> [Worker -> Place]]

BarrierInit == /\ expected = [g \in Gang |-> 0]
               /\ arrived = [g \in Gang |-> 0]
               /\ released = {}
               /\ failed = {}
               /\ at = [g \in Gang |-> [w \in Worker |-> "away"]]

Goes(g, w, from, to) == /\ at[g][w] = from
                        /\ at' = [at EXCEPT ![g][w] = to]

Came(g) == {w \in Worker : at[g][w] \notin {"away", "holds", "gone"}}

-----------------------------------------------------------------------------
(* NewGangBarrier                                                          *)
Create(g, n) == /\ expected' = [expected EXCEPT ![g] = n]
                /\ UNCHANGED <<arrived, released, failed, at>>

(* Mutation: Fail does not look at b.released.                             *)
MutFailAlways(g) == /\ released' = released \cup {g}
                    /\ failed' = failed \cup {g}

(* Fail: the first release decides.                                        *)
FailBarrier(g) == /\ released' = released \cup {g}
                  /\ failed' = IF g \in released THEN failed ELSE failed \cup {g}

(* Mutation: the comparison with expected is off by one.                   *)
MutOneShort(g, w) ==
    /\ Goes(g, w, "holds", IF arrived[g] + 1 < expected[g] - 1 THEN "waits" ELSE "last")
    /\ arrived' = [arrived EXCEPT ![g] = @ + 1]
    /\ UNCHANGED <<expected, released, failed>>

(* Mutation: <= for <, so the last arrival waits like the others.          *)
MutLastWaits(g, w) ==
    /\ Goes(g, w, "holds", IF arrived[g] + 1 <= expected[g] THEN "waits" ELSE "last")
    /\ arrived' = [arrived EXCEPT ![g] = @ + 1]
    /\ UNCHANGED <<expected, released, failed>>

(* Arrive: the increment and the comparison with its result.               *)
Arrive(g, w) ==
    /\ Goes(g, w, "holds", IF arrived[g] + 1 < expected[g] THEN "waits" ELSE "last")
    /\ arrived' = [arrived EXCEPT ![g] = @ + 1]
    /\ UNCHANGED <<expected, released, failed>>

(* Arrive, under the lock: the last arrival closes the channel unless the  *)
(* barrier is released already.                                            *)
ReleaseAll(g, w) == /\ Goes(g, w, "last", "waits")
                    /\ released' = released \cup {g}
                    /\ UNCHANGED <<expected, arrived, failed>>

(* Wait: the receive, then failErr.                                        *)
Receive(g, w) == /\ g \in released
                 /\ Goes(g, w, "waits", "woken")
                 /\ UNCHANGED <<expected, arrived, released, failed>>

ReadOutcome(g, w) == /\ Goes(g, w, "woken", IF g \in failed THEN "error" ELSE "ok")
                     /\ UNCHANGED <<expected, arrived, released, failed>>

(* SpinUntilAllReady in place of Wait: poll IsReleased and the clock.      *)
Spin(g, w) == /\ Goes(g, w, "waits", "spins")
              /\ UNCHANGED <<expected, arrived, released, failed>>

SpinSees(g, w) == /\ g \in released
                  /\ Goes(g, w, "spins", "woken")
                  /\ UNCHANGED <<expected, arrived, released, failed>>

SpinMisses(g, w) == /\ g \notin released
                    /\ Goes(g, w, "spins", "late")
                    /\ UNCHANGED <<expected, arrived, released, failed>>

(* The deadline passed: Fail, and ErrBarrierTimeout whatever Fail found.   *)
SpinExpires(g, w) == /\ Goes(g, w, "late", "timeout")
                     /\ FailBarrier(g)
                     /\ UNCHANGED <<expected, arrived>>

(* A worker gives up before it arrives and calls Fail for its peers.  A    *)
(* failure reported once it arrived has the effect of WatcherFires.        *)
WorkerFails(g, w) == /\ Goes(g, w, "holds", "gone")
                     /\ FailBarrier(g)
                     /\ UNCHANGED <<expected, arrived>>

(* The watcher of WithTimeout: the timer may fire at any time, also after  *)
(* the barrier was released and before doneCh is closed.                   *)
WatcherFires(g) == /\ expected[g] > 0
                   /\ FailBarrier(g)
                   /\ UNCHANGED <<expected, arrived, at>>

Leave(g, w) == \/ ReleaseAll(g, w) \/ Receive(g, w) \/ ReadOutcome(g, w)
               \/ SpinSees(g, w) \/ SpinExpires(g, w)

BarrierStep(g, w) == \/ Arrive(g, w) \/ Leave(g, w)
                     \/ Spin(g, w) \/ SpinMisses(g, w) \/ WorkerFails(g, w)
=============================================================================
