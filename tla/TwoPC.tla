-------------------------------- MODULE TwoPC --------------------------------
(***************************************************************************)
(* The two-phase commit coordinator of pkg/store/twopc.go, for one         *)
(* transaction.  Transactions share nothing but the participants, which    *)
(* keep a separate entry for each transaction id.                          *)
(*                                                                         *)
(* Four kinds of goroutine touch the transaction:                          *)
(*   - Execute, the task Exec here;                                        *)
(*   - one goroutine for each participant, which calls Prepare and puts    *)
(*     the answer in the results channel (variable reply);                 *)
(*   - those that recoverIncomplete starts at a tick of the recovery       *)
(*     loop, the tasks in Recoverer; a task that ends may be started       *)
(*     again, so the constant bounds how many run at a time, not how many  *)
(*     times the loop ticks;                                               *)
(*   - the goroutines inside commit and abort, one for each participant    *)
(*     (variable left).                                                    *)
(* txn.Phase and txn.Votes are read and written by all of them without a   *)
(* lock, so each read and each write is a step of its own.  A race on the  *)
(* map Votes may also make the Go runtime stop the process; that outcome   *)
(* leaves no state of the coordinator behind and is not modelled.          *)
(***************************************************************************)
EXTENDS Naturals, FiniteSets

CONSTANTS Participant,  \* the participants named by the operations
          Recoverer,    \* recovery tasks; {} where StartRecovery is not called
          Exec,         \* the goroutine that called Execute
          MaxRetries    \* config.MaxRetries: attempts to deliver COMMIT

ASSUME MaxRetriesPositive == MaxRetries \in Nat \ {0}
ASSUME ExecIsNoRecoverer == Exec \notin Recoverer

Task == {Exec} \cup Recoverer

VARIABLES phase,      \* txn.Phase
          votes,      \* txn.Votes, "absent" where the map has no entry
          reply,      \* reply[p]: what the Prepare goroutine of p has to report
          fate,       \* fate[p]: what p did with the operations it was sent
          committed,  \* the participants with MemoryParticipant.committed[txn]
          stage,      \* stage[t]: where task t stands
          left,       \* left[t][p]: calls that t may still make to p
          failed,     \* the tasks that counted an error in commitErrors
          result,     \* what Execute returned
          presumed    \* history: recovery has started a presumed abort

vars == <<phase, votes, reply, fate, committed, stage, left, failed, result,
          presumed>>

partVars == <<fate, committed>>

Phase == {"Init", "Preparing", "Prepared", "Committing", "Committed",
          "Aborting", "Aborted"}
Vote  == {"None", "Yes", "No", "ReadOnly"}
Reply == {"unsent", "sent"} \cup Vote
Fate  == {"none", "held", "applied", "dropped"}
Stage == {"idle", "collect", "toCommit", "committing", "toAbort", "aborting",
          "done"}

TypeOK == /\ phase \in Phase
          /\ votes \in [Participant -> Vote \cup {"absent"}]
          /\ reply \in [Participant -> Reply]
          /\ fate \in [Participant -> Fate]
          /\ committed \subseteq Participant
          /\ stage \in [Task -> Stage]
          /\ left \in [Task -> [Participant -> 0..MaxRetries]]
          /\ failed \subseteq Task
          /\ result \in {"none", "committed", "commit failed", "aborted"}
          /\ presumed \in BOOLEAN

Init == /\ phase = "Init"
        /\ votes = [p \in Participant |-> "absent"]
        /\ reply = [p \in Participant |-> "unsent"]
        /\ fate = [p \in Participant |-> "none"]
        /\ committed = {}
        /\ stage = [t \in Task |-> "idle"]
        /\ left = [t \in Task |-> [p \in Participant |-> 0]]
        /\ failed = {}
        /\ result = "none"
        /\ presumed = FALSE

-----------------------------------------------------------------------------
(* Phase 1: prepare                                                        *)

(* Execute stores the transaction and prepare sends every PREPARE.         *)
BeginPrepare ==
    /\ stage[Exec] = "idle"
    /\ stage' = [stage EXCEPT ![Exec] = "collect"]
    /\ phase' = "Preparing"
    /\ reply' = [p \in Participant |-> "sent"]
    /\ UNCHANGED <<votes, partVars, left, failed, result, presumed>>

(* One Prepare call ends.  A participant that is asked to hold operations  *)
(* votes Yes; it may refuse (a name that is not registered counts as No),  *)
(* have nothing to do, or the call may return an error, before or after    *)
(* the participant took the operations.  Nothing keeps the call from       *)
(* running after the coordinator stopped waiting for it.                   *)
PrepareEnds(p, v, f) ==
    /\ reply[p] = "sent"
    /\ reply' = [reply EXCEPT ![p] = v]
    /\ fate' = [fate EXCEPT ![p] = f]
    /\ UNCHANGED <<phase, votes, committed, stage, left, failed, result,
                   presumed>>

PrepareYes(p)      == PrepareEnds(p, "Yes", "held")
PrepareNo(p)       == PrepareEnds(p, "No", "none")
PrepareReadOnly(p) == PrepareEnds(p, "ReadOnly", "none")

(* The vote beside an error is kept in txn.Votes and decides whether abort *)
(* calls p: not for None and ReadOnly, written "None" here, but for Yes    *)
(* and No, written "No", since no COMMIT follows an error in either case.  *)
PrepareError(p) == \E v \in {"None", "No"}, f \in {"none", "held"} :
                       PrepareEnds(p, v, f)

(* Execute takes one answer out of the results channel.                    *)
CollectVote(p) ==
    /\ stage[Exec] = "collect"
    /\ votes[p] = "absent"
    /\ reply[p] \in Vote
    /\ votes' = [votes EXCEPT ![p] = reply[p]]
    /\ UNCHANGED <<phase, reply, partVars, stage, left, failed, result,
                   presumed>>

AllCollected == \A p \in Participant : votes[p] # "absent"

(* Mutation: prepare looks at the vote and forgets the error beside it.    *)
MutErrorIgnored == \A p \in Participant : votes[p] # "No"

AllYes == \A p \in Participant : votes[p] \in {"Yes", "ReadOnly"}

(* Mutation: the deadline of prepare ends the collection without an error. *)
MutTimeoutIsSuccess ==
    /\ stage[Exec] = "collect"
    /\ \A p \in Participant : votes[p] \in {"absent", "Yes", "ReadOnly"}
    /\ phase' = "Prepared"
    /\ stage' = [stage EXCEPT ![Exec] = "toCommit"]
    /\ UNCHANGED <<votes, reply, partVars, left, failed, result, presumed>>

(* Every vote is in and none of them is No or an error: prepare succeeds.  *)
PrepareSucceeds ==
    /\ stage[Exec] = "collect"
    /\ AllCollected
    /\ AllYes
    /\ phase' = "Prepared"
    /\ stage' = [stage EXCEPT ![Exec] = "toCommit"]
    /\ UNCHANGED <<votes, reply, partVars, left, failed, result, presumed>>

(* prepare returns an error: a vote was No or failed, or the deadline of   *)
(* prepareCtx passed before every answer came.                             *)
PrepareFails ==
    /\ stage[Exec] = "collect"
    /\ AllCollected => ~ AllYes
    /\ stage' = [stage EXCEPT ![Exec] = "toAbort"]
    /\ UNCHANGED <<phase, votes, reply, partVars, left, failed, result,
                   presumed>>

-----------------------------------------------------------------------------
(* Phase 2: commit, run by Execute and by recovery                         *)

GetsCommit(p) == votes[p] \notin {"absent", "ReadOnly"}
GetsAbort(p)  == votes[p] \notin {"absent", "None", "ReadOnly"}

BeginCommit(t) ==
    /\ stage[t] = "toCommit"
    /\ stage' = [stage EXCEPT ![t] = "committing"]
    /\ phase' = "Committing"
    /\ left' = [left EXCEPT ![t] =
                  [p \in Participant |-> IF GetsCommit(p) THEN MaxRetries ELSE 0]]
    /\ failed' = failed \ {t}
    /\ UNCHANGED <<votes, reply, partVars, result, presumed>>

(* Participant.Commit: what was held is applied; the transaction is marked *)
(* committed even where nothing was held.                                  *)
CommitAt(p) ==
    /\ fate' = [fate EXCEPT ![p] = IF @ = "held" THEN "applied" ELSE @]
    /\ committed' = committed \cup {p}

CommitReturns(t, p) ==
    /\ stage[t] = "committing"
    /\ left[t][p] > 0
    /\ CommitAt(p)
    /\ left' = [left EXCEPT ![t][p] = 0]
    /\ UNCHANGED <<phase, votes, reply, stage, failed, result, presumed>>

(* Mutation: one attempt more than MaxRetries.                             *)
MutExtraAttempt(t, p) ==
    /\ stage[t] = "committing"
    /\ left' = [left EXCEPT ![t][p] = @ - 1]
    /\ UNCHANGED <<phase, votes, reply, partVars, stage, failed, result, presumed>>

(* Mutation: the last error is not added to commitErrors.                  *)
MutErrorNotCounted(t, p) ==
    /\ stage[t] = "committing"
    /\ left[t][p] > 0
    /\ CommitAt(p) \/ UNCHANGED partVars
    /\ left' = [left EXCEPT ![t][p] = @ - 1]
    /\ UNCHANGED <<phase, votes, reply, stage, failed, result, presumed>>

(* An attempt that returns an error, with or without effect at p.  After   *)
(* the last one the error is counted.                                      *)
CommitAttemptFails(t, p) ==
    /\ stage[t] = "committing"
    /\ left[t][p] > 0
    /\ CommitAt(p) \/ UNCHANGED partVars
    /\ left' = [left EXCEPT ![t][p] = @ - 1]
    /\ failed' = IF left[t][p] = 1 THEN failed \cup {t} ELSE failed
    /\ UNCHANGED <<phase, votes, reply, stage, result, presumed>>

(* wg.Wait returned.  A task that failed leaves the phase as it is.        *)
Rest(t, outcome) ==
    /\ stage' = [stage EXCEPT ![t] = IF t = Exec THEN "done" ELSE "idle"]
    /\ result' = IF t = Exec THEN outcome ELSE result

(* Mutation: Execute aborts a transaction whose commit failed in part.     *)
MutAbortFailedCommit(t) ==
    /\ stage[t] = "committing"
    /\ \A p \in Participant : left[t][p] = 0
    /\ phase' = IF t \in failed THEN phase ELSE "Committed"
    /\ IF t \in failed /\ t = Exec
       THEN stage' = [stage EXCEPT ![t] = "toAbort"] /\ UNCHANGED result
       ELSE Rest(t, "committed")
    /\ UNCHANGED <<votes, reply, partVars, left, failed, presumed>>

EndCommit(t) ==
    /\ stage[t] = "committing"
    /\ \A p \in Participant : left[t][p] = 0
    /\ phase' = IF t \in failed THEN phase ELSE "Committed"
    /\ Rest(t, IF t \in failed THEN "commit failed" ELSE "committed")
    /\ UNCHANGED <<votes, reply, partVars, left, failed, presumed>>

-----------------------------------------------------------------------------
(* abort, run by Execute and by recovery                                   *)

BeginAbort(t) ==
    /\ stage[t] = "toAbort"
    /\ stage' = [stage EXCEPT ![t] = "aborting"]
    /\ phase' = "Aborting"
    /\ left' = [left EXCEPT ![t] =
                  [p \in Participant |-> IF GetsAbort(p) THEN 1 ELSE 0]]
    /\ UNCHANGED <<votes, reply, partVars, failed, result, presumed>>

(* Participant.Abort is called once; an error is logged and forgotten.     *)
AbortAttempt(t, p) ==
    /\ stage[t] = "aborting"
    /\ left[t][p] > 0
    /\ \/ fate' = [fate EXCEPT ![p] = IF @ = "held" THEN "dropped" ELSE @]
       \/ UNCHANGED fate
    /\ left' = [left EXCEPT ![t][p] = 0]
    /\ UNCHANGED <<phase, votes, reply, committed, stage, failed, result,
                   presumed>>

EndAbort(t) ==
    /\ stage[t] = "aborting"
    /\ \A p \in Participant : left[t][p] = 0
    /\ phase' = "Aborted"
    /\ Rest(t, "aborted")
    /\ UNCHANGED <<votes, reply, partVars, left, failed, presumed>>

-----------------------------------------------------------------------------
(* A tick of the recovery loop reads the phase and starts a goroutine.     *)

(* Mutation: the case TxnPhaseCommitting is missing.                       *)
MutPreparedOnly(r) ==
    /\ stage[r] = "idle"
    /\ phase = "Prepared"
    /\ stage' = [stage EXCEPT ![r] = "toCommit"]
    /\ UNCHANGED <<phase, votes, reply, partVars, left, failed, result,
                   presumed>>

RecoverCommit(r) ==
    /\ stage[r] = "idle"
    /\ phase \in {"Prepared", "Committing"}
    /\ stage' = [stage EXCEPT ![r] = "toCommit"]
    /\ UNCHANGED <<phase, votes, reply, partVars, left, failed, result,
                   presumed>>

RecoverAbort(r) ==
    /\ stage[r] = "idle"
    /\ phase = "Preparing"
    /\ stage' = [stage EXCEPT ![r] = "toAbort"]
    /\ presumed' = TRUE
    /\ UNCHANGED <<phase, votes, reply, partVars, left, failed, result>>

-----------------------------------------------------------------------------
Prepare(p) == \/ PrepareYes(p) \/ PrepareNo(p) \/ PrepareReadOnly(p)
              \/ PrepareError(p)

TaskStep(t) == \/ BeginCommit(t) \/ EndCommit(t)
               \/ BeginAbort(t) \/ EndAbort(t)
               \/ \E p \in Participant : \/ CommitReturns(t, p)
                                         \/ CommitAttemptFails(t, p)
                                         \/ AbortAttempt(t, p)

Next == \/ BeginPrepare
        \/ \E p \in Participant : Prepare(p) \/ CollectVote(p)
        \/ PrepareSucceeds
        \/ PrepareFails
        \/ \E t \in Task : TaskStep(t)
        \/ \E r \in Recoverer : RecoverCommit(r) \/ RecoverAbort(r)

Spec == Init /\ [][Next]_vars

-----------------------------------------------------------------------------
(* Properties                                                              *)

(* Execute decided to commit: prepare returned without an error.           *)
CommitDecided == \/ stage[Exec] \in {"toCommit", "committing"}
                 \/ result \in {"committed", "commit failed"}

AbortDecided == stage[Exec] \in {"toAbort", "aborting"} \/ result = "aborted"

(* COMMIT reaches no participant, from Execute or from a recovery task,    *)
(* unless every participant answered, and answered Yes or ReadOnly         *)
(* (the header's "If ALL participants voted YES").                         *)
CommitNeedsEveryYes ==
    committed # {}
        => \A p \in Participant : votes[p] \in {"Yes", "ReadOnly"}

(* All or nothing, in every run in which recovery has started no presumed  *)
(* abort (recoverIncomplete, case TxnPhasePreparing): whatever calls fail, *)
(* time out or are repeated, and however Execute and the recovering        *)
(* commits interleave, no two participants end on different sides.         *)
Atomic == \A p, q \in Participant :
              ~ (fate[p] = "applied" /\ fate[q] = "dropped")
AtomicUnlessPresumed == ~ presumed => Atomic

(* Where Execute returned without an error, every participant that voted   *)
(* Yes has been committed, even where recovery interfered.                 *)
SuccessIsTotal ==
    result = "committed" => \A p \in Participant : votes[p] = "Yes" => p \in committed

(* The header's promise as it stands, "either ALL commit or ALL abort",    *)
(* for a coordinator whose recovery loop runs.                             *)
AllOrNothing == Atomic

(* Once a transaction is aborted and no goroutine works on it any more, no *)
(* participant still holds its operations: the part of "ALL abort" that    *)
(* a PREPARE answered too late, or with an error, depends on.              *)
Quiescent == /\ \A t \in Task : stage[t] \in {"idle", "done"}
             /\ \A p \in Participant : reply[p] # "sent"
AbortReleasesAll ==
    (Quiescent /\ phase = "Aborted") => \A p \in Participant : fate[p] # "held"

(* The steps that leave a share behind: the abort begins before every      *)
(* answer was collected, a PREPARE fails without a vote after the          *)
(* participant took the operations, or the one call of Abort has no effect.*)
LeavesShare == \/ PrepareFails /\ ~ AllCollected
               \/ \E p \in Participant :
                      /\ fate'[p] = "held"
                      /\ \/ PrepareEnds(p, "None", "held")
                         \/ \E t \in Task : AbortAttempt(t, p)
SpecNoneLeft == Init /\ [][Next /\ ~ presumed' /\ ~ LeavesShare]_vars

(* A final phase, which recoverIncomplete takes for settled, is true:      *)
(* "Committed" means that every participant that voted Yes was committed,  *)
(* by whichever tasks, and "Aborted" that none was, unless an abort was    *)
(* presumed.                                                               *)
PhaseIsTrue ==
    /\ phase = "Committed" => \A p \in Participant : votes[p] = "Yes" => p \in committed
    /\ phase \in {"Aborting", "Aborted"} /\ ~ presumed => committed = {}

(* The other phases have somebody who will change them: the task that set  *)
(* the phase, or, where a COMMIT could not be delivered, the next tick of  *)
(* the recovery loop.  No race on txn.Phase leaves a transaction that all  *)
(* tasks have turned away from and recovery passes over.                   *)
NoOrphanPhase ==
    /\ phase = "Preparing" => stage[Exec] \in {"collect", "toAbort"}
    /\ phase = "Prepared"  => stage[Exec] = "toCommit"
    /\ phase = "Committing" =>
          \E t \in Task : stage[t] = "committing" \/ t \in failed
    /\ phase = "Aborting"  => \E t \in Task : stage[t] = "aborting"

-----------------------------------------------------------------------------
(* The coordinator without the presumed abort implements AtomicCommit.     *)

Decision == IF CommitDecided THEN "commit"
            ELSE IF AbortDecided THEN "abort" ELSE "undecided"

AC == INSTANCE AtomicCommit WITH decision <- Decision

NextUnpresumed == Next /\ UNCHANGED presumed
SpecUnpresumed == Init /\ [][NextUnpresumed]_vars

(* Every step of a run without presumed aborts is a step of AtomicCommit   *)
(* or leaves the decision and every participant's share alone.             *)
ImplementsAtomicCommit == AC!AbsSpec

(* The same said of every run: Execute, the participants and the           *)
(* recovering commits take steps of AtomicCommit only, until recoverAbort  *)
(* starts its first presumed abort, and nothing is claimed after that.     *)
ImplementsUnlessPresumed ==
    AC!AbsInit /\ [][presumed' \/ AC!AbsNext]_(AC!absVars)

(* Calls and goroutines make progress: prepareCtx expires, participants'   *)
(* calls return, and the recovery loop keeps ticking.                      *)
Fairness ==
    /\ WF_vars((\E p \in Participant : CollectVote(p)) \/ PrepareSucceeds \/ PrepareFails)
    /\ \A t \in Task : WF_vars(TaskStep(t))
    /\ \A r \in Recoverer : WF_vars(RecoverCommit(r))

FairSpec == Spec /\ Fairness

(* A transaction that was started settles: if COMMIT calls fail only       *)
(* finitely often, the retries of commit and the ticks of the recovery     *)
(* loop end every partial commit, and the phase stays final for good.      *)
CommitFailure == \E t \in Task, p \in Participant : CommitAttemptFails(t, p)
Settles == <>[][~ CommitFailure]_vars
               => <>[](phase \in {"Init", "Committed", "Aborted"})
=============================================================================
