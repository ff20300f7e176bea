----------------------------- MODULE ResearchRun -----------------------------
(***************************************************************************)
(* Execution of ordinary ResearchRuns (research_run/service.py).           *)
(*                                                                         *)
(* The state in PostgreSQL is status, fence, attempts, checkpoints,        *)
(* committed, retained, manifests and result; one action stands for one    *)
(* transaction, because every transaction that decides anything locks the  *)
(* Run row (FOR UPDATE, or SKIP LOCKED in the claim) and re-reads the      *)
(* facts it decides on.  The state of the Worker processes is pc and       *)
(* claim: what process_next keeps in local variables between transactions  *)
(* and what is stale when the next transaction starts.                     *)
(*                                                                         *)
(* Time: a lease is "live", then "due" (the heartbeat interval has         *)
(* passed), then "expired".  A heartbeat makes a due lease live again.     *)
(***************************************************************************)
EXTENDS Naturals, Sequences

CONSTANTS
    Runs,         \* ResearchRun ids
    Workers,      \* slots of the research Worker pool
    NumChunks,    \* chunks of the frozen execution plan
    MaxAttempts   \* MAX_RESEARCH_RUN_ATTEMPTS

ASSUME NumChunksAssumption == NumChunks \in Nat \ {0}
ASSUME MaxAttemptsAssumption == MaxAttempts \in Nat \ {0}

VARIABLES
    status,       \* runs.status of each run
    fence,        \* runs.execution_fence
    attempts,     \* rows of research_runs.attempts, by ordinal
    checkpoints,  \* rows of execution_checkpoints, by ordinal: the creator attempt
    committed,    \* progress.committed_chunk_count
    retained,     \* the live retention queued-research-run:<id>
    manifests,    \* checkpoint manifests recorded in Publication
    result,       \* the checkpoint chain the published Result was assembled from
    pc,           \* where each Worker is in process_next
    claim         \* its local variables

dbvars == <<status, fence, attempts, checkpoints, committed, retained, manifests, result>>
vars == <<status, fence, attempts, checkpoints, committed, retained, manifests, result, pc, claim>>

-----------------------------------------------------------------------------
(* Values *)

Terminal == {"succeeded", "failed", "cancelled"}
Pending == {"queued", "running", "cancelling"}
RunStatus == {"absent", "deleted"} \cup Pending \cup Terminal

AttemptStatus == {"running", "cancelling", "failed", "succeeded", "cancelled"}
Active == {"running", "cancelling"}

\* ATTEMPT_FAILURE_POLICIES: two reasons are retried, every other one has
\* max_attempts = 1 ("Permanent" stands for those that differ in wording only).
Retryable == {"Infrastructure", "WorkerLost"}
Reasons == Retryable \cup {"CheckpointIntegrity", "Permanent", "UserCancelled"}
NoReason == "none"

RetryOnceMore(reason, ordinal) ==
    ordinal <= (IF reason \in Retryable THEN MaxAttempts ELSE 1)

attempt_retry_eligible(reason, ordinal) ==
    ordinal < (IF reason \in Retryable THEN MaxAttempts ELSE 1)

Leases == {"live", "due", "expired"}

Attempt == [status : AttemptStatus, fence : Nat, lease : Leases,
            reason : Reasons \cup {NoReason}, pinned : BOOLEAN]

PC == {"idle", "claiming", "exhausted", "claimed", "verifying", "computing",
       "committing", "finalizing", "assembling", "publishing",
       "failing", "settling", "confirming"}
Executing == {"claimed", "verifying", "computing", "committing",
              "finalizing", "assembling", "publishing"}

\* ResearchRunExecutionClaim and the locals of process_next: chunk is the ordinal the
\* child works on, prior the checkpoint rows last read, reason the caught exception.
NoRun == "none"
ClaimOf(r, n, f, beating) ==
    [run |-> r, attempt |-> n, fence |-> f, beating |-> beating,
     chunk |-> 0, prior |-> <<>>, reason |-> NoReason]
NoClaim == ClaimOf(NoRun, 0, 0, FALSE)

NoResult == <<>>

-----------------------------------------------------------------------------
(* Facts read from the database *)

Latest(r) == attempts[r][Len(attempts[r])]

\* Mutant: any live attempt will do.
CurrentByStatus(c) ==
    /\ status[c.run] = "running"
    /\ Len(attempts[c.run]) > 0
    /\ Latest(c.run).status = "running" /\ Latest(c.run).lease # "expired"

\* _validate_current_execution_in_transaction: the claim still owns its run.
Current(c) ==
    /\ status[c.run] = "running"
    /\ fence[c.run] = c.fence
    /\ c.attempt \in 1..Len(attempts[c.run])
    /\ LET a == attempts[c.run][c.attempt]
       IN  a.fence = c.fence /\ a.status = "running" /\ a.lease # "expired"

\* _cancellation_is_pending
CancellationPending(c) ==
    /\ status[c.run] = "cancelling"
    /\ c.attempt \in 1..Len(attempts[c.run])
    /\ attempts[c.run][c.attempt].fence = c.fence
    /\ attempts[c.run][c.attempt].status = "cancelling"

\* Every checkpoint row in rows still has its manifest in Publication.
Readable(r, rows) == \A i \in 1..Len(rows) : <<r, i, rows[i]>> \in manifests

\* The WHERE clause of the claim query.
WorkerLossAt(r) ==
    /\ status[r] = "running" /\ Len(attempts[r]) > 0
    /\ Latest(r).status = "running" /\ Latest(r).lease = "expired"
RetryWaitingLostOnly(r) ==  \* mutant: infrastructure failures are not listed
    /\ status[r] = "running" /\ Len(attempts[r]) > 0
    /\ Latest(r).status = "failed" /\ Latest(r).reason = "WorkerLost"
RetryWaiting(r) ==
    /\ status[r] = "running" /\ Len(attempts[r]) > 0
    /\ Latest(r).status = "failed" /\ Latest(r).reason \in Retryable
Claimable(r) == status[r] = "queued" \/ RetryWaiting(r) \/ WorkerLossAt(r)

-----------------------------------------------------------------------------
(* Rows written *)

Finished(a, s, why) ==
    [a EXCEPT !.status = s, !.reason = why, !.lease = "expired", !.pinned = FALSE]

FinishAttempt(r, n, s, why) ==
    attempts' = [attempts EXCEPT ![r][n] = Finished(@, s, why)]

\* _release_execution_checkpoints: rows deleted and their manifests released.
ReleaseCheckpoints(r) ==
    /\ checkpoints' = [checkpoints EXCEPT ![r] = <<>>]
    /\ manifests' = {m \in manifests :
                        ~ (m[1] = r /\ \E i \in 1..Len(checkpoints[r]) :
                                          m[2] = i /\ m[3] = checkpoints[r][i])}

Goto(w, label) == pc' = [pc EXCEPT ![w] = label]
Return(w) == Goto(w, "idle") /\ claim' = [claim EXCEPT ![w] = NoClaim]

-----------------------------------------------------------------------------
Init ==
    /\ status = [r \in Runs |-> "absent"]
    /\ fence = [r \in Runs |-> 0]
    /\ attempts = [r \in Runs |-> <<>>]
    /\ checkpoints = [r \in Runs |-> <<>>]
    /\ committed = [r \in Runs |-> 0]
    /\ retained = [r \in Runs |-> FALSE]
    /\ manifests = {}
    /\ result = [r \in Runs |-> NoResult]
    /\ pc = [w \in Workers |-> "idle"]
    /\ claim = [w \in Workers |-> NoClaim]

-----------------------------------------------------------------------------
(* Commands of the researcher *)

\* Second transaction of admit: the run is queued and its Generation retained.
Admit(r) ==
    /\ status[r] = "absent"
    /\ status' = [status EXCEPT ![r] = "queued"]
    /\ retained' = [retained EXCEPT ![r] = TRUE]
    /\ UNCHANGED <<fence, attempts, checkpoints, committed, manifests, result, pc, claim>>

RunningAttempts(r) == {n \in 1..Len(attempts[r]) : attempts[r][n].status = "running"}

\* _cancel of a queued run, or of a running one between two attempts.
CancelWaiting(r) ==
    /\ \/ status[r] = "queued"
       \/ status[r] = "running" /\ RunningAttempts(r) = {}
    /\ status' = [status EXCEPT ![r] = "cancelled"]
    /\ fence' = [fence EXCEPT ![r] = @ + 1]
    /\ retained' = [retained EXCEPT ![r] = FALSE]
    /\ UNCHANGED <<attempts, checkpoints, committed, manifests, result, pc, claim>>

\* _cancel of a running run: its attempt (the unique index allows one) keeps its pin
\* until the child is gone.
CancelRunning(r) ==
    /\ status[r] = "running"
    /\ status' = [status EXCEPT ![r] = "cancelling"]
    /\ fence' = [fence EXCEPT ![r] = @ + 1]
    /\ \E n \in RunningAttempts(r) :
          attempts' = [attempts EXCEPT ![r][n].status = "cancelling", ![r][n].reason = "UserCancelled"]
    /\ UNCHANGED <<checkpoints, committed, retained, manifests, result, pc, claim>>

\* delete: the rows go in one transaction, the checkpoint manifests are not touched.
Delete(r) ==
    /\ status[r] \in Terminal
    /\ status' = [status EXCEPT ![r] = "deleted"]
    /\ attempts' = [attempts EXCEPT ![r] = <<>>]
    /\ checkpoints' = [checkpoints EXCEPT ![r] = <<>>]
    /\ committed' = [committed EXCEPT ![r] = 0]
    /\ result' = [result EXCEPT ![r] = NoResult]
    /\ UNCHANGED <<fence, retained, manifests, pc, claim>>

-----------------------------------------------------------------------------
(* Taking work *)

\* The query of _recover_cancelled_attempt.
Recoverable(r, n) ==
    /\ status[r] = "cancelling"
    /\ n \in 1..Len(attempts[r])
    /\ attempts[r][n].status = "cancelling"
    /\ attempts[r][n].lease = "expired"

\* _recover_cancelled_attempt, the first transaction of process_next.
RecoverCancelledAttempt(w) ==
    /\ pc[w] = "idle"
    /\ \E r \in Runs : \E n \in 1..Len(attempts[r]) :
          /\ Recoverable(r, n)
          /\ status' = [status EXCEPT ![r] = "cancelled"]
          /\ FinishAttempt(r, n, "cancelled", "UserCancelled")
          /\ ReleaseCheckpoints(r)
    /\ UNCHANGED <<fence, committed, retained, result, pc, claim>>

NothingToRecover(w) ==
    /\ pc[w] = "idle"
    /\ \A r \in Runs : \A n \in 1..Len(attempts[r]) : ~ Recoverable(r, n)
    /\ Goto(w, "claiming")
    /\ UNCHANGED <<dbvars, claim>>

\* _claim_next: a lost attempt is failed and its pin released in the same
\* transaction that pins the Generation for the new attempt.
NewAttempt(f) == [status |-> "running", fence |-> f, lease |-> "live",
                  reason |-> NoReason, pinned |-> TRUE]

ClaimNext(w) ==
    /\ pc[w] = "claiming"
    /\ \E r \in Runs :
          LET n == Len(attempts[r])
              lost == WorkerLossAt(r)
              before == IF lost
                        THEN [attempts[r] EXCEPT ![n] = Finished(@, "failed", "WorkerLost")]
                        ELSE attempts[r]
          IN  /\ Claimable(r)
              /\ lost => attempt_retry_eligible("WorkerLost", n)
              /\ status' = [status EXCEPT ![r] = "running"]
              /\ fence' = [fence EXCEPT ![r] = @ + 1]
              /\ attempts' = [attempts EXCEPT ![r] = Append(before, NewAttempt(fence[r] + 1))]
              /\ retained' = [retained EXCEPT ![r] = FALSE]
              /\ claim' = [claim EXCEPT ![w] = ClaimOf(r, n + 1, fence[r] + 1, TRUE)]
    /\ Goto(w, "claimed")
    /\ UNCHANGED <<checkpoints, committed, manifests, result>>

\* _claim_next of a run whose last permitted attempt lost its Worker.
ClaimExhausted(w) ==
    /\ pc[w] = "claiming"
    /\ \E r \in Runs :
          /\ WorkerLossAt(r)
          /\ ~ attempt_retry_eligible("WorkerLost", Len(attempts[r]))
          /\ claim' = [claim EXCEPT ![w] = ClaimOf(r, Len(attempts[r]), 0, FALSE)]
    /\ Goto(w, "exhausted")
    /\ UNCHANGED dbvars

\* No row, or the transaction rolled back: process_next returns.
ClaimNothing(w) ==
    /\ pc[w] = "claiming"
    /\ \A r \in Runs : ~ Claimable(r)
    /\ Return(w)
    /\ UNCHANGED dbvars

StillLostUnchecked(r, n) == n \in 1..Len(attempts[r])  \* mutant: nothing re-read

\* The facts _finish_exhausted_worker_loss reads again: the run was not locked since.
StillLost(r, n) ==
    /\ status[r] = "running"
    /\ n \in 1..Len(attempts[r])
    /\ attempts[r][n].status = "running"
    /\ attempts[r][n].fence = fence[r]
    /\ attempts[r][n].lease = "expired"

FinishExhaustedWorkerLoss(w) ==
    /\ pc[w] = "exhausted"
    /\ LET r == claim[w].run
           n == claim[w].attempt
       IN  \/ /\ StillLost(r, n)
              /\ status' = [status EXCEPT ![r] = "failed"]
              /\ FinishAttempt(r, n, "failed", "WorkerLost")
              /\ ReleaseCheckpoints(r)
              /\ UNCHANGED <<fence, committed, retained, result>>
           \/ ~ StillLost(r, n) /\ UNCHANGED dbvars
    /\ Goto(w, "claiming")
    /\ claim' = [claim EXCEPT ![w] = NoClaim]

-----------------------------------------------------------------------------
(* Executing a claim *)

\* _validated_resume_checkpoint, first half: the rows and the progress are read.
ReadCheckpoints(w) ==
    /\ pc[w] = "claimed"
    /\ LET rows == checkpoints[claim[w].run]
       IN  \/ /\ rows = <<>>
              /\ Goto(w, "computing") /\ claim' = [claim EXCEPT ![w].chunk = 1]
           \/ /\ rows # <<>> /\ committed[claim[w].run] = Len(rows)
              /\ Goto(w, "verifying") /\ claim' = [claim EXCEPT ![w].prior = rows]
           \/ /\ rows # <<>> /\ committed[claim[w].run] # Len(rows)
              /\ Goto(w, "failing") /\ claim' = [claim EXCEPT ![w].reason = "CheckpointIntegrity"]
    /\ UNCHANGED dbvars

\* Second half, outside any transaction: each checkpoint is read from Publication.
VerifyCheckpoints(w) ==
    /\ pc[w] = "verifying"
    /\ LET c == claim[w]
       IN  \/ /\ Readable(c.run, c.prior)
              /\ claim' = [claim EXCEPT ![w].chunk = Len(c.prior) + 1]
              /\ Goto(w, IF Len(c.prior) = NumChunks THEN "finalizing" ELSE "computing")
           \/ /\ ~ Readable(c.run, c.prior)
              /\ claim' = [claim EXCEPT ![w].reason = "CheckpointIntegrity"]
              /\ Goto(w, "failing")
    /\ UNCHANGED dbvars

\* The child delivers a chunk; _commit_execution_chunk stages it and reads the
\* prior checkpoint under _authorize_result_staging.
StageChunk(w) ==
    /\ pc[w] = "computing"
    /\ LET c == claim[w]
           accepted == Current(c) /\ c.chunk = Len(checkpoints[c.run]) + 1
       IN  \/ accepted /\ claim' = [claim EXCEPT ![w].prior = checkpoints[c.run]] /\ Goto(w, "committing")
           \/ ~ accepted /\ Goto(w, "settling") /\ UNCHANGED claim
    /\ UNCHANGED dbvars

\* The last transaction of _commit_execution_chunk.
CommitChunk(w) ==
    /\ pc[w] = "committing"
    /\ LET c == claim[w]
           accepted == Current(c) /\ checkpoints[c.run] = c.prior
       IN  \/ /\ accepted
              /\ checkpoints' = [checkpoints EXCEPT ![c.run] = Append(@, c.attempt)]
              /\ manifests' = manifests \cup {<<c.run, c.chunk, c.attempt>>}
              /\ committed' = [committed EXCEPT ![c.run] = c.chunk]
              /\ Goto(w, IF c.chunk = NumChunks THEN "finalizing" ELSE "computing")
              /\ claim' = [claim EXCEPT ![w].chunk = c.chunk + 1]
           \/ /\ ~ accepted
              /\ Goto(w, "settling")
              /\ UNCHANGED <<checkpoints, manifests, committed, claim>>
    /\ UNCHANGED <<status, fence, attempts, retained, result>>

\* _prepare_execution_result, first half: the checkpoint rows are read.
ReadResultEvidence(w) ==
    /\ pc[w] = "finalizing"
    /\ claim' = [claim EXCEPT ![w].prior = checkpoints[claim[w].run]]
    /\ Goto(w, "assembling")
    /\ UNCHANGED dbvars

\* Second half: the payloads are read, the Result assembled and staged.
PrepareResult(w) ==
    /\ pc[w] = "assembling"
    /\ LET c == claim[w]
           whole == Len(c.prior) = NumChunks /\ Readable(c.run, c.prior)
       IN  \/ ~ whole /\ claim' = [claim EXCEPT ![w].reason = "Permanent"] /\ Goto(w, "failing")
           \/ whole /\ ~ Current(c) /\ Goto(w, "settling") /\ UNCHANGED claim
           \/ whole /\ Current(c) /\ Goto(w, "publishing") /\ UNCHANGED claim
    /\ UNCHANGED dbvars

\* _publish_success.  The commit may be acknowledged or its answer lost.
PublishSuccess(w) ==
    /\ pc[w] = "publishing"
    /\ LET c == claim[w]
       IN  \/ /\ Current(c)
              /\ status' = [status EXCEPT ![c.run] = "succeeded"]
              /\ result' = [result EXCEPT ![c.run] = c.prior]
              /\ FinishAttempt(c.run, c.attempt, "succeeded", NoReason)
              /\ ReleaseCheckpoints(c.run)
              /\ UNCHANGED <<fence, committed, retained>>
              /\ \/ Return(w)
                 \/ Goto(w, "failing") /\ claim' = [claim EXCEPT ![w].reason = "Infrastructure"]
           \/ /\ ~ Current(c)
              /\ Goto(w, "settling")
              /\ UNCHANGED <<dbvars, claim>>

-----------------------------------------------------------------------------
(* Leaving a claim *)

\* Any exception of the execution other than the fence and the cancellation.
ExecutionFails(w) ==
    /\ pc[w] \in Executing
    /\ \E reason \in {"Infrastructure", "Permanent"} : claim' = [claim EXCEPT ![w].reason = reason]
    /\ Goto(w, "failing")
    /\ UNCHANGED dbvars

\* The child's supervisor polls _cancellation_is_pending while it waits.
ObserveCancellation(w) ==
    /\ pc[w] \in {"computing", "publishing"}
    /\ CancellationPending(claim[w])
    /\ Goto(w, "confirming")
    /\ UNCHANGED <<dbvars, claim>>

\* Mutants: no ownership test; the fence alone; the retention forgotten; the
\* checkpoints released whatever the outcome.
OwnedUnchecked(c) == c.attempt \in 1..Len(attempts[c.run])
OwnedByFence(c) == fence[c.run] = c.fence /\ c.attempt \in 1..Len(attempts[c.run])
AfterFailureNoRetention(r, retry) ==
    /\ status' = [status EXCEPT ![r] = IF retry THEN @ ELSE "failed"]
    /\ IF retry THEN UNCHANGED <<checkpoints, manifests>> ELSE ReleaseCheckpoints(r)
    /\ UNCHANGED retained
AfterFailureReleases(r, retry) ==
    /\ status' = [status EXCEPT ![r] = IF retry THEN @ ELSE "failed"]
    /\ retained' = [retained EXCEPT ![r] = retry]
    /\ ReleaseCheckpoints(r)

\* What _record_failure asks of the rows.  The lease is not looked at: an attempt
\* nobody recovered yet may still report its own failure.
Owned(c) ==
    /\ status[c.run] = "running" /\ fence[c.run] = c.fence
    /\ c.attempt \in 1..Len(attempts[c.run])
    /\ attempts[c.run][c.attempt].fence = c.fence
    /\ attempts[c.run][c.attempt].status = "running"

AfterFailure(r, retry) ==
    \/ /\ retry
       /\ retained' = [retained EXCEPT ![r] = TRUE]
       /\ UNCHANGED <<status, checkpoints, manifests>>
    \/ /\ ~ retry
       /\ status' = [status EXCEPT ![r] = "failed"]
       /\ ReleaseCheckpoints(r)
       /\ UNCHANGED retained

\* _record_failure
RecordFailure(w) ==
    /\ pc[w] = "failing"
    /\ LET c == claim[w]
       IN  \/ /\ Owned(c)
              /\ FinishAttempt(c.run, c.attempt, "failed", c.reason)
              /\ AfterFailure(c.run, attempt_retry_eligible(c.reason, Len(attempts[c.run])))
              /\ UNCHANGED <<fence, committed, result>>
           \/ ~ Owned(c) /\ UNCHANGED dbvars
    /\ Goto(w, "settling")
    /\ UNCHANGED claim

\* After a fence or a recorded failure the Worker asks whether it was cancelled.
Settle(w) ==
    /\ pc[w] = "settling"
    /\ \/ CancellationPending(claim[w]) /\ Goto(w, "confirming") /\ UNCHANGED claim
       \/ ~ CancellationPending(claim[w]) /\ Return(w)
    /\ UNCHANGED dbvars

\* _confirm_cancelled, once the child has been stopped.
ConfirmCancelled(w) ==
    /\ pc[w] = "confirming"
    /\ LET c == claim[w]
       IN  \/ /\ CancellationPending(c)
              /\ status' = [status EXCEPT ![c.run] = "cancelled"]
              /\ FinishAttempt(c.run, c.attempt, "cancelled", "UserCancelled")
              /\ ReleaseCheckpoints(c.run)
              /\ UNCHANGED <<fence, committed, retained, result>>
           \/ ~ CancellationPending(c) /\ UNCHANGED dbvars
    /\ Return(w)

-----------------------------------------------------------------------------
(* Heartbeat thread, time and crashes *)

\* One turn of _heartbeat_claim.  The thread ends when the lease was not renewed.
Heartbeat(w) ==
    /\ claim[w].beating
    /\ LET c == claim[w]
       IN  \/ /\ Current(c) /\ attempts[c.run][c.attempt].lease = "due"
              /\ attempts' = [attempts EXCEPT ![c.run][c.attempt].lease = "live"]
              /\ UNCHANGED claim
           \/ /\ ~ Current(c)
              /\ claim' = [claim EXCEPT ![w].beating = FALSE]
              /\ UNCHANGED attempts
    /\ UNCHANGED <<status, fence, checkpoints, committed, retained, manifests, result, pc>>

\* The heartbeat transaction raised: the thread ends, the Worker goes on.
HeartbeatFails(w) ==
    /\ claim[w].beating
    /\ claim' = [claim EXCEPT ![w].beating = FALSE]
    /\ UNCHANGED <<dbvars, pc>>

LeaseTick(r) ==
    /\ \E n \in 1..Len(attempts[r]) :
          /\ attempts[r][n].status \in Active
          /\ attempts[r][n].lease # "expired"
          /\ attempts' = [attempts EXCEPT ![r][n].lease =
                            IF @ = "live" THEN "due" ELSE "expired"]
    /\ UNCHANGED <<status, fence, checkpoints, committed, retained, manifests, result, pc, claim>>

\* The process dies and is restarted; only its local state is lost.
Crash(w) ==
    /\ pc[w] \notin {"idle", "claiming"}
    /\ Return(w)
    /\ UNCHANGED dbvars

-----------------------------------------------------------------------------
Command(r) == Admit(r) \/ CancelWaiting(r) \/ CancelRunning(r) \/ Delete(r)

WorkerStep(w) ==
    \/ RecoverCancelledAttempt(w) \/ NothingToRecover(w)
    \/ ClaimNext(w) \/ ClaimExhausted(w) \/ ClaimNothing(w)
    \/ FinishExhaustedWorkerLoss(w)
    \/ ReadCheckpoints(w) \/ VerifyCheckpoints(w)
    \/ StageChunk(w) \/ CommitChunk(w)
    \/ ReadResultEvidence(w) \/ PrepareResult(w) \/ PublishSuccess(w)
    \/ ObserveCancellation(w)
    \/ RecordFailure(w) \/ Settle(w) \/ ConfirmCancelled(w)

Next ==
    \/ \E r \in Runs : Command(r) \/ LeaseTick(r)
    \/ \E w \in Workers : \/ WorkerStep(w) \/ ExecutionFails(w)
                          \/ Heartbeat(w) \/ HeartbeatFails(w) \/ Crash(w)

Spec == Init /\ [][Next]_vars

\* A Worker that is running keeps taking steps, the child eventually answers, and
\* time passes.  Crashes in the one step that must end a run may recur but not for ever.
Fairness ==
    /\ \A w \in Workers : /\ WF_vars(WorkerStep(w))
                          /\ SF_vars(FinishExhaustedWorkerLoss(w))
    /\ \A r \in Runs : WF_vars(LeaseTick(r))

FairSpec == Spec /\ Fairness

-----------------------------------------------------------------------------
(* Properties *)

Claim == [run : Runs \cup {NoRun}, attempt : Nat, fence : Nat, beating : BOOLEAN,
          chunk : Nat, prior : Seq(Nat), reason : Reasons \cup {NoReason}]

\* Types of the rows and of the Workers' local variables.
TypeOK ==
    /\ status \in [Runs -> RunStatus]
    /\ fence \in [Runs -> Nat]
    /\ attempts \in [Runs -> Seq(Attempt)]
    /\ checkpoints \in [Runs -> Seq(Nat)]
    /\ committed \in [Runs -> Nat]
    /\ retained \in [Runs -> BOOLEAN]
    /\ manifests \subseteq Runs \X Nat \X Nat
    /\ result \in [Runs -> Seq(Nat)]
    /\ pc \in [Workers -> PC]
    /\ claim \in [Workers -> Claim]

\* The Run row and its attempts tell the same story: every attempt but the latest
\* failed for a retryable reason, only the latest may be active, and its fence is
\* the run's fence (one behind once _cancel has advanced it).
LedgerOf(r) ==
    /\ \A n \in 1..Len(attempts[r]) : n < Len(attempts[r]) =>
          attempts[r][n].status = "failed" /\ attempts[r][n].reason \in Retryable
    /\ status[r] \in {"absent", "queued", "deleted"} => Len(attempts[r]) = 0
    /\ status[r] = "running" =>
          /\ Len(attempts[r]) > 0 /\ Latest(r).fence = fence[r]
          /\ Latest(r).status = "running" \/ RetryWaiting(r)
    /\ status[r] = "cancelling" =>
          /\ Len(attempts[r]) > 0 /\ Latest(r).fence + 1 = fence[r]
          /\ Latest(r).status = "cancelling"
    /\ status[r] \in Terminal /\ Len(attempts[r]) > 0 =>
          \/ Latest(r).status = status[r]
          \/ status[r] = "cancelled" /\ Latest(r).status = "failed"
                                     /\ Latest(r).reason \in Retryable
LedgerAgrees == \A r \in Runs : LedgerOf(r)

\* At most one Worker holds a claim that _validate_current_execution accepts,
\* however many others still execute the same run on an older claim.
OneAuthority ==
    \A v, w \in Workers :
        /\ claim[v].beating \/ pc[v] \in Executing
        /\ claim[w].beating \/ pc[w] \in Executing
        /\ claim[v].run = claim[w].run
        /\ claim[v].run # NoRun
        /\ Current(claim[v]) /\ Current(claim[w])
        => v = w

\* The frozen Data Generation of a run that may still execute is always a root of
\* collection (a live retention while it waits, an active pin while an attempt
\* holds it), and a run that has ended holds neither.
ProtectionOf(r) ==
    /\ retained[r] <=> (status[r] = "queued" \/ RetryWaiting(r))
    /\ \A n \in 1..Len(attempts[r]) :
          attempts[r][n].pinned <=> attempts[r][n].status \in Active
    /\ status[r] \in Pending =>
          retained[r] \/ \E n \in 1..Len(attempts[r]) : attempts[r][n].pinned
GenerationProtected == \A r \in Runs : ProtectionOf(r)

\* The checkpoints of a run that may still resume form a prefix of the plan, agree
\* with the reported progress, are all readable, and were written by attempts in
\* the order of their ordinals.
ChainOf(r) ==
    LET rows == checkpoints[r]
    IN  /\ committed[r] = Len(rows) /\ Len(rows) <= NumChunks
        /\ Readable(r, rows)
        /\ \A i, j \in 1..Len(rows) : i <= j => rows[i] <= rows[j]
        /\ \A i \in 1..Len(rows) : rows[i] \in 1..Len(attempts[r])
ChainIntact == \A r \in Runs : status[r] \in Pending => ChainOf(r)

\* The Result a Worker publishes was assembled from exactly the checkpoints that
\* are committed at that moment, although it read them several transactions earlier,
\* and they cover the whole plan.
ResultMatchesChain ==
    [][\A r \in Runs : status'[r] = "succeeded" /\ status[r] # "succeeded"
                          => result'[r] = checkpoints[r] /\ Len(result'[r]) = NumChunks]_vars

\* A Worker that reads checkpoints while they are being released under it never
\* gets its CheckpointIntegrityFailure recorded against the run.
NoFalseIntegrityFailure ==
    \A r \in Runs : \A n \in 1..Len(attempts[r]) :
        attempts[r][n].reason # "CheckpointIntegrity"

\* No sequence of failures, losses and recoveries exceeds the retry budget.
AttemptsBounded == \A r \in Runs : Len(attempts[r]) <= MaxAttempts

\* A terminal outcome is never replaced, and a cancellation that was accepted
\* while an attempt ran can only end as cancelled.
OutcomeIsFinal ==
    [][\A r \in Runs :
          /\ status[r] \in Terminal => status'[r] \in {status[r], "deleted"}
          /\ status[r] = "cancelling" => status'[r] \in {"cancelling", "cancelled"}]_vars

\* ADR 0195: "terminal outcomes make all private recovery state collectible".  The code
\* does not keep it: a run cancelled between two attempts leaves its manifests (README, 9).
RecoveryStateCollectible ==
    \A r \in Runs : status[r] \in Terminal \cup {"deleted"} =>
        \A m \in manifests : m[1] # r

\* No admitted run r waits for a Worker or for its cancellation.
Decided(r) == status[r] \notin Pending

\* The promise to the researcher (RunContract): a run between two attempts waits,
\* and its durable chunks are the checkpoints it can still resume from.
PhaseOf(r) ==
    IF status[r] = "queued" \/ RetryWaiting(r) THEN "waiting"
    ELSE IF status[r] = "running" THEN "active"
    ELSE IF status[r] = "cancelling" THEN "stopping"
    ELSE status[r]
phase == [r \in Runs |-> PhaseOf(r)]
tries == [r \in Runs |-> Len(attempts[r])]
durable == [r \in Runs |-> IF status[r] \in Pending THEN Len(checkpoints[r]) ELSE 0]
Contract == INSTANCE RunContract WITH Plan <- NumChunks, Budget <- MaxAttempts

\* Every step of the Workers, the heartbeat and the commands is a step of the contract.
ImplementsContract == Contract!Spec
=============================================================================
