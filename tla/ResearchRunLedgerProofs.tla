------------------------ MODULE ResearchRunLedgerProofs ------------------------
(***************************************************************************)
(* What a step of ResearchRun does to the rows of the one run it concerns, *)
(* and why the ledger, the checkpoint chain, the protection of the         *)
(* Generation and the promise to the researcher survive it.                *)
(*                                                                         *)
(* The rows alone are not inductive: a Worker writes what it read several  *)
(* transactions before.  FactsAt says what its stale variables are still   *)
(* worth as long as the ownership test would accept its claim.             *)
(***************************************************************************)
EXTENDS ResearchRunProofs

USE NumChunksAssumption, MaxAttemptsAssumption

\* A run that was never started has left no trace; a run that waits may be claimed again.
FreshOf(r) ==
    status[r] \in {"absent", "queued"} => fence[r] = 0 /\ checkpoints[r] = <<>> /\ committed[r] = 0
BudgetOf(r) ==
    /\ Len(attempts[r]) <= MaxAttempts
    /\ RetryWaiting(r) => Len(attempts[r]) < MaxAttempts
ReasonsOf(r) == \A n \in 1..Len(attempts[r]) : attempts[r][n].reason # "CheckpointIntegrity"
RunAt(r) ==
    /\ LedgerOf(r) /\ ProtectionOf(r) /\ FreshOf(r) /\ BudgetOf(r) /\ ReasonsOf(r)
    /\ status[r] \in Pending => ChainOf(r)
    /\ Len(checkpoints[r]) <= NumChunks

\* The local variables of a Worker.
FactsAt(w) ==
    LET c == claim[w]
    IN  /\ Len(c.prior) <= NumChunks
        /\ pc[w] \in {"computing", "committing"} => c.chunk \in 1..NumChunks
        /\ pc[w] = "committing" => c.chunk = Len(c.prior) + 1
        /\ pc[w] = "publishing" => Len(c.prior) = NumChunks
        /\ pc[w] \in {"verifying", "assembling", "publishing"} /\ Owned(c) =>
              c.prior = checkpoints[c.run]
        /\ pc[w] = "failing" /\ c.reason = "CheckpointIntegrity" => ~ Owned(c)

RunInv ==
    /\ FenceInv
    /\ \A r \in Runs : RunAt(r)
    /\ \A w \in Workers : FactsAt(w)

-----------------------------------------------------------------------------
(* What a step does to the rows of one run *)

\* The chain is as it was; other runs may record manifests.
ChainKept(r) ==
    /\ checkpoints'[r] = checkpoints[r] /\ committed'[r] = committed[r]
    /\ \A i, k \in Nat : <<r, i, k>> \in manifests => <<r, i, k>> \in manifests'
Same(r) ==
    /\ status'[r] = status[r] /\ fence'[r] = fence[r] /\ attempts'[r] = attempts[r]
    /\ retained'[r] = retained[r] /\ ChainKept(r)
OthersSame(r) == \A q \in Runs : q # r => Same(q)

Ends(r, n, s, why) ==
    /\ Len(attempts'[r]) = Len(attempts[r])
    /\ attempts'[r][n] = Finished(attempts[r][n], s, why)
    /\ \A k \in 1..Len(attempts[r]) : k # n => attempts'[r][k] = attempts[r][k]

Admitted(r) ==
    /\ status[r] = "absent" /\ status'[r] = "queued" /\ retained'[r] = TRUE
    /\ fence'[r] = fence[r] /\ attempts'[r] = attempts[r] /\ ChainKept(r)

\* Cancelled while it waits.
Withdrawn(r) ==
    /\ status[r] = "queued" \/ (status[r] = "running" /\ RunningAttempts(r) = {})
    /\ status'[r] = "cancelled" /\ retained'[r] = FALSE
    /\ attempts'[r] = attempts[r] /\ ChainKept(r)

\* Cancelled while an attempt runs.
Stopping(r) ==
    /\ status[r] = "running" /\ status'[r] = "cancelling"
    /\ fence'[r] = fence[r] + 1 /\ retained'[r] = retained[r] /\ ChainKept(r)
    /\ \E n \in RunningAttempts(r) :
          /\ Len(attempts'[r]) = Len(attempts[r])
          /\ attempts'[r][n] = [attempts[r][n] EXCEPT !.status = "cancelling",
                                                      !.reason = "UserCancelled"]
          /\ \A k \in 1..Len(attempts[r]) : k # n => attempts'[r][k] = attempts[r][k]

Removed(r) ==
    /\ status[r] \in Terminal /\ status'[r] = "deleted" /\ retained'[r] = retained[r]
    /\ attempts'[r] = <<>> /\ checkpoints'[r] = <<>>

\* The run ends with its attempt.
Closed(r) ==
    /\ retained'[r] = retained[r] /\ checkpoints'[r] = <<>>
    /\ \E n \in 1..Len(attempts[r]), why \in Reasons \cup {NoReason} :
          /\ Ends(r, n, status'[r], why) /\ why # "CheckpointIntegrity"
          /\ \/ /\ status[r] = "running" /\ attempts[r][n].status = "running"
                /\ status'[r] = "failed"
             \/ /\ status[r] = "running" /\ attempts[r][n].status = "running"
                /\ status'[r] = "succeeded"
                /\ result'[r] = checkpoints[r] /\ Len(checkpoints[r]) = NumChunks
             \/ /\ status[r] = "cancelling" /\ attempts[r][n].status = "cancelling"
                /\ status'[r] = "cancelled"

\* The attempt failed and another one will follow.
Suspended(r) ==
    /\ status[r] = "running" /\ status'[r] = "running"
    /\ fence'[r] = fence[r] /\ retained'[r] = TRUE /\ ChainKept(r)
    /\ Len(attempts[r]) < MaxAttempts
    /\ \E n \in 1..Len(attempts[r]), why \in Retryable :
          attempts[r][n].status = "running" /\ Ends(r, n, "failed", why)

\* A new attempt; a lost one is closed with it.
Begun(r) ==
    /\ Claimable(r) /\ Len(attempts[r]) < MaxAttempts
    /\ status'[r] = "running" /\ fence'[r] = fence[r] + 1 /\ retained'[r] = FALSE /\ ChainKept(r)
    /\ Len(attempts'[r]) = Len(attempts[r]) + 1
    /\ attempts'[r][Len(attempts[r]) + 1] = NewAttempt(fence[r] + 1)
    /\ \A k \in 1..Len(attempts[r]) :
          attempts'[r][k] = IF WorkerLossAt(r) /\ k = Len(attempts[r])
                            THEN Finished(attempts[r][k], "failed", "WorkerLost")
                            ELSE attempts[r][k]

Extended(r) ==
    /\ status[r] = "running" /\ Latest(r).status = "running"
    /\ status'[r] = status[r] /\ fence'[r] = fence[r]
    /\ attempts'[r] = attempts[r] /\ retained'[r] = retained[r]
    /\ Len(checkpoints[r]) < NumChunks
    /\ checkpoints'[r] = Append(checkpoints[r], Len(attempts[r]))
    /\ committed'[r] = Len(checkpoints[r]) + 1
    /\ manifests \subseteq manifests'
    /\ <<r, Len(checkpoints[r]) + 1, Len(attempts[r])>> \in manifests'

LeaseMoved(r) ==
    /\ status'[r] = status[r] /\ fence'[r] = fence[r] /\ retained'[r] = retained[r] /\ ChainKept(r)
    /\ Len(attempts'[r]) = Len(attempts[r])
    /\ \A k \in 1..Len(attempts[r]) :
          /\ attempts'[r][k].status = attempts[r][k].status
          /\ attempts'[r][k].reason = attempts[r][k].reason
          /\ attempts'[r][k].fence = attempts[r][k].fence
          /\ attempts'[r][k].pinned = attempts[r][k].pinned

Turn(r) ==
    \/ Same(r) \/ Admitted(r) \/ Withdrawn(r) \/ Stopping(r) \/ Removed(r) \/ Closed(r)
    \/ Suspended(r) \/ Begun(r) \/ LeaseMoved(r)

-----------------------------------------------------------------------------
(* The rows of one run survive each effect *)

LEMMA RowTypes ==
    ASSUME Rows, NEW r \in Runs
    PROVE  /\ status[r] \in RunStatus /\ fence[r] \in Nat /\ attempts[r] \in Seq(Attempt)
           /\ checkpoints[r] \in Seq(Nat) /\ committed[r] \in Nat /\ retained[r] \in BOOLEAN
           /\ Len(attempts[r]) \in Nat /\ \A n \in 1..Len(attempts[r]) : attempts[r][n] \in Attempt
BY DEF Rows

\* Only the latest attempt can be active.
LEMMA ActiveIsLatest ==
    ASSUME Rows, NEW r \in Runs, LedgerOf(r),
           NEW n \in 1..Len(attempts[r]), attempts[r][n].status \in Active
    PROVE  n = Len(attempts[r]) /\ Latest(r) = attempts[r][n]
BY RowTypes DEF LedgerOf, Latest, Active

\* The chain of a run whose rows are kept.
LEMMA ChainSurvives ==
    ASSUME Rows, NEW r \in Runs, ChainOf(r), ChainKept(r),
           Len(attempts'[r]) \in Nat, Len(attempts[r]) <= Len(attempts'[r])
    PROVE  ChainOf(r)'
<1>1. /\ checkpoints[r] \in Seq(Nat) /\ Len(attempts[r]) \in Nat
      /\ Len(checkpoints[r]) \in Nat
      /\ \A i \in 1..Len(checkpoints[r]) : checkpoints[r][i] \in Nat /\ i \in Nat
  BY RowTypes
<1>2. Readable(r, checkpoints[r])' BY <1>1 DEF ChainOf, ChainKept, Readable
<1>3. \A i \in 1..Len(checkpoints[r]) : checkpoints[r][i] \in 1..Len(attempts'[r])
  BY <1>1 DEF ChainOf
<1>4. checkpoints'[r] = checkpoints[r] /\ committed'[r] = committed[r] BY DEF ChainKept
<1> QED BY <1>2, <1>3, <1>4 DEF ChainOf

LEMMA SameRun ==
    ASSUME Rows, NEW r \in Runs, RunAt(r), Same(r)
    PROVE  RunAt(r)'
<1>1. /\ LedgerOf(r)' /\ ProtectionOf(r)' /\ FreshOf(r)' /\ BudgetOf(r)' /\ ReasonsOf(r)'
  BY DEF RunAt, Same, ChainKept, LedgerOf, ProtectionOf, FreshOf, BudgetOf, ReasonsOf, Latest,
         RetryWaiting
<1>2. status'[r] \in Pending => ChainOf(r)'
  BY RowTypes, ChainSurvives DEF RunAt, Same
<1> QED BY <1>1, <1>2 DEF RunAt, Same, ChainKept

\* An effect after which the run cannot resume, or keeps its chain.
LEMMA ChainAfter ==
    ASSUME Rows, NEW r \in Runs, RunAt(r), status[r] \in Pending, ChainKept(r),
           Len(attempts'[r]) \in Nat, Len(attempts[r]) <= Len(attempts'[r])
    PROVE  ChainOf(r)' /\ Len(checkpoints'[r]) <= NumChunks
BY ChainSurvives DEF RunAt, ChainKept

LEMMA AdmittedRun ==
    ASSUME Rows, NEW r \in Runs, RunAt(r), Admitted(r)
    PROVE  RunAt(r)'
<1> USE DEF Admitted, RunAt
<1>1. Len(attempts[r]) = 0 /\ attempts'[r] = attempts[r] BY DEF LedgerOf
<1>2. LedgerOf(r)' BY <1>1 DEF LedgerOf, Pending, Terminal
<1>3. ProtectionOf(r)' BY <1>1 DEF ProtectionOf, RetryWaiting
<1>4. FreshOf(r)' BY DEF FreshOf, ChainKept
<1>5. BudgetOf(r)' /\ ReasonsOf(r)' BY <1>1 DEF BudgetOf, ReasonsOf, RetryWaiting
<1>6. ChainOf(r)' BY DEF ChainOf, ChainKept, FreshOf, Readable
<1> QED BY <1>2, <1>3, <1>4, <1>5, <1>6 DEF ChainKept

\* A run that is cancelled without an attempt to stop waits for a Worker.
LEMMA WithdrawnWaits ==
    ASSUME Rows, NEW r \in Runs, RunAt(r), Withdrawn(r)
    PROVE  status[r] = "queued" \/ RetryWaiting(r)
<1> USE DEF Withdrawn, RunAt
<1> SUFFICES ASSUME status[r] = "running", RunningAttempts(r) = {} PROVE RetryWaiting(r)
  OBVIOUS
<1>1. Len(attempts[r]) \in 1..Len(attempts[r]) BY RowTypes DEF LedgerOf
<1>2. Latest(r).status # "running" BY <1>1 DEF RunningAttempts, Latest
<1> QED BY <1>2 DEF LedgerOf

LEMMA WithdrawnRun ==
    ASSUME Rows, NEW r \in Runs, RunAt(r), Withdrawn(r)
    PROVE  RunAt(r)'
<1> USE DEF Withdrawn, RunAt
<1>1. status[r] = "queued" \/ RetryWaiting(r) BY WithdrawnWaits
<1>2. LedgerOf(r)' BY <1>1 DEF LedgerOf, RetryWaiting, Latest, Terminal
<1>3. ProtectionOf(r)' BY DEF ProtectionOf, RetryWaiting, Pending
<1>4. FreshOf(r)' BY DEF FreshOf
<1>5. BudgetOf(r)' /\ ReasonsOf(r)' BY DEF BudgetOf, ReasonsOf, RetryWaiting
<1> QED BY <1>2, <1>3, <1>4, <1>5 DEF ChainKept, Pending

LEMMA StoppingRun ==
    ASSUME Rows, Rows', NEW r \in Runs, RunAt(r), Stopping(r)
    PROVE  RunAt(r)'
<1>1. PICK n \in 1..Len(attempts[r]) :
          /\ attempts[r][n].status = "running"
          /\ Len(attempts'[r]) = Len(attempts[r])
          /\ attempts'[r][n] = [attempts[r][n] EXCEPT !.status = "cancelling",
                                                      !.reason = "UserCancelled"]
          /\ \A k \in 1..Len(attempts[r]) : k # n => attempts'[r][k] = attempts[r][k]
  BY DEF Stopping, RunningAttempts
<1>2. n = Len(attempts[r]) /\ Latest(r) = attempts[r][n] /\ Latest(r)' = attempts'[r][n]
      /\ Len(attempts[r]) \in Nat
  BY <1>1, ActiveIsLatest, RowTypes DEF Active, RunAt, Latest
<1>3. /\ attempts'[r][n].status = "cancelling" /\ attempts'[r][n].reason = "UserCancelled"
      /\ attempts'[r][n].fence = attempts[r][n].fence
      /\ attempts'[r][n].pinned = attempts[r][n].pinned
      /\ Len(attempts'[r]) = Len(attempts[r])
      /\ \A k \in 1..Len(attempts[r]) : k # n => attempts'[r][k] = attempts[r][k]
  BY <1>1, RowTypes DEF Attempt
<1>4. /\ status[r] = "running" /\ status'[r] = "cancelling" /\ fence'[r] = fence[r] + 1
      /\ retained'[r] = retained[r]
  BY DEF Stopping
<1>5. LedgerOf(r)'
  BY <1>1, <1>2, <1>3, <1>4 DEF LedgerOf, RunAt, Terminal, RetryWaiting
<1>6. ProtectionOf(r)'
  <2>1. ~ RetryWaiting(r) /\ ~ RetryWaiting(r)' BY <1>1, <1>2, <1>4 DEF RetryWaiting
  <2>2. \A k \in 1..Len(attempts'[r]) :
           attempts'[r][k].pinned <=> attempts'[r][k].status \in Active
    BY <1>1, <1>3 DEF ProtectionOf, RunAt, Active
  <2> QED BY <1>1, <1>2, <1>3, <1>4, <2>1, <2>2 DEF ProtectionOf, RunAt, Active
<1>7. FreshOf(r)' BY <1>4 DEF FreshOf
<1>8. BudgetOf(r)' BY <1>1, <1>4 DEF BudgetOf, RunAt, RetryWaiting
<1>9. ReasonsOf(r)' BY <1>3 DEF ReasonsOf, RunAt
<1>10. ChainOf(r)' /\ Len(checkpoints'[r]) <= NumChunks
  BY <1>1, <1>2, <1>4, ChainAfter DEF Stopping, Pending
<1> QED BY <1>5, <1>6, <1>7, <1>8, <1>9, <1>10 DEF RunAt

LEMMA RemovedRun ==
    ASSUME Rows, NEW r \in Runs, RunAt(r), Removed(r)
    PROVE  RunAt(r)'
<1>1. /\ status[r] \in Terminal /\ status'[r] = "deleted" /\ retained'[r] = retained[r]
      /\ Len(attempts'[r]) = 0 /\ Len(checkpoints'[r]) = 0
  BY DEF Removed
<1>2. LedgerOf(r)' BY <1>1 DEF LedgerOf, Terminal
<1>3. ProtectionOf(r)' BY <1>1 DEF ProtectionOf, RunAt, RetryWaiting, Terminal, Pending
<1>4. FreshOf(r)' BY <1>1 DEF FreshOf
<1>5. BudgetOf(r)' /\ ReasonsOf(r)' BY <1>1 DEF BudgetOf, ReasonsOf, RetryWaiting
<1> QED BY <1>1, <1>2, <1>3, <1>4, <1>5 DEF RunAt, Pending

\* The latest attempt is the one that ends.
EndedRowIs(r, n, s, why) ==
    /\ n = Len(attempts[r]) /\ Len(attempts'[r]) = Len(attempts[r])
    /\ Latest(r) = attempts[r][n] /\ Latest(r)' = attempts'[r][n]
    /\ attempts'[r][n].status = s /\ attempts'[r][n].reason = why
    /\ attempts'[r][n].pinned = FALSE /\ attempts'[r][n].fence = attempts[r][n].fence
    /\ \A k \in 1..Len(attempts[r]) : k # n => attempts'[r][k] = attempts[r][k]

LEMMA EndedRow ==
    ASSUME Rows, NEW r \in Runs, RunAt(r), NEW n \in 1..Len(attempts[r]),
           attempts[r][n].status \in Active, NEW s, NEW why, Ends(r, n, s, why)
    PROVE  EndedRowIs(r, n, s, why)
<1>1. n = Len(attempts[r]) /\ Latest(r) = attempts[r][n] BY ActiveIsLatest DEF RunAt
<1>2. attempts[r][n] \in Attempt BY RowTypes
<1>3. \A a \in Attempt :
         /\ Finished(a, s, why).status = s /\ Finished(a, s, why).reason = why
         /\ Finished(a, s, why).pinned = FALSE /\ Finished(a, s, why).fence = a.fence
  BY DEF Finished, Attempt
<1>4. /\ attempts'[r][n] = Finished(attempts[r][n], s, why)
      /\ Len(attempts'[r]) = Len(attempts[r])
      /\ \A k \in 1..Len(attempts[r]) : k # n => attempts'[r][k] = attempts[r][k]
  BY DEF Ends
<1> QED BY <1>1, <1>2, <1>3, <1>4 DEF Latest, EndedRowIs

LEMMA ClosedRun ==
    ASSUME Rows, NEW r \in Runs, RunAt(r), Closed(r)
    PROVE  RunAt(r)'
<1>0. PICK n \in 1..Len(attempts[r]), why \in Reasons \cup {NoReason}, s \in Terminal :
         /\ Ends(r, n, s, why) /\ why # "CheckpointIntegrity" /\ status'[r] = s
         /\ status[r] \in {"running", "cancelling"} /\ attempts[r][n].status \in Active
  <2>1. \E n \in 1..Len(attempts[r]), why \in Reasons \cup {NoReason} :
          /\ Ends(r, n, status'[r], why) /\ why # "CheckpointIntegrity"
          /\ status[r] \in {"running", "cancelling"} /\ attempts[r][n].status \in Active
          /\ status'[r] \in Terminal
    BY DEF Closed, Terminal, Active
  <2> QED BY <2>1
<1>1. /\ status'[r] = s /\ s \in Terminal /\ why # "CheckpointIntegrity"
      /\ status[r] \in {"running", "cancelling"} /\ attempts[r][n].status \in Active
  BY <1>0
<1>2. /\ n = Len(attempts[r]) /\ Len(attempts'[r]) = Len(attempts[r])
      /\ Latest(r) = attempts[r][n] /\ Latest(r)' = attempts'[r][n]
      /\ attempts'[r][n].status = s /\ attempts'[r][n].reason = why
      /\ attempts'[r][n].pinned = FALSE
      /\ \A k \in 1..Len(attempts[r]) : k # n => attempts'[r][k] = attempts[r][k]
  <2>1. EndedRowIs(r, n, s, why) BY <1>0, EndedRow
  <2> QED BY <2>1 DEF EndedRowIs
<1>9. retained'[r] = retained[r] /\ Len(checkpoints'[r]) = 0 BY DEF Closed
<1>3. ~ RetryWaiting(r) /\ ~ RetryWaiting(r)'
  BY <1>1, <1>2 DEF RetryWaiting, Active, Terminal
<1>4. LedgerOf(r)' BY <1>1, <1>2 DEF LedgerOf, RunAt, Terminal
<1>5. ProtectionOf(r)'
  <2>1. \A k \in 1..Len(attempts'[r]) :
           attempts'[r][k].pinned <=> attempts'[r][k].status \in Active
    BY <1>1, <1>2 DEF ProtectionOf, RunAt, Active, Terminal
  <2> QED BY <1>1, <1>9, <1>3, <2>1 DEF ProtectionOf, RunAt, Terminal, Pending
<1>6. FreshOf(r)' BY <1>1 DEF FreshOf, Terminal
<1>7. BudgetOf(r)' BY <1>2, <1>3 DEF BudgetOf, RunAt
<1>8. ReasonsOf(r)' BY <1>1, <1>2 DEF ReasonsOf, RunAt
<1> QED BY <1>1, <1>9, <1>4, <1>5, <1>6, <1>7, <1>8 DEF RunAt, Pending, Terminal

LEMMA SuspendedRun ==
    ASSUME Rows, NEW r \in Runs, RunAt(r), Suspended(r)
    PROVE  RunAt(r)' /\ RetryWaiting(r)'
<1>1. PICK n \in 1..Len(attempts[r]), why \in Retryable :
         attempts[r][n].status = "running" /\ Ends(r, n, "failed", why)
  BY DEF Suspended
<1>2. /\ n = Len(attempts[r]) /\ Len(attempts'[r]) = Len(attempts[r])
      /\ Latest(r) = attempts[r][n] /\ Latest(r)' = attempts'[r][n]
      /\ attempts'[r][n].status = "failed" /\ attempts'[r][n].reason = why
      /\ attempts'[r][n].pinned = FALSE /\ attempts'[r][n].fence = attempts[r][n].fence
      /\ \A k \in 1..Len(attempts[r]) : k # n => attempts'[r][k] = attempts[r][k]
  <2>1. EndedRowIs(r, n, "failed", why) BY <1>1, EndedRow DEF Active
  <2> QED BY <2>1 DEF EndedRowIs
<1>3. /\ status[r] = "running" /\ status'[r] = "running" /\ fence'[r] = fence[r]
      /\ retained'[r] = TRUE /\ Len(attempts[r]) < MaxAttempts /\ Len(attempts[r]) \in Nat
  BY RowTypes DEF Suspended
<1>4. RetryWaiting(r)' BY <1>2, <1>3 DEF RetryWaiting
<1>5. LedgerOf(r)' BY <1>2, <1>3, <1>4 DEF LedgerOf, RunAt, Terminal
<1>6. ProtectionOf(r)'
  <2>1. \A k \in 1..Len(attempts'[r]) :
           attempts'[r][k].pinned <=> attempts'[r][k].status \in Active
    BY <1>2 DEF ProtectionOf, RunAt, Active
  <2> QED BY <1>3, <1>4, <2>1 DEF ProtectionOf
<1>7. FreshOf(r)' BY <1>3 DEF FreshOf
<1>8. BudgetOf(r)' BY <1>2, <1>3 DEF BudgetOf
<1>9. ReasonsOf(r)' BY <1>1, <1>2 DEF ReasonsOf, RunAt, Retryable
<1>10. ChainOf(r)' /\ Len(checkpoints'[r]) <= NumChunks
  BY <1>2, <1>3, ChainAfter DEF Suspended, Pending
<1> QED BY <1>4, <1>5, <1>6, <1>7, <1>8, <1>9, <1>10 DEF RunAt

LEMMA BegunRun ==
    ASSUME Rows, NEW r \in Runs, RunAt(r), Begun(r)
    PROVE  RunAt(r)' /\ status'[r] = "running" /\ ~ RetryWaiting(r)'
<1> DEFINE n == Len(attempts[r])
<1>1. /\ status'[r] = "running" /\ fence'[r] = fence[r] + 1 /\ retained'[r] = FALSE
      /\ Len(attempts'[r]) = n + 1 /\ n \in Nat /\ n < MaxAttempts
      /\ fence[r] \in Nat
  BY RowTypes DEF Begun
<1>2. /\ attempts'[r][n + 1].status = "running" /\ attempts'[r][n + 1].fence = fence[r] + 1
      /\ attempts'[r][n + 1].reason = NoReason /\ attempts'[r][n + 1].pinned = TRUE
  BY DEF Begun, NewAttempt
<1>3. Latest(r)' = attempts'[r][n + 1] BY <1>1 DEF Latest
<1>4. \A a \in Attempt :
        /\ Finished(a, "failed", "WorkerLost").status = "failed"
        /\ Finished(a, "failed", "WorkerLost").reason = "WorkerLost"
        /\ Finished(a, "failed", "WorkerLost").pinned = FALSE
  BY DEF Finished, Attempt
<1>5. ASSUME NEW k \in 1..n
      PROVE  /\ attempts'[r][k].status = "failed" /\ attempts'[r][k].reason \in Retryable
             /\ attempts'[r][k].pinned = FALSE
  <2>0. attempts[r][k] \in Attempt BY RowTypes
  <2>1. CASE WorkerLossAt(r) /\ k = n
    <3>1. attempts'[r][k] = Finished(attempts[r][k], "failed", "WorkerLost")
      BY <1>1, <2>1 DEF Begun
    <3> QED BY <1>4, <2>0, <3>1 DEF Retryable
  <2>2. CASE ~ (WorkerLossAt(r) /\ k = n)
    <3>1. attempts'[r][k] = attempts[r][k] BY <1>1, <2>2 DEF Begun
    <3>2. attempts[r][k].status = "failed" /\ attempts[r][k].reason \in Retryable
      <4>1. CASE k < n BY <4>1 DEF RunAt, LedgerOf
      <4>2. CASE k = n
        <5>1. RetryWaiting(r)
          BY <1>1, <2>2, <4>2 DEF Begun, Claimable, RunAt, LedgerOf
        <5> QED BY <4>2, <5>1 DEF RetryWaiting, Latest
      <4> QED BY <1>1, <4>1, <4>2
    <3>3. attempts[r][k].pinned = FALSE
      BY <2>0, <3>2 DEF RunAt, ProtectionOf, Active, Attempt
    <3> QED BY <3>1, <3>2, <3>3
  <2> QED BY <2>1, <2>2
<1> HIDE DEF n
<1>6. ~ RetryWaiting(r)' BY <1>2, <1>3 DEF RetryWaiting
<1>13. \A k \in 1..Len(attempts'[r]) : k = n + 1 \/ k \in 1..n BY <1>1
<1>14. ASSUME NEW k \in 1..Len(attempts'[r]), k < Len(attempts'[r])
       PROVE  attempts'[r][k].status = "failed" /\ attempts'[r][k].reason \in Retryable
  <2>1. k \in 1..n BY <1>1, <1>14
  <2> QED BY <1>5, <2>1
<1>7. LedgerOf(r)' BY <1>1, <1>2, <1>3, <1>14 DEF LedgerOf, Terminal
<1>8. ProtectionOf(r)'
  <2>1. \A k \in 1..Len(attempts'[r]) :
           attempts'[r][k].pinned <=> attempts'[r][k].status \in Active
    BY <1>2, <1>5, <1>13 DEF Active
  <2>2. n + 1 \in 1..Len(attempts'[r]) BY <1>1
  <2> QED BY <1>1, <1>2, <1>6, <2>1, <2>2 DEF ProtectionOf
<1>9. FreshOf(r)' BY <1>1 DEF FreshOf
<1>10. BudgetOf(r)' BY <1>1, <1>6, MaxAttemptsAssumption DEF BudgetOf
<1>11. ReasonsOf(r)' BY <1>2, <1>5, <1>13 DEF ReasonsOf, Retryable, NoReason
<1>12. ChainOf(r)' /\ Len(checkpoints'[r]) <= NumChunks
  <2>1. status[r] \in Pending /\ ChainKept(r)
    BY DEF Begun, Claimable, RetryWaiting, WorkerLossAt, Pending
  <2> QED BY <1>1, <2>1, ChainAfter DEF n
<1> QED BY <1>1, <1>6, <1>7, <1>8, <1>9, <1>10, <1>11, <1>12 DEF RunAt

LEMMA ExtendedRun ==
    ASSUME Rows, NEW r \in Runs, RunAt(r), Extended(r)
    PROVE  RunAt(r)'
<1>1. /\ status[r] = "running" /\ status'[r] = status[r] /\ fence'[r] = fence[r]
      /\ attempts'[r] = attempts[r] /\ retained'[r] = retained[r]
  BY DEF Extended
<1>2. /\ LedgerOf(r)' /\ ProtectionOf(r)' /\ FreshOf(r)' /\ BudgetOf(r)' /\ ReasonsOf(r)'
  BY <1>1 DEF RunAt, LedgerOf, ProtectionOf, FreshOf, BudgetOf, ReasonsOf, Latest, RetryWaiting
<1> DEFINE rows == checkpoints[r]
           n == Len(attempts[r])
<1>3. /\ rows \in Seq(Nat) /\ n \in Nat /\ n > 0 /\ Len(rows) \in Nat
      /\ checkpoints'[r] = Append(rows, n) /\ committed'[r] = Len(rows) + 1
      /\ manifests \subseteq manifests' /\ <<r, Len(rows) + 1, n>> \in manifests'
      /\ Len(rows) < NumChunks
  BY <1>1, RowTypes DEF Extended, RunAt, LedgerOf
<1>4. /\ Readable(r, rows) /\ \A i, j \in 1..Len(rows) : i <= j => rows[i] <= rows[j]
      /\ \A i \in 1..Len(rows) : rows[i] \in 1..n
  BY <1>1 DEF RunAt, ChainOf, Pending
<1> HIDE DEF rows, n
<1> DEFINE t == Append(rows, n)
<1>5. /\ Len(t) = Len(rows) + 1 /\ t[Len(rows) + 1] = n
      /\ \A i \in 1..Len(rows) : t[i] = rows[i]
  BY <1>3
<1> HIDE DEF t
<1>6. checkpoints'[r] = t BY <1>3 DEF t
<1>12. \A i \in 1..Len(t) : i = Len(rows) + 1 \/ i \in 1..Len(rows) BY <1>3, <1>5
<1>7. \A i \in 1..Len(t) : t[i] \in 1..n BY <1>3, <1>4, <1>5, <1>12, SMTT(30)
<1>8. ASSUME NEW i \in 1..Len(t), NEW j \in 1..Len(t), i <= j PROVE t[i] <= t[j]
  <2>1. CASE j = Len(rows) + 1 BY <1>3, <1>5, <1>7, <2>1
  <2>2. CASE j \in 1..Len(rows)
    <3>1. i \in 1..Len(rows) BY <1>3, <1>8, <2>2
    <3> QED BY <1>4, <1>5, <1>8, <2>2, <3>1
  <2> QED BY <1>12, <2>1, <2>2
<1>9. ASSUME NEW i \in 1..Len(t) PROVE <<r, i, t[i]>> \in manifests'
  <2>1. CASE i = Len(rows) + 1 BY <1>3, <1>5, <2>1
  <2>2. CASE i \in 1..Len(rows)
    <3>1. t[i] = rows[i] /\ <<r, i, rows[i]>> \in manifests BY <1>4, <1>5, <2>2 DEF Readable
    <3> QED BY <1>3, <3>1
  <2> QED BY <1>12, <2>1, <2>2
<1>10. ChainOf(r)'
  <2>0. \A i \in 1..Len(checkpoints'[r]) : <<r, i, checkpoints'[r][i]>> \in manifests'
    BY <1>6, <1>9
  <2>1. Readable(r, checkpoints[r])' BY <2>0 DEF Readable
  <2>2. committed'[r] = Len(t) /\ Len(t) <= NumChunks BY <1>3, <1>5, NumChunksAssumption
  <2>3. attempts'[r] = attempts[r] BY <1>1
  <2>4. \A i, j \in 1..Len(t) : i <= j => t[i] <= t[j] BY <1>8
  <2> QED BY <1>6, <1>7, <2>1, <2>2, <2>3, <2>4 DEF ChainOf, n
<1>11. Len(checkpoints'[r]) <= NumChunks BY <1>3, <1>5, <1>6, NumChunksAssumption
<1> QED BY <1>2, <1>10, <1>11 DEF RunAt

LEMMA LeaseMovedRun ==
    ASSUME Rows, NEW r \in Runs, RunAt(r), LeaseMoved(r)
    PROVE  RunAt(r)' /\ (RetryWaiting(r)' <=> RetryWaiting(r))
<1>1. /\ status'[r] = status[r] /\ fence'[r] = fence[r] /\ retained'[r] = retained[r]
      /\ ChainKept(r) /\ Len(attempts'[r]) = Len(attempts[r]) /\ Len(attempts[r]) \in Nat
  BY RowTypes DEF LeaseMoved
<1>2. \A k \in 1..Len(attempts[r]) :
        /\ attempts'[r][k].status = attempts[r][k].status
        /\ attempts'[r][k].reason = attempts[r][k].reason
        /\ attempts'[r][k].fence = attempts[r][k].fence
        /\ attempts'[r][k].pinned = attempts[r][k].pinned
  BY DEF LeaseMoved
<1>3. Len(attempts[r]) > 0 =>
        /\ Latest(r)'.status = Latest(r).status /\ Latest(r)'.reason = Latest(r).reason
        /\ Latest(r)'.fence = Latest(r).fence
  BY <1>1, <1>2 DEF Latest
<1>4. RetryWaiting(r)' <=> RetryWaiting(r) BY <1>1, <1>3 DEF RetryWaiting
<1>5. LedgerOf(r)' BY <1>1, <1>2, <1>3, <1>4 DEF LedgerOf, RunAt, Terminal
<1>6. ProtectionOf(r)' BY <1>1, <1>2, <1>4 DEF ProtectionOf, RunAt
<1>7. FreshOf(r)' /\ BudgetOf(r)' /\ ReasonsOf(r)'
  BY <1>1, <1>2, <1>4 DEF FreshOf, BudgetOf, ReasonsOf, RunAt, ChainKept
<1>8. status'[r] \in Pending => ChainOf(r)' BY <1>1, ChainAfter
<1> QED BY <1>1, <1>4, <1>5, <1>6, <1>7, <1>8 DEF RunAt, ChainKept

LEMMA TurnKeepsRun ==
    ASSUME Rows, Rows', NEW r \in Runs, RunAt(r), Turn(r)
    PROVE  RunAt(r)'
BY SameRun, AdmittedRun, WithdrawnRun, StoppingRun, RemovedRun, ClosedRun, SuspendedRun,
   BegunRun, LeaseMovedRun DEF Turn

-----------------------------------------------------------------------------
(* Every action has an effect on one run and leaves the others as they are *)

Quiet == \A q \in Runs : Same(q)
Moves == Quiet \/ \E r \in Runs : Turn(r) /\ OthersSame(r)

LEMMA QuietStep == ASSUME UNCHANGED dbvars PROVE Quiet
BY DEF Quiet, Same, ChainKept, dbvars

\* Only the manifests of the run itself are released.
LEMMA ReleaseKeeps ==
    ASSUME Rows, NEW r \in Runs, ReleaseCheckpoints(r), NEW q \in Runs, q # r
    PROVE  /\ checkpoints'[q] = checkpoints[q] /\ checkpoints'[r] = <<>>
           /\ \A i, k \in Nat : <<q, i, k>> \in manifests => <<q, i, k>> \in manifests'
BY DEF Rows, ReleaseCheckpoints

LEMMA CommandMoves ==
    ASSUME Rows, NEW r \in Runs, Command(r)
    PROVE  Turn(r) /\ OthersSame(r)
<1>1. CASE Admit(r)
  <2>1. Admitted(r) BY <1>1 DEF Admit, Admitted, ChainKept, Rows
  <2>2. OthersSame(r) BY <1>1 DEF Admit, OthersSame, Same, ChainKept, Rows
  <2> QED BY <2>1, <2>2 DEF Turn
<1>2. CASE CancelWaiting(r)
  <2>3. /\ status' = [status EXCEPT ![r] = "cancelled"] /\ retained' = [retained EXCEPT ![r] = FALSE]
        /\ UNCHANGED <<attempts, checkpoints, committed, manifests>>
    BY <1>2 DEF CancelWaiting
  <2>5. status[r] = "queued" \/ (status[r] = "running" /\ RunningAttempts(r) = {})
    BY <1>2 DEF CancelWaiting
  <2>4. status'[r] = "cancelled" /\ retained'[r] = FALSE BY <2>3 DEF Rows
  <2>1. Withdrawn(r) BY <2>3, <2>4, <2>5 DEF Withdrawn, ChainKept
  <2>2. OthersSame(r) BY <1>2 DEF CancelWaiting, OthersSame, Same, ChainKept, Rows
  <2> QED BY <2>1, <2>2 DEF Turn
<1>3. CASE CancelRunning(r)
  <2>1. PICK n \in RunningAttempts(r) :
          attempts' = [attempts EXCEPT ![r][n].status = "cancelling", ![r][n].reason = "UserCancelled"]
    BY <1>3 DEF CancelRunning
  <2> DEFINE e == [attempts[r][n] EXCEPT !.status = "cancelling", !.reason = "UserCancelled"]
             t == [attempts[r] EXCEPT ![n] = e]
  <2>2. n \in 1..Len(attempts[r]) /\ attempts[r] \in Seq(Attempt) /\ attempts[r][n] \in Attempt
    BY DEF RunningAttempts, Rows
  <2>3. e \in Attempt BY <2>2 DEF Attempt, AttemptStatus, Reasons
  <2>4. /\ Len(t) = Len(attempts[r]) /\ t[n] = e
        /\ \A k \in 1..Len(attempts[r]) : k # n => t[k] = attempts[r][k]
    BY <2>2, <2>3, ExceptInSeq
  <2>5. attempts' = [attempts EXCEPT ![r] = t] BY <2>1 DEF Rows
  <2> HIDE DEF t
  <2>6. attempts'[r] = t /\ \A q \in Runs : q # r => attempts'[q] = attempts[q]
    BY <2>5 DEF Rows
  <2>7. /\ status[r] = "running" /\ status' = [status EXCEPT ![r] = "cancelling"]
        /\ fence' = [fence EXCEPT ![r] = @ + 1]
        /\ UNCHANGED <<checkpoints, committed, retained, manifests>>
    BY <1>3 DEF CancelRunning
  <2>8. status'[r] = "cancelling" /\ fence'[r] = fence[r] + 1 BY <2>7 DEF Rows
  <2>9. Stopping(r) BY <2>4, <2>6, <2>7, <2>8 DEF Stopping, ChainKept, e
  <2>10. OthersSame(r) BY <2>6, <2>7 DEF OthersSame, Same, ChainKept, Rows
  <2> QED BY <2>9, <2>10 DEF Turn
<1>4. CASE Delete(r)
  <2>1. Removed(r) BY <1>4 DEF Delete, Removed, Rows
  <2>2. OthersSame(r) BY <1>4 DEF Delete, OthersSame, Same, ChainKept, Rows
  <2> QED BY <2>1, <2>2 DEF Turn
<1> QED BY <1>1, <1>2, <1>3, <1>4 DEF Command

\* A lease that moves touches nothing else.
LEMMA LeaseMoves ==
    ASSUME Rows, NEW r \in Runs, NEW n \in 1..Len(attempts[r]), NEW l \in Leases,
           attempts' = [attempts EXCEPT ![r][n].lease = l],
           UNCHANGED <<status, fence, checkpoints, committed, retained, manifests, result>>
    PROVE  Turn(r) /\ OthersSame(r)
<1>1. /\ Len(attempts'[r]) = Len(attempts[r])
      /\ \A q \in Runs : q # r => attempts'[q] = attempts[q]
      /\ attempts'[r][n] = [attempts[r][n] EXCEPT !.lease = l]
      /\ \A k \in 1..Len(attempts[r]) : k # n => attempts'[r][k] = attempts[r][k]
  <2>1. attempts \in [Runs -> Seq(Attempt)] BY DEF Rows
  <2> QED BY <2>1, LeaseRow
<1>2. attempts[r][n] \in Attempt BY DEF Rows
<1>3. LeaseMoved(r) BY <1>1, <1>2 DEF LeaseMoved, ChainKept, Attempt
<1>4. OthersSame(r) BY <1>1 DEF OthersSame, Same, ChainKept
<1> QED BY <1>3, <1>4 DEF Turn

LEMMA LeaseTickMoves ==
    ASSUME Rows, NEW r \in Runs, LeaseTick(r)
    PROVE  Turn(r) /\ OthersSame(r)
<1>1. PICK n \in 1..Len(attempts[r]) :
        attempts' = [attempts EXCEPT ![r][n].lease = IF @ = "live" THEN "due" ELSE "expired"]
  BY DEF LeaseTick
<1>2. PICK l \in Leases : attempts' = [attempts EXCEPT ![r][n].lease = l]
  BY <1>1 DEF Leases, Rows
<1> QED BY <1>2, LeaseMoves DEF LeaseTick

\* The step that ends a run.
LEMMA CloseMoves ==
    ASSUME Rows, NEW r \in Runs, NEW n \in 1..Len(attempts[r]), NEW s \in Terminal,
           NEW why \in Reasons \cup {NoReason}, why # "CheckpointIntegrity",
           FinishAttempt(r, n, s, why), ReleaseCheckpoints(r),
           status' = [status EXCEPT ![r] = s], UNCHANGED <<fence, committed, retained>>,
           \/ status[r] = "running" /\ attempts[r][n].status = "running" /\ s = "failed"
           \/ /\ status[r] = "running" /\ attempts[r][n].status = "running" /\ s = "succeeded"
              /\ result'[r] = checkpoints[r] /\ Len(checkpoints[r]) = NumChunks
           \/ status[r] = "cancelling" /\ attempts[r][n].status = "cancelling" /\ s = "cancelled"
    PROVE  Turn(r) /\ OthersSame(r)
<1>1. s \in AttemptStatus BY DEF Terminal, AttemptStatus
<1>2. /\ \A q \in Runs : Len(attempts'[q]) = Len(attempts[q])
      /\ \A q \in Runs : q # r => attempts'[q] = attempts[q]
      /\ attempts'[r][n] = Finished(attempts[r][n], s, why)
      /\ \A k \in 1..Len(attempts[r]) : k # n => attempts'[r][k] = attempts[r][k]
  BY <1>1, FinishRow DEF Rows
<1>3. Ends(r, n, s, why) BY <1>2 DEF Ends
<1>4. checkpoints'[r] = <<>> BY DEF ReleaseCheckpoints, Rows
<1>5. /\ status'[r] = s /\ \A q \in Runs : q # r => status'[q] = status[q]
      /\ retained' = retained /\ fence' = fence /\ committed' = committed
  BY DEF Rows
<1>6. Closed(r) BY <1>3, <1>4, <1>5 DEF Closed
<1>7. OthersSame(r)
  <2>1. \A q \in Runs : q # r => ChainKept(q) BY <1>5, ReleaseKeeps DEF ChainKept
  <2> QED BY <1>2, <1>5, <2>1 DEF OthersSame, Same
<1> QED BY <1>6, <1>7 DEF Turn

LEMMA RecoverMoves ==
    ASSUME Rows, NEW w \in Workers, RecoverCancelledAttempt(w)
    PROVE  Moves
<1>1. PICK r \in Runs : \E n \in 1..Len(attempts[r]) :
          /\ Recoverable(r, n)
          /\ status' = [status EXCEPT ![r] = "cancelled"]
          /\ FinishAttempt(r, n, "cancelled", "UserCancelled")
          /\ ReleaseCheckpoints(r)
  BY DEF RecoverCancelledAttempt
<1>2. PICK n \in 1..Len(attempts[r]) :
          /\ Recoverable(r, n)
          /\ status' = [status EXCEPT ![r] = "cancelled"]
          /\ FinishAttempt(r, n, "cancelled", "UserCancelled")
          /\ ReleaseCheckpoints(r)
  BY <1>1
<1>3. /\ status[r] = "cancelling" /\ attempts[r][n].status = "cancelling"
      /\ UNCHANGED <<fence, committed, retained>>
  BY <1>2 DEF Recoverable, RecoverCancelledAttempt
<1>4. "cancelled" \in Terminal /\ "UserCancelled" \in Reasons BY DEF Terminal, Reasons
<1>5. Turn(r) /\ OthersSame(r) BY <1>2, <1>3, <1>4, CloseMoves
<1> QED BY <1>5 DEF Moves

LEMMA FinishLossMoves ==
    ASSUME Rows, Local, NEW w \in Workers, FinishExhaustedWorkerLoss(w)
    PROVE  Moves
<1> DEFINE r == claim[w].run
           n == claim[w].attempt
<1>1. r \in Runs BY DEF FinishExhaustedWorkerLoss, Local, ClaimShape, ShapeAt
<1>2. CASE StillLost(r, n)
  <2>1. /\ n \in 1..Len(attempts[r]) /\ status[r] = "running" /\ attempts[r][n].status = "running"
        /\ FinishAttempt(r, n, "failed", "WorkerLost") /\ ReleaseCheckpoints(r)
        /\ status' = [status EXCEPT ![r] = "failed"]
        /\ UNCHANGED <<fence, committed, retained>>
    BY <1>2 DEF StillLost, FinishExhaustedWorkerLoss
  <2>2. "failed" \in Terminal /\ "WorkerLost" \in Reasons BY DEF Terminal, Reasons, Retryable
  <2> HIDE DEF r, n
  <2>3. Turn(r) /\ OthersSame(r) BY <1>1, <2>1, <2>2, CloseMoves
  <2> QED BY <1>1, <2>3 DEF Moves
<1>3. CASE ~ StillLost(r, n)
  BY <1>3, QuietStep DEF FinishExhaustedWorkerLoss, Moves
<1> QED BY <1>2, <1>3

LEMMA ConfirmMoves ==
    ASSUME Rows, Local, NEW w \in Workers, ConfirmCancelled(w)
    PROVE  Moves
<1> DEFINE r == claim[w].run
           n == claim[w].attempt
<1>1. r \in Runs BY DEF ConfirmCancelled, Local, ClaimShape, ShapeAt
<1>2. CASE CancellationPending(claim[w])
  <2>1. /\ n \in 1..Len(attempts[r]) /\ status[r] = "cancelling"
        /\ attempts[r][n].status = "cancelling"
        /\ FinishAttempt(r, n, "cancelled", "UserCancelled") /\ ReleaseCheckpoints(r)
        /\ status' = [status EXCEPT ![r] = "cancelled"]
        /\ UNCHANGED <<fence, committed, retained>>
    BY <1>2 DEF CancellationPending, ConfirmCancelled
  <2>2. "cancelled" \in Terminal /\ "UserCancelled" \in Reasons BY DEF Terminal, Reasons
  <2> HIDE DEF r, n
  <2>3. Turn(r) /\ OthersSame(r) BY <1>1, <2>1, <2>2, CloseMoves
  <2> QED BY <1>1, <2>3 DEF Moves
<1>3. CASE ~ CancellationPending(claim[w])
  BY <1>3, QuietStep DEF ConfirmCancelled, Moves
<1> QED BY <1>2, <1>3

LEMMA ClaimMoves ==
    ASSUME Rows, Local, \A q \in Runs : RunAt(q), NEW w \in Workers, ClaimNext(w)
    PROVE  Moves
<1>1. PICK r \in Runs :
             /\ Claimable(r)
             /\ WorkerLossAt(r) => attempt_retry_eligible("WorkerLost", Len(attempts[r]))
             /\ status' = [status EXCEPT ![r] = "running"]
             /\ fence' = [fence EXCEPT ![r] = @ + 1]
             /\ retained' = [retained EXCEPT ![r] = FALSE]
             /\ \A q \in Runs : q # r => attempts'[q] = attempts[q]
             /\ Len(attempts'[r]) = Len(attempts[r]) + 1
             /\ attempts'[r][Len(attempts[r]) + 1] = NewAttempt(fence[r] + 1)
             /\ \A k \in 1..Len(attempts[r]) :
                  attempts'[r][k] = IF WorkerLossAt(r) /\ k = Len(attempts[r])
                                    THEN Finished(attempts[r][k], "failed", "WorkerLost")
                                    ELSE attempts[r][k]
  BY ClaimRows
<1>2. UNCHANGED <<checkpoints, committed, manifests>> BY DEF ClaimNext
<1>3. Len(attempts[r]) < MaxAttempts
  <2>1. CASE status[r] = "queued" BY <2>1, MaxAttemptsAssumption DEF RunAt, LedgerOf
  <2>2. CASE RetryWaiting(r) BY <2>2 DEF RunAt, BudgetOf
  <2>3. CASE WorkerLossAt(r) BY <1>1, <2>3 DEF attempt_retry_eligible, Retryable
  <2> QED BY <1>1, <2>1, <2>2, <2>3 DEF Claimable
<1>4. /\ status'[r] = "running" /\ fence'[r] = fence[r] + 1 /\ retained'[r] = FALSE
      /\ \A q \in Runs : q # r =>
            status'[q] = status[q] /\ fence'[q] = fence[q] /\ retained'[q] = retained[q]
  BY <1>1 DEF Rows
<1>5. Begun(r) BY <1>1, <1>2, <1>3, <1>4 DEF Begun, ChainKept
<1>6. OthersSame(r) BY <1>1, <1>2, <1>4 DEF OthersSame, Same, ChainKept
<1> QED BY <1>5, <1>6 DEF Turn, Moves

\* An owner holds the latest attempt, and that attempt runs.
LEMMA OwnerIsLatest ==
    ASSUME Rows, NEW c, c.run \in Runs, RunAt(c.run), Owned(c)
    PROVE  /\ status[c.run] = "running" /\ c.attempt = Len(attempts[c.run])
           /\ c.attempt \in 1..Len(attempts[c.run])
           /\ attempts[c.run][c.attempt].status = "running"
           /\ Latest(c.run).status = "running" /\ ~ RetryWaiting(c.run)
<1>1. /\ status[c.run] = "running" /\ c.attempt \in 1..Len(attempts[c.run])
      /\ attempts[c.run][c.attempt].status = "running"
  BY DEF Owned
<1>2. c.attempt = Len(attempts[c.run]) /\ Latest(c.run) = attempts[c.run][c.attempt]
  BY <1>1, ActiveIsLatest DEF RunAt, Active
<1> QED BY <1>1, <1>2 DEF RetryWaiting

LEMMA CurrentIsOwned == ASSUME NEW c, Current(c) PROVE Owned(c)
BY DEF Current, Owned

LEMMA RecordFailureMoves ==
    ASSUME Rows, Local, \A q \in Runs : RunAt(q), NEW w \in Workers, FactsAt(w), RecordFailure(w)
    PROVE  Moves
<1> DEFINE c == claim[w]
           r == c.run
           n == c.attempt
           why == c.reason
<1>1. r \in Runs /\ why \in Reasons \cup {NoReason}
  BY DEF RecordFailure, Local, ClaimShape, ShapeAt, Claim
<1>2. CASE ~ Owned(c) BY <1>2, QuietStep DEF RecordFailure, Moves
<1>3. CASE Owned(c)
  <2>1. /\ status[r] = "running" /\ n = Len(attempts[r]) /\ n \in 1..Len(attempts[r])
        /\ attempts[r][n].status = "running"
    BY <1>1, <1>3, OwnerIsLatest
  <2>2. /\ FinishAttempt(r, n, "failed", why)
        /\ AfterFailure(r, attempt_retry_eligible(why, Len(attempts[r])))
        /\ UNCHANGED <<fence, committed, result>> /\ pc[w] = "failing"
    BY <1>3 DEF RecordFailure
  <2>3. why # "CheckpointIntegrity" BY <1>3, <2>2 DEF FactsAt
  <2>4. CASE attempt_retry_eligible(why, Len(attempts[r]))
    <3>1. /\ retained' = [retained EXCEPT ![r] = TRUE]
          /\ UNCHANGED <<status, checkpoints, manifests>>
      BY <2>2, <2>4 DEF AfterFailure
    <3>2. Len(attempts[r]) \in Nat BY <1>1, RowTypes
    <3>3. why \in Retryable /\ Len(attempts[r]) < MaxAttempts
      BY <2>1, <2>4, <3>2 DEF attempt_retry_eligible
    <3> HIDE DEF c, r, n, why
    <3>4. "failed" \in AttemptStatus /\ attempts \in [Runs -> Seq(Attempt)]
      BY DEF AttemptStatus, Rows
    <3>5. /\ \A q \in Runs : Len(attempts'[q]) = Len(attempts[q])
          /\ \A q \in Runs : q # r => attempts'[q] = attempts[q]
          /\ attempts'[r][n] = Finished(attempts[r][n], "failed", why)
          /\ \A k \in 1..Len(attempts[r]) : k # n => attempts'[r][k] = attempts[r][k]
      BY <1>1, <2>1, <2>2, <3>4, FinishRow
    <3>6. Ends(r, n, "failed", why) BY <1>1, <3>5 DEF Ends
    <3>7. retained'[r] = TRUE /\ \A q \in Runs : q # r => retained'[q] = retained[q]
      BY <1>1, <3>1 DEF Rows
    <3>8. Suspended(r) BY <2>1, <2>2, <3>1, <3>3, <3>6, <3>7 DEF Suspended, ChainKept
    <3>9. OthersSame(r) BY <2>2, <3>1, <3>5, <3>7 DEF OthersSame, Same, ChainKept
    <3> QED BY <1>1, <3>8, <3>9 DEF Turn, Moves
  <2>5. CASE ~ attempt_retry_eligible(why, Len(attempts[r]))
    <3>1. /\ status' = [status EXCEPT ![r] = "failed"]
          /\ ReleaseCheckpoints(r) /\ UNCHANGED <<fence, committed, retained>>
      BY <2>2, <2>5 DEF AfterFailure
    <3>2. "failed" \in Terminal BY DEF Terminal
    <3> HIDE DEF c, r, n, why
    <3>3. Turn(r) /\ OthersSame(r)
      BY <1>1, <2>1, <2>2, <2>3, <3>1, <3>2, CloseMoves
    <3> QED BY <1>1, <3>3 DEF Moves
  <2> QED BY <2>4, <2>5
<1> QED BY <1>2, <1>3

LEMMA PublishMoves ==
    ASSUME Rows, Local, \A q \in Runs : RunAt(q), NEW w \in Workers, FactsAt(w), PublishSuccess(w)
    PROVE  Moves
<1> DEFINE c == claim[w]
           r == c.run
           n == c.attempt
<1>1. r \in Runs BY DEF PublishSuccess, Local, ClaimShape, ShapeAt
<1>2. CASE ~ Current(c) BY <1>2, QuietStep DEF PublishSuccess, Moves
<1>3. CASE Current(c)
  <2>1. Owned(c) BY <1>3, CurrentIsOwned
  <2>2. /\ status[r] = "running" /\ n \in 1..Len(attempts[r])
        /\ attempts[r][n].status = "running"
    BY <1>1, <2>1, OwnerIsLatest
  <2>3. /\ status' = [status EXCEPT ![r] = "succeeded"] /\ pc[w] = "publishing"
        /\ result' = [result EXCEPT ![r] = c.prior]
        /\ FinishAttempt(r, n, "succeeded", NoReason) /\ ReleaseCheckpoints(r)
        /\ UNCHANGED <<fence, committed, retained>>
    BY <1>3 DEF PublishSuccess
  <2>4. c.prior = checkpoints[r] /\ Len(c.prior) = NumChunks BY <2>1, <2>3 DEF FactsAt
  <2>5. result'[r] = checkpoints[r] /\ Len(checkpoints[r]) = NumChunks
    BY <1>1, <2>3, <2>4 DEF Rows
  <2>6. "succeeded" \in Terminal /\ NoReason # "CheckpointIntegrity"
    BY DEF Terminal, NoReason
  <2> HIDE DEF c, r, n
  <2>7. Turn(r) /\ OthersSame(r) BY <1>1, <2>2, <2>3, <2>5, <2>6, CloseMoves
  <2> QED BY <1>1, <2>7 DEF Moves
<1> QED BY <1>2, <1>3

LEMMA CommitMoves ==
    ASSUME Rows, Local, \A q \in Runs : RunAt(q), NEW w \in Workers, FactsAt(w), CommitChunk(w)
    PROVE  \/ Quiet
           \/ /\ Owned(claim[w]) /\ claim[w].run \in Runs
              /\ Extended(claim[w].run) /\ OthersSame(claim[w].run)
<1> DEFINE c == claim[w]
           r == c.run
<1>1. r \in Runs BY DEF CommitChunk, Local, ClaimShape, ShapeAt
<1>2. CASE ~ (Current(c) /\ checkpoints[r] = c.prior)
  <2>1. UNCHANGED dbvars BY <1>2 DEF CommitChunk, dbvars
  <2> QED BY <2>1, QuietStep
<1>3. CASE Current(c) /\ checkpoints[r] = c.prior
  <2>1. Owned(c) BY <1>3, CurrentIsOwned
  <2>2. /\ status[r] = "running" /\ c.attempt = Len(attempts[r])
        /\ Latest(r).status = "running"
    BY <1>1, <2>1, OwnerIsLatest
  <2>3. /\ checkpoints' = [checkpoints EXCEPT ![r] = Append(@, c.attempt)]
        /\ manifests' = manifests \cup {<<r, c.chunk, c.attempt>>}
        /\ committed' = [committed EXCEPT ![r] = c.chunk] /\ pc[w] = "committing"
        /\ UNCHANGED <<status, fence, attempts, retained, result>>
    BY <1>3 DEF CommitChunk
  <2>4. c.chunk = Len(checkpoints[r]) + 1 /\ c.chunk \in 1..NumChunks
    BY <1>3, <2>3 DEF FactsAt
  <2>5. Len(checkpoints[r]) \in Nat BY <1>1 DEF Rows
  <2> HIDE DEF c, r
  <2>6. /\ checkpoints'[r] = Append(checkpoints[r], c.attempt) /\ committed'[r] = c.chunk
        /\ \A q \in Runs : q # r => checkpoints'[q] = checkpoints[q] /\ committed'[q] = committed[q]
    BY <1>1, <2>3 DEF Rows
  <2>7. Len(checkpoints[r]) < NumChunks BY <2>4, <2>5, NumChunksAssumption
  <2>8. /\ manifests \subseteq manifests'
        /\ <<r, Len(checkpoints[r]) + 1, Len(attempts[r])>> \in manifests'
    BY <2>2, <2>3, <2>4
  <2>9. Extended(r) BY <2>2, <2>3, <2>4, <2>6, <2>7, <2>8 DEF Extended
  <2>10. OthersSame(r) BY <2>3, <2>6 DEF OthersSame, Same, ChainKept
  <2> QED BY <1>1, <2>1, <2>9, <2>10 DEF c, r
<1> QED BY <1>2, <1>3

LEMMA HeartbeatMoves ==
    ASSUME Rows, Local, NEW w \in Workers, Heartbeat(w) \/ HeartbeatFails(w)
    PROVE  Moves
<1> DEFINE c == claim[w]
<1>1. c.run \in Runs
  BY DEF Heartbeat, HeartbeatFails, Local, ClaimShape, ShapeAt, NoClaim, ClaimOf
<1>2. CASE Heartbeat(w) /\ Current(c)
  <2>1. /\ c.attempt \in 1..Len(attempts[c.run])
        /\ attempts' = [attempts EXCEPT ![c.run][c.attempt].lease = "live"]
        /\ UNCHANGED <<status, fence, checkpoints, committed, retained, manifests, result>>
    BY <1>2 DEF Heartbeat, Current
  <2>2. "live" \in Leases BY DEF Leases
  <2> HIDE DEF c
  <2>3. Turn(c.run) /\ OthersSame(c.run) BY <1>1, <2>1, <2>2, LeaseMoves
  <2> QED BY <1>1, <2>3 DEF Moves
<1>3. CASE HeartbeatFails(w) \/ ~ Current(c)
  <2>1. UNCHANGED dbvars BY <1>3 DEF Heartbeat, HeartbeatFails, dbvars
  <2> QED BY <2>1, QuietStep DEF Moves
<1> QED BY <1>2, <1>3

-----------------------------------------------------------------------------
(* What a Worker knows survives the steps of the others *)

\* Owned, in the next state, for a claim that does not change.
OwnedAfter(c) ==
    /\ status'[c.run] = "running" /\ fence'[c.run] = c.fence
    /\ c.attempt \in 1..Len(attempts'[c.run])
    /\ attempts'[c.run][c.attempt].fence = c.fence
    /\ attempts'[c.run][c.attempt].status = "running"

\* Whoever still owns a run owned it before, and its chain is the one it read.
LEMMA OwnerUndisturbed ==
    ASSUME Rows, NEW c \in Claim, c.run \in Runs, RunAt(c.run), Turn(c.run),
           c.fence <= fence[c.run], OwnedAfter(c)
    PROVE  Owned(c) /\ checkpoints'[c.run] = checkpoints[c.run]
<1> DEFINE r == c.run
<1>0. c.fence \in Nat /\ r \in Runs /\ Rows /\ fence[r] \in Nat BY RowTypes DEF Claim
<1>1. status'[r] = "running" /\ fence'[r] = c.fence BY DEF OwnedAfter
<1>2. CASE Same(r) BY <1>2 DEF Same, ChainKept, Owned, OwnedAfter
<1>3. ~ Admitted(r) /\ ~ Withdrawn(r) /\ ~ Stopping(r) /\ ~ Removed(r)
  BY <1>1 DEF Admitted, Withdrawn, Stopping, Removed
<1>4. ~ Closed(r) BY <1>1 DEF Closed
<1>5. CASE Suspended(r)
  <2>1. PICK n \in 1..Len(attempts[r]), why \in Retryable :
          attempts[r][n].status = "running" /\ Ends(r, n, "failed", why)
    BY <1>5 DEF Suspended
  <2>2. EndedRowIs(r, n, "failed", why) BY <2>1, EndedRow DEF Active
  <2>3. /\ attempts'[r][n].status = "failed" /\ Len(attempts'[r]) = Len(attempts[r])
        /\ \A k \in 1..Len(attempts[r]) : k # n => attempts'[r][k] = attempts[r][k]
    BY <2>2 DEF EndedRowIs
  <2>4. c.attempt \in 1..Len(attempts[r]) /\ c.attempt # n BY <2>3 DEF OwnedAfter
  <2>5. attempts'[r][c.attempt] = attempts[r][c.attempt] BY <2>3, <2>4
  <2> QED BY <1>5, <2>4, <2>5 DEF Suspended, ChainKept, Owned, OwnedAfter
<1>6. ~ Begun(r) BY <1>0, <1>1 DEF Begun
<1>7. CASE LeaseMoved(r) BY <1>7 DEF LeaseMoved, ChainKept, Owned, OwnedAfter
<1> QED BY <1>2, <1>3, <1>4, <1>5, <1>6, <1>7 DEF Turn

\* Two Workers never own one run.
LEMMA OwnersDiffer ==
    ASSUME FenceInv, NEW v \in Workers, NEW w \in Workers, v # w,
           pc[v] \notin Away, pc[w] \notin Away, claim[v].run = claim[w].run, Owned(claim[w])
    PROVE  ~ Owned(claim[v])
<1>1. claim[v].fence # 0 /\ claim[w].fence # 0 BY DEF FenceInv, ClaimShape, ShapeAt, Away
<1> QED BY <1>1 DEF FenceInv, ClaimsDistinct, Owned

Steady(v) ==
    /\ pc'[v] = pc[v]
    /\ claim'[v].run = claim[v].run /\ claim'[v].attempt = claim[v].attempt
    /\ claim'[v].fence = claim[v].fence /\ claim'[v].chunk = claim[v].chunk
    /\ claim'[v].prior = claim[v].prior /\ claim'[v].reason = claim[v].reason

LEMMA FactsKept ==
    ASSUME RunInv, NEW v \in Workers, Steady(v),
           \A q \in Runs : \/ Turn(q)
                           \/ /\ status'[q] = status[q] /\ fence'[q] = fence[q]
                              /\ attempts'[q] = attempts[q]
                              /\ claim[v].run = q /\ pc[v] \notin Away => ~ Owned(claim[v])
    PROVE  FactsAt(v)'
<1> DEFINE c == claim[v]
<1>1. Rows /\ Local BY TypeSplit DEF RunInv, FenceInv
<1>2. FactsAt(v) /\ c \in Claim BY <1>1 DEF RunInv, Local
<1>3. ASSUME pc[v] \notin Away, OwnedAfter(c)
      PROVE  Owned(c) /\ checkpoints'[c.run] = checkpoints[c.run]
  <2>1. c.run \in Runs /\ c.fence <= fence[c.run]
    BY <1>1, <1>3 DEF Local, ClaimShape, ShapeAt, Away
  <2>2. CASE Turn(c.run)
    <3>1. RunAt(c.run) BY <2>1 DEF RunInv
    <3> HIDE DEF c
    <3> QED BY <1>1, <1>2, <1>3, <2>1, <2>2, <3>1, OwnerUndisturbed
  <2>3. CASE ~ Turn(c.run)
    <3>1. /\ status'[c.run] = status[c.run] /\ fence'[c.run] = fence[c.run]
          /\ attempts'[c.run] = attempts[c.run] /\ ~ Owned(c)
      BY <1>3, <2>1, <2>3
    <3> QED BY <1>3, <3>1 DEF Owned, OwnedAfter
  <2> QED BY <2>2, <2>3
<1>4. Owned(claim[v])' => OwnedAfter(c) BY DEF Steady, Owned, OwnedAfter
<1> HIDE DEF c
<1>5. /\ pc'[v] = pc[v] /\ claim'[v].run = c.run /\ claim'[v].chunk = c.chunk
      /\ claim'[v].prior = c.prior /\ claim'[v].reason = c.reason
  BY DEF Steady, c
<1>6. pc[v] \in {"verifying", "assembling", "publishing", "failing"} => pc[v] \notin Away
  BY DEF Away
<1>7. /\ Len(c.prior) <= NumChunks
      /\ pc[v] \in {"computing", "committing"} => c.chunk \in 1..NumChunks
      /\ pc[v] = "committing" => c.chunk = Len(c.prior) + 1
      /\ pc[v] = "publishing" => Len(c.prior) = NumChunks
      /\ pc[v] \in {"verifying", "assembling", "publishing"} /\ Owned(c) =>
            c.prior = checkpoints[c.run]
      /\ pc[v] = "failing" /\ c.reason = "CheckpointIntegrity" => ~ Owned(c)
  BY <1>2 DEF FactsAt, c
<1>8. pc'[v] \in {"verifying", "assembling", "publishing"} /\ Owned(claim[v])' =>
        c.prior = checkpoints'[c.run]
  BY <1>3, <1>4, <1>5, <1>6, <1>7
<1>9. pc'[v] = "failing" /\ c.reason = "CheckpointIntegrity" => ~ Owned(claim[v])'
  BY <1>3, <1>4, <1>5, <1>6, <1>7
<1> QED BY <1>5, <1>7, <1>8, <1>9 DEF FactsAt

-----------------------------------------------------------------------------
(* What a Worker knows after its own step *)

\* Places where only the length of the chain it read matters.
LEMMA PlainFacts ==
    ASSUME NEW w \in Workers, Len(claim'[w].prior) <= NumChunks,
           pc'[w] \in {"idle", "claiming", "exhausted", "claimed", "finalizing", "settling", "confirming"}
    PROVE  FactsAt(w)'
BY DEF FactsAt

LEMMA OwnedSame ==
    ASSUME NEW w \in Workers, UNCHANGED dbvars, claim'[w].run = claim[w].run,
           claim'[w].attempt = claim[w].attempt, claim'[w].fence = claim[w].fence
    PROVE  Owned(claim[w])' <=> Owned(claim[w])
BY DEF Owned, dbvars

LEMMA NoClaimPrior == Len(NoClaim.prior) = 0 BY DEF NoClaim, ClaimOf

\* The Worker takes or gives up a claim.
LEMMA TakingFacts ==
    ASSUME RunInv, NEW w \in Workers,
           \/ NothingToRecover(w) \/ ClaimNext(w) \/ ClaimExhausted(w) \/ ClaimNothing(w)
           \/ FinishExhaustedWorkerLoss(w) \/ ConfirmCancelled(w) \/ Crash(w)
    PROVE  FactsAt(w)'
<1>1. Rows /\ Local /\ FactsAt(w) BY TypeSplit DEF RunInv, FenceInv
<1>2. Len(NoClaim.prior) <= NumChunks BY NoClaimPrior, NumChunksAssumption
<1>3. pc'[w] \in {"idle", "claiming", "exhausted", "claimed"}
  BY <1>1 DEF NothingToRecover, ClaimNext, ClaimExhausted, ClaimNothing, FinishExhaustedWorkerLoss,
              ConfirmCancelled, Crash, Return, Goto, Local
<1>4. Len(claim'[w].prior) <= NumChunks
  <2>1. CASE ClaimNothing(w) \/ FinishExhaustedWorkerLoss(w) \/ ConfirmCancelled(w) \/ Crash(w)
    BY <1>1, <1>2, <2>1 DEF ClaimNothing, FinishExhaustedWorkerLoss, ConfirmCancelled, Crash,
                            Return, Local
  <2>2. CASE NothingToRecover(w)
    BY <1>1, <2>2 DEF NothingToRecover, FactsAt
  <2>3. CASE ClaimNext(w) \/ ClaimExhausted(w)
    <3>1. PICK r \in Runs, n \in Nat, f \in Nat, b \in BOOLEAN :
             claim' = [claim EXCEPT ![w] = ClaimOf(r, n, f, b)]
      <4>1. CASE ClaimNext(w)
        <5>1. PICK r \in Runs :
                claim' = [claim EXCEPT ![w] = ClaimOf(r, Len(attempts[r]) + 1, fence[r] + 1, TRUE)]
          BY <4>1 DEF ClaimNext
        <5>2. Len(attempts[r]) + 1 \in Nat /\ fence[r] + 1 \in Nat BY <1>1 DEF Rows
        <5> QED BY <5>1, <5>2
      <4>2. CASE ClaimExhausted(w)
        <5>1. PICK r \in Runs :
                claim' = [claim EXCEPT ![w] = ClaimOf(r, Len(attempts[r]), 0, FALSE)]
          BY <4>2 DEF ClaimExhausted
        <5>2. Len(attempts[r]) \in Nat BY <1>1 DEF Rows
        <5> QED BY <5>1, <5>2
      <4> QED BY <2>3, <4>1, <4>2
    <3>2. claim'[w].prior = <<>> BY <1>1, <3>1 DEF ClaimOf, Local
    <3> QED BY <3>2, NumChunksAssumption
  <2> QED BY <2>1, <2>2, <2>3
<1> QED BY <1>3, <1>4, PlainFacts

LEMMA ReadCheckpointsFacts ==
    ASSUME RunInv, NEW w \in Workers, ReadCheckpoints(w)
    PROVE  FactsAt(w)'
<1> DEFINE c == claim[w]
           r == c.run
<1>1. Rows /\ Local /\ FactsAt(w) BY TypeSplit DEF RunInv, FenceInv
<1>2. c \in Claim /\ r \in Runs BY <1>1 DEF ReadCheckpoints, Local, ClaimShape, ShapeAt
<1>3. RunAt(r) /\ Len(checkpoints[r]) <= NumChunks BY <1>2 DEF RunInv, RunAt
<1>4. UNCHANGED dbvars BY DEF ReadCheckpoints
<1>5. CASE pc' = [pc EXCEPT ![w] = "computing"] /\ claim' = [claim EXCEPT ![w].chunk = 1]
  <2>1. pc'[w] = "computing" /\ claim'[w].chunk = 1 /\ claim'[w].prior = c.prior
    BY <1>1, <1>2, <1>5 DEF Local, Claim
  <2> QED BY <1>1, <2>1, NumChunksAssumption DEF FactsAt
<1>6. CASE pc' = [pc EXCEPT ![w] = "verifying"] /\ claim' = [claim EXCEPT ![w].prior = checkpoints[r]]
  <2>1. pc'[w] = "verifying" /\ claim'[w].prior = checkpoints[r] /\ claim'[w].run = r
    BY <1>1, <1>2, <1>6 DEF Local, Claim
  <2>2. checkpoints' = checkpoints BY <1>4 DEF dbvars
  <2> QED BY <1>3, <2>1, <2>2 DEF FactsAt
<1>7. CASE /\ pc' = [pc EXCEPT ![w] = "failing"] /\ committed[r] # Len(checkpoints[r])
           /\ claim' = [claim EXCEPT ![w].reason = "CheckpointIntegrity"]
  <2>1. /\ pc'[w] = "failing" /\ claim'[w].prior = c.prior /\ claim'[w].run = r
        /\ claim'[w].attempt = c.attempt /\ claim'[w].fence = c.fence
    BY <1>1, <1>2, <1>7 DEF Local, Claim
  <2>2. ~ Owned(c) BY <1>3, <1>7 DEF Owned, RunAt, ChainOf, Pending
  <2>3. ~ Owned(claim[w])' BY <1>4, <2>1, <2>2, OwnedSame
  <2> QED BY <1>1, <2>1, <2>3 DEF FactsAt
<1> QED BY <1>5, <1>6, <1>7 DEF ReadCheckpoints, Goto

LEMMA VerifyFacts ==
    ASSUME RunInv, NEW w \in Workers, VerifyCheckpoints(w)
    PROVE  FactsAt(w)'
<1> DEFINE c == claim[w]
           r == c.run
<1>1. Rows /\ Local /\ FactsAt(w) BY TypeSplit DEF RunInv, FenceInv
<1>2. c \in Claim /\ r \in Runs BY <1>1 DEF VerifyCheckpoints, Local, ClaimShape, ShapeAt
<1>3. RunAt(r) BY <1>2 DEF RunInv
<1>4. UNCHANGED dbvars /\ pc[w] = "verifying" BY DEF VerifyCheckpoints
<1>5. Len(c.prior) \in Nat /\ Len(c.prior) <= NumChunks BY <1>1, <1>2 DEF FactsAt, Claim
<1>6. CASE Readable(r, c.prior)
  <2>1. /\ claim' = [claim EXCEPT ![w].chunk = Len(c.prior) + 1]
        /\ pc' = [pc EXCEPT ![w] = IF Len(c.prior) = NumChunks THEN "finalizing" ELSE "computing"]
    BY <1>6 DEF VerifyCheckpoints, Goto
  <2>2. /\ claim'[w].chunk = Len(c.prior) + 1 /\ claim'[w].prior = c.prior
        /\ pc'[w] = IF Len(c.prior) = NumChunks THEN "finalizing" ELSE "computing"
    BY <1>1, <1>2, <2>1 DEF Local, Claim
  <2>3. CASE Len(c.prior) = NumChunks BY <1>5, <2>2, <2>3, PlainFacts
  <2>4. CASE Len(c.prior) # NumChunks
    <3>1. claim'[w].chunk \in 1..NumChunks BY <1>5, <2>2, <2>4, NumChunksAssumption
    <3> QED BY <1>5, <2>2, <2>4, <3>1 DEF FactsAt
  <2> QED BY <2>3, <2>4
<1>7. CASE ~ Readable(r, c.prior)
  <2>1. /\ claim' = [claim EXCEPT ![w].reason = "CheckpointIntegrity"]
        /\ pc' = [pc EXCEPT ![w] = "failing"]
    BY <1>7 DEF VerifyCheckpoints, Goto
  <2>2. /\ pc'[w] = "failing" /\ claim'[w].prior = c.prior /\ claim'[w].run = r
        /\ claim'[w].attempt = c.attempt /\ claim'[w].fence = c.fence
    BY <1>1, <1>2, <2>1 DEF Local, Claim
  <2>3. ~ Owned(c)
    <3>1. SUFFICES ASSUME Owned(c) PROVE FALSE OBVIOUS
    <3>2. c.prior = checkpoints[r] BY <1>1, <1>4, <3>1 DEF FactsAt
    <3>3. status[r] = "running" BY <3>1 DEF Owned
    <3>4. Readable(r, checkpoints[r]) BY <1>3, <3>3 DEF RunAt, ChainOf, Pending
    <3> QED BY <1>7, <3>2, <3>4
  <2>4. ~ Owned(claim[w])' BY <1>4, <2>2, <2>3, OwnedSame
  <2> QED BY <1>5, <2>2, <2>4 DEF FactsAt
<1> QED BY <1>6, <1>7

LEMMA StageFacts ==
    ASSUME RunInv, NEW w \in Workers, StageChunk(w)
    PROVE  FactsAt(w)'
<1> DEFINE c == claim[w]
           r == c.run
<1>1. Rows /\ Local /\ FactsAt(w) BY TypeSplit DEF RunInv, FenceInv
<1>2. c \in Claim /\ r \in Runs BY <1>1 DEF StageChunk, Local, ClaimShape, ShapeAt
<1>3. Len(checkpoints[r]) <= NumChunks BY <1>2 DEF RunInv, RunAt
<1>4. CASE /\ claim' = [claim EXCEPT ![w].prior = checkpoints[r]] /\ pc' = [pc EXCEPT ![w] = "committing"]
           /\ c.chunk = Len(checkpoints[r]) + 1
  <2>1. pc'[w] = "committing" /\ claim'[w].prior = checkpoints[r] /\ claim'[w].chunk = c.chunk
    BY <1>1, <1>2, <1>4 DEF Local, Claim
  <2>2. c.chunk \in 1..NumChunks BY <1>1 DEF StageChunk, FactsAt
  <2> QED BY <1>3, <1>4, <2>1, <2>2 DEF FactsAt
<1>5. CASE pc' = [pc EXCEPT ![w] = "settling"] /\ claim' = claim
  <2>1. pc'[w] = "settling" /\ Len(claim'[w].prior) <= NumChunks BY <1>1, <1>5 DEF Local, FactsAt
  <2> QED BY <2>1, PlainFacts
<1> QED BY <1>4, <1>5 DEF StageChunk, Goto

LEMMA CommitFacts ==
    ASSUME RunInv, NEW w \in Workers, CommitChunk(w)
    PROVE  FactsAt(w)'
<1> DEFINE c == claim[w]
<1>1. Rows /\ Local /\ FactsAt(w) BY TypeSplit DEF RunInv, FenceInv
<1>2. c \in Claim BY <1>1 DEF Local
<1>3. Len(c.prior) <= NumChunks /\ c.chunk \in 1..NumChunks BY <1>1 DEF CommitChunk, FactsAt
<1>4. CASE /\ claim' = [claim EXCEPT ![w].chunk = c.chunk + 1]
           /\ pc' = [pc EXCEPT ![w] = IF c.chunk = NumChunks THEN "finalizing" ELSE "computing"]
  <2>1. /\ claim'[w].chunk = c.chunk + 1 /\ claim'[w].prior = c.prior
        /\ pc'[w] = IF c.chunk = NumChunks THEN "finalizing" ELSE "computing"
    BY <1>1, <1>2, <1>4 DEF Local, Claim
  <2>2. CASE c.chunk = NumChunks BY <1>3, <2>1, <2>2, PlainFacts
  <2>3. CASE c.chunk # NumChunks
    <3>1. claim'[w].chunk \in 1..NumChunks BY <1>3, <2>1, <2>3, NumChunksAssumption
    <3> QED BY <1>3, <2>1, <2>3, <3>1 DEF FactsAt
  <2> QED BY <2>2, <2>3
<1>5. CASE pc' = [pc EXCEPT ![w] = "settling"] /\ claim' = claim
  <2>1. pc'[w] = "settling" /\ Len(claim'[w].prior) <= NumChunks BY <1>1, <1>3, <1>5 DEF Local
  <2> QED BY <2>1, PlainFacts
<1> QED BY <1>4, <1>5 DEF CommitChunk, Goto

LEMMA EvidenceFacts ==
    ASSUME RunInv, NEW w \in Workers, ReadResultEvidence(w)
    PROVE  FactsAt(w)'
<1>1. Rows /\ Local BY TypeSplit DEF RunInv, FenceInv
<1>2. claim[w] \in Claim /\ claim[w].run \in Runs
  BY <1>1 DEF ReadResultEvidence, Local, ClaimShape, ShapeAt
<1>3. Len(checkpoints[claim[w].run]) <= NumChunks BY <1>2 DEF RunInv, RunAt
<1>4. /\ pc'[w] = "assembling" /\ claim'[w].prior = checkpoints[claim[w].run]
      /\ claim'[w].run = claim[w].run
  BY <1>1, <1>2 DEF ReadResultEvidence, Goto, Local, Claim
<1>5. checkpoints' = checkpoints BY DEF ReadResultEvidence, dbvars
<1> QED BY <1>3, <1>4, <1>5 DEF FactsAt

LEMMA PrepareFacts ==
    ASSUME RunInv, NEW w \in Workers, PrepareResult(w)
    PROVE  FactsAt(w)'
<1> DEFINE c == claim[w]
<1>1. Rows /\ Local /\ FactsAt(w) BY TypeSplit DEF RunInv, FenceInv
<1>2. c \in Claim /\ Len(c.prior) <= NumChunks BY <1>1 DEF Local, FactsAt
<1>3. UNCHANGED dbvars /\ pc[w] = "assembling" BY DEF PrepareResult
<1>4. CASE claim' = [claim EXCEPT ![w].reason = "Permanent"] /\ pc' = [pc EXCEPT ![w] = "failing"]
  <2>1. pc'[w] = "failing" /\ claim'[w].prior = c.prior /\ claim'[w].reason = "Permanent"
    BY <1>1, <1>2, <1>4 DEF Local, Claim
  <2> QED BY <1>2, <2>1 DEF FactsAt
<1>5. CASE pc' = [pc EXCEPT ![w] = "settling"] /\ claim' = claim
  <2>1. pc'[w] = "settling" /\ Len(claim'[w].prior) <= NumChunks BY <1>1, <1>2, <1>5 DEF Local
  <2> QED BY <2>1, PlainFacts
<1>6. CASE Len(c.prior) = NumChunks /\ pc' = [pc EXCEPT ![w] = "publishing"] /\ claim' = claim
  <2>1. pc'[w] = "publishing" /\ claim'[w] = c BY <1>1, <1>6 DEF Local
  <2>2. Owned(claim[w])' <=> Owned(c) BY <1>3, <2>1, OwnedSame
  <2>3. Owned(c) => c.prior = checkpoints'[c.run] BY <1>1, <1>3 DEF FactsAt, dbvars
  <2> QED BY <1>2, <1>6, <2>1, <2>2, <2>3 DEF FactsAt
<1> QED BY <1>4, <1>5, <1>6 DEF PrepareResult, Goto

LEMMA PublishFacts ==
    ASSUME RunInv, NEW w \in Workers, PublishSuccess(w)
    PROVE  FactsAt(w)'
<1> DEFINE c == claim[w]
<1>1. Rows /\ Local /\ FactsAt(w) BY TypeSplit DEF RunInv, FenceInv
<1>2. c \in Claim /\ Len(c.prior) <= NumChunks BY <1>1 DEF Local, FactsAt
<1>3. CASE pc' = [pc EXCEPT ![w] = "idle"] /\ claim' = [claim EXCEPT ![w] = NoClaim]
  <2>1. pc'[w] = "idle" /\ Len(claim'[w].prior) <= NumChunks
    BY <1>1, <1>3, NoClaimPrior, NumChunksAssumption DEF Local
  <2> QED BY <2>1, PlainFacts
<1>4. CASE claim' = [claim EXCEPT ![w].reason = "Infrastructure"] /\ pc' = [pc EXCEPT ![w] = "failing"]
  <2>1. pc'[w] = "failing" /\ claim'[w].prior = c.prior /\ claim'[w].reason = "Infrastructure"
    BY <1>1, <1>2, <1>4 DEF Local, Claim
  <2> QED BY <1>2, <2>1 DEF FactsAt
<1>5. CASE pc' = [pc EXCEPT ![w] = "settling"] /\ claim' = claim
  <2>1. pc'[w] = "settling" /\ Len(claim'[w].prior) <= NumChunks BY <1>1, <1>2, <1>5 DEF Local
  <2> QED BY <2>1, PlainFacts
<1> QED BY <1>3, <1>4, <1>5 DEF PublishSuccess, Return, Goto

\* The Worker leaves its claim.
LEMMA LeavingFacts ==
    ASSUME RunInv, NEW w \in Workers,
           ExecutionFails(w) \/ ObserveCancellation(w) \/ RecordFailure(w) \/ Settle(w)
    PROVE  FactsAt(w)'
<1> DEFINE c == claim[w]
<1>1. Rows /\ Local /\ FactsAt(w) BY TypeSplit DEF RunInv, FenceInv
<1>2. c \in Claim /\ Len(c.prior) <= NumChunks BY <1>1 DEF Local, FactsAt
<1>3. CASE ExecutionFails(w)
  <2>1. PICK reason \in {"Infrastructure", "Permanent"} : claim' = [claim EXCEPT ![w].reason = reason]
    BY <1>3 DEF ExecutionFails
  <2>2. pc'[w] = "failing" /\ claim'[w].prior = c.prior /\ claim'[w].reason = reason
    BY <1>1, <1>2, <1>3, <2>1 DEF ExecutionFails, Goto, Local, Claim
  <2> QED BY <1>2, <2>1, <2>2 DEF FactsAt
<1>4. CASE ObserveCancellation(w) \/ RecordFailure(w) \/ Settle(w)
  <2>1. pc'[w] \in {"idle", "confirming", "settling"} /\ claim'[w] \in {c, NoClaim}
    BY <1>1, <1>4 DEF ObserveCancellation, RecordFailure, Settle, Return, Goto, Local
  <2>2. Len(claim'[w].prior) <= NumChunks BY <1>2, <2>1, NoClaimPrior, NumChunksAssumption
  <2> QED BY <2>1, <2>2, PlainFacts
<1> QED BY <1>3, <1>4

-----------------------------------------------------------------------------
(* The invariant *)

\* The effect of a step on the rows: a chunk is added only by the owner of the run.
Advances(w) ==
    /\ Owned(claim[w]) /\ claim[w].run \in Runs
    /\ Extended(claim[w].run) /\ OthersSame(claim[w].run)

Move(w) ==
    \/ WorkerStep(w) \/ ExecutionFails(w) \/ Crash(w)

LEMMA MoveEffect ==
    ASSUME RunInv, NEW w \in Workers, Move(w)
    PROVE  Moves \/ (CommitChunk(w) /\ Advances(w))
<1>1. Rows /\ Local /\ FactsAt(w) /\ \A q \in Runs : RunAt(q)
  BY TypeSplit DEF RunInv, FenceInv
<1>2. CASE \/ NothingToRecover(w) \/ ClaimExhausted(w) \/ ClaimNothing(w)
           \/ ReadCheckpoints(w) \/ VerifyCheckpoints(w) \/ StageChunk(w)
           \/ ReadResultEvidence(w) \/ PrepareResult(w) \/ ObserveCancellation(w)
           \/ Settle(w) \/ ExecutionFails(w) \/ Crash(w)
  <2>1. UNCHANGED dbvars
    BY <1>2 DEF NothingToRecover, ClaimExhausted, ClaimNothing, ReadCheckpoints, VerifyCheckpoints,
       StageChunk, ReadResultEvidence, PrepareResult, ObserveCancellation, Settle, ExecutionFails, Crash
  <2> QED BY <2>1, QuietStep DEF Moves
<1>3. CASE CommitChunk(w) BY <1>1, <1>3, CommitMoves DEF Moves, Advances
<1>4. CASE \/ RecoverCancelledAttempt(w) \/ ClaimNext(w) \/ FinishExhaustedWorkerLoss(w)
           \/ PublishSuccess(w) \/ RecordFailure(w) \/ ConfirmCancelled(w)
  BY <1>1, <1>4, RecoverMoves, ClaimMoves, FinishLossMoves, PublishMoves, RecordFailureMoves,
     ConfirmMoves
<1> QED BY <1>2, <1>3, <1>4 DEF Move, WorkerStep

LEMMA MoveFacts ==
    ASSUME RunInv, NEW w \in Workers, Move(w), ~ RecoverCancelledAttempt(w)
    PROVE  FactsAt(w)'
BY TakingFacts, ReadCheckpointsFacts, VerifyFacts, StageFacts, CommitFacts, EvidenceFacts,
   PrepareFacts, PublishFacts, LeavingFacts DEF Move, WorkerStep

\* A Worker's step leaves the other Workers alone.
LEMMA OthersStand ==
    ASSUME Local, NEW w \in Workers, Move(w), NEW v \in Workers, v # w
    PROVE  pc'[v] = pc[v] /\ claim'[v] = claim[v]
<1>1. CASE \/ RecoverCancelledAttempt(w) \/ NothingToRecover(w) \/ ClaimNothing(w)
           \/ FinishExhaustedWorkerLoss(w) \/ ConfirmCancelled(w) \/ Crash(w) \/ Settle(w)
  BY <1>1 DEF RecoverCancelledAttempt, NothingToRecover, ClaimNothing, FinishExhaustedWorkerLoss,
              ConfirmCancelled, Crash, Settle, Return, Goto, Local
<1>2. CASE ClaimNext(w)
  <2>1. \E c : claim' = [claim EXCEPT ![w] = c] BY <1>2 DEF ClaimNext
  <2> QED BY <1>2, <2>1 DEF ClaimNext, Goto, Local
<1>3. CASE ClaimExhausted(w)
  <2>1. \E c : claim' = [claim EXCEPT ![w] = c] BY <1>3 DEF ClaimExhausted
  <2> QED BY <1>3, <2>1 DEF ClaimExhausted, Goto, Local
<1>4. CASE ReadCheckpoints(w) \/ VerifyCheckpoints(w) \/ StageChunk(w) \/ CommitChunk(w)
  BY <1>4 DEF ReadCheckpoints, VerifyCheckpoints, StageChunk, CommitChunk, Goto, Local
<1>5. CASE ReadResultEvidence(w) \/ PrepareResult(w) \/ PublishSuccess(w)
  BY <1>5 DEF ReadResultEvidence, PrepareResult, PublishSuccess, Return, Goto, Local
<1>6. CASE ObserveCancellation(w) \/ RecordFailure(w) \/ ExecutionFails(w)
  BY <1>6 DEF ObserveCancellation, RecordFailure, ExecutionFails, Goto, Local
<1> QED BY <1>1, <1>2, <1>3, <1>4, <1>5, <1>6 DEF Move, WorkerStep

LEMMA FactsMoves ==
    ASSUME RunInv, Moves, NEW v \in Workers, Steady(v)
    PROVE  FactsAt(v)'
<1>1. \A q \in Runs : Turn(q) BY DEF Moves, Quiet, OthersSame, Turn
<1> QED BY <1>1, FactsKept

LEMMA FactsAdvance ==
    ASSUME RunInv, NEW w \in Workers, CommitChunk(w), Advances(w), NEW v \in Workers, v # w, Steady(v)
    PROVE  FactsAt(v)'
<1>1. pc[w] \notin Away BY DEF CommitChunk, Away
<1>2. claim[v].run = claim[w].run /\ pc[v] \notin Away => ~ Owned(claim[v])
  BY <1>1, OwnersDiffer DEF RunInv, Advances
<1>3. ASSUME NEW q \in Runs
      PROVE  \/ Turn(q)
             \/ /\ status'[q] = status[q] /\ fence'[q] = fence[q]
                /\ attempts'[q] = attempts[q]
                /\ claim[v].run = q /\ pc[v] \notin Away => ~ Owned(claim[v])
  <2>1. CASE q = claim[w].run BY <1>2, <2>1 DEF Advances, Extended
  <2>2. CASE q # claim[w].run BY <2>2 DEF Advances, OthersSame, Turn
  <2> QED BY <2>1, <2>2
<1> QED BY <1>3, FactsKept

LEMMA RunsKept ==
    ASSUME RunInv, Rows', Moves \/ \E w \in Workers : Advances(w)
    PROVE  \A q \in Runs : RunAt(q)'
<1>1. Rows /\ \A q \in Runs : RunAt(q) BY TypeSplit DEF RunInv, FenceInv
<1>2. CASE Moves
  <2>1. \A q \in Runs : Turn(q) BY <1>2 DEF Moves, Quiet, OthersSame, Turn
  <2> QED BY <1>1, <2>1, TurnKeepsRun
<1>3. ASSUME NEW w \in Workers, Advances(w) PROVE \A q \in Runs : RunAt(q)'
  <2>1. ASSUME NEW q \in Runs PROVE RunAt(q)'
    <3>1. CASE q = claim[w].run
      <4>1. Extended(q) BY <1>3, <3>1 DEF Advances
      <4> QED BY <1>1, <4>1, ExtendedRun
    <3>2. CASE q # claim[w].run
      <4>1. Same(q) BY <1>3, <3>2 DEF Advances, OthersSame
      <4> QED BY <1>1, <4>1, SameRun
    <3> QED BY <3>1, <3>2
  <2> QED BY <2>1
<1> QED BY <1>2, <1>3

LEMMA RunInvInit == Init => RunInv
<1> SUFFICES ASSUME Init PROVE RunInv OBVIOUS
<1>1. FenceInv BY FenceInvInit
<1>2. ASSUME NEW r \in Runs PROVE RunAt(r)
  <2>1. /\ status[r] = "absent" /\ fence[r] = 0 /\ attempts[r] = <<>> /\ checkpoints[r] = <<>>
        /\ committed[r] = 0 /\ retained[r] = FALSE
    BY DEF Init
  <2>2. ~ RetryWaiting(r) BY <2>1 DEF RetryWaiting
  <2>3. LedgerOf(r) BY <2>1 DEF LedgerOf, Terminal
  <2>4. ProtectionOf(r) BY <2>1, <2>2 DEF ProtectionOf, Pending
  <2>5. FreshOf(r) /\ BudgetOf(r) /\ ReasonsOf(r)
    BY <2>1, <2>2, MaxAttemptsAssumption DEF FreshOf, BudgetOf, ReasonsOf
  <2>6. Len(checkpoints[r]) <= NumChunks BY <2>1, NumChunksAssumption
  <2> QED BY <2>1, <2>3, <2>4, <2>5, <2>6 DEF RunAt, Pending
<1>3. ASSUME NEW w \in Workers PROVE FactsAt(w)
  <2>1. pc[w] = "idle" /\ claim[w] = NoClaim BY DEF Init
  <2>2. Len(claim[w].prior) <= NumChunks BY <2>1, NoClaimPrior, NumChunksAssumption
  <2> QED BY <2>1, <2>2 DEF FactsAt
<1> QED BY <1>1, <1>2, <1>3 DEF RunInv

LEMMA RunInvNext == ASSUME RunInv, [Next]_vars PROVE RunInv'
<1>1. FenceInv' BY FenceInvNext DEF RunInv
<1>2. Rows' /\ Local' /\ Rows /\ Local
  <2>1. Rows /\ Local BY TypeSplit DEF RunInv, FenceInv
  <2>2. TypeOK' /\ ClaimShape' BY <1>1 DEF FenceInv
  <2> QED BY <2>1, <2>2 DEF TypeOK, Rows, Local
<1>3. CASE UNCHANGED vars
  <2>1. Moves BY <1>3, QuietStep DEF vars, dbvars, Moves
  <2>2. \A v \in Workers : Steady(v) BY <1>3 DEF vars, Steady
  <2> QED BY <1>1, <1>2, <2>1, <2>2, RunsKept, FactsMoves DEF RunInv
<1>4. CASE \E r \in Runs : Command(r) \/ LeaseTick(r)
  <2>1. Moves BY <1>2, <1>4, CommandMoves, LeaseTickMoves DEF Moves
  <2>2. \A v \in Workers : Steady(v)
    BY <1>4 DEF Command, Admit, CancelWaiting, CancelRunning, Delete, LeaseTick, Steady
  <2> QED BY <1>1, <1>2, <2>1, <2>2, RunsKept, FactsMoves DEF RunInv
<1>5. ASSUME NEW w \in Workers, Heartbeat(w) \/ HeartbeatFails(w) PROVE RunInv'
  <2>1. Moves BY <1>2, <1>5, HeartbeatMoves
  <2>2. ASSUME NEW v \in Workers PROVE Steady(v)
    <3>1. pc' = pc /\ (claim' = claim \/ claim' = [claim EXCEPT ![w].beating = FALSE])
      BY <1>5 DEF Heartbeat, HeartbeatFails
    <3>2. CASE claim' = claim BY <3>1, <3>2 DEF Steady
    <3>3. CASE claim' = [claim EXCEPT ![w].beating = FALSE]
      <4>1. claim \in [Workers -> Claim] /\ claim[v] \in Claim BY <1>2 DEF Local
      <4>2. claim'[v] = claim[v] \/ claim'[v] = [claim[v] EXCEPT !.beating = FALSE]
        BY <3>3, <4>1 DEF Claim
      <4> QED BY <3>1, <4>1, <4>2 DEF Steady, Claim
    <3> QED BY <3>1, <3>2, <3>3
  <2> QED BY <1>1, <1>2, <2>1, <2>2, RunsKept, FactsMoves DEF RunInv
<1>6. ASSUME NEW w \in Workers, Move(w) PROVE RunInv'
  <2>1. Moves \/ (CommitChunk(w) /\ Advances(w)) BY <1>6, MoveEffect
  <2>2. \A q \in Runs : RunAt(q)' BY <1>2, <2>1, RunsKept
  <2>3. ASSUME NEW v \in Workers, v # w PROVE FactsAt(v)'
    <3>1. Steady(v) BY <1>2, <1>6, <2>3, OthersStand DEF Steady
    <3> QED BY <2>1, <2>3, <3>1, FactsMoves, FactsAdvance
  <2>4. FactsAt(w)'
    <3>1. CASE RecoverCancelledAttempt(w)
      <4>1. Moves BY <1>2, <3>1, RecoverMoves
      <4>2. Steady(w) BY <3>1 DEF RecoverCancelledAttempt, Steady
      <4> QED BY <4>1, <4>2, FactsMoves
    <3>2. CASE ~ RecoverCancelledAttempt(w) BY <1>6, <3>2, MoveFacts
    <3> QED BY <3>1, <3>2
  <2> QED BY <1>1, <2>2, <2>3, <2>4 DEF RunInv
<1> QED BY <1>3, <1>4, <1>5, <1>6 DEF Next, Move

LEMMA RunInvariance == Spec => []RunInv
BY RunInvInit, RunInvNext, PTL DEF Spec

\* What any step does to the rows.
LEMMA StepEffect ==
    ASSUME RunInv, [Next]_vars
    PROVE  Moves \/ \E w \in Workers : Advances(w)
<1>1. Rows /\ Local BY TypeSplit DEF RunInv, FenceInv
<1>2. CASE UNCHANGED vars BY <1>2, QuietStep DEF vars, dbvars, Moves
<1>3. CASE \E r \in Runs : Command(r) \/ LeaseTick(r)
  BY <1>1, <1>3, CommandMoves, LeaseTickMoves DEF Moves
<1>4. CASE \E w \in Workers : Heartbeat(w) \/ HeartbeatFails(w)
  BY <1>1, <1>4, HeartbeatMoves
<1>5. CASE \E w \in Workers : Move(w) BY <1>5, MoveEffect
<1> QED BY <1>2, <1>3, <1>4, <1>5 DEF Next, Move

-----------------------------------------------------------------------------
(* The safety properties of the runs *)

\* The Run row and its attempts tell the same story after every transaction: at
\* most the latest attempt is active, with the fence of the run, and a run that
\* ended shows the outcome of its latest attempt (service.py's claim, failure,
\* cancellation and publication transactions, in any order and on stale claims).
THEOREM LedgerSafety == Spec => []LedgerAgrees
<1>1. RunInv => LedgerAgrees BY DEF RunInv, RunAt, LedgerAgrees
<1> QED BY <1>1, RunInvariance, PTL

\* The Generation of a run that may still execute is always retained or pinned, and
\* never after the run has ended (queue retention and attempt pins).
THEOREM ProtectionSafety == Spec => []GenerationProtected
<1>1. RunInv => GenerationProtected BY DEF RunInv, RunAt, GenerationProtected
<1> QED BY <1>1, RunInvariance, PTL

\* The checkpoints of a run that may resume are a readable prefix of the plan that
\* agrees with the reported progress (the commit of a chunk by a Worker that read
\* its prior checkpoints in an earlier transaction).
THEOREM ChainSafety == Spec => []ChainIntact
<1>1. RunInv => ChainIntact BY DEF RunInv, RunAt, ChainIntact
<1> QED BY <1>1, RunInvariance, PTL

\* A Worker whose checkpoints are released under it never has the integrity failure
\* it then sees recorded (_record_failure checks its authority first).
THEOREM IntegrityFailureSafety == Spec => []NoFalseIntegrityFailure
<1>1. RunInv => NoFalseIntegrityFailure
  BY DEF RunInv, RunAt, ReasonsOf, NoFalseIntegrityFailure
<1> QED BY <1>1, RunInvariance, PTL

\* No sequence of failures, lost Workers and takeovers starts a run more often than
\* its budget allows (attempt_retry_eligible, at the claim and at the failure).
THEOREM BudgetSafety == Spec => []AttemptsBounded
<1>1. RunInv => AttemptsBounded BY DEF RunInv, RunAt, BudgetOf, AttemptsBounded
<1> QED BY <1>1, RunInvariance, PTL

-----------------------------------------------------------------------------
(* What no step may do *)

\* A terminal outcome is never replaced, and an accepted cancellation of a running
\* attempt ends as cancelled: a Worker that succeeds, fails or is lost meanwhile
\* cannot change it.
THEOREM OutcomeSafety == Spec => OutcomeIsFinal
<1> DEFINE Final(r) ==
      /\ status[r] \in Terminal => status'[r] \in {status[r], "deleted"}
      /\ status[r] = "cancelling" => status'[r] \in {"cancelling", "cancelled"}
<1>1. ASSUME NEW r \in Runs, Turn(r) \/ Extended(r) PROVE Final(r)
  <2>2. CASE Same(r) \/ LeaseMoved(r) \/ Extended(r) BY <2>2 DEF Same, LeaseMoved, Extended
  <2>3. CASE Admitted(r) \/ Withdrawn(r) \/ Stopping(r) \/ Removed(r)
    BY <2>3 DEF Admitted, Withdrawn, Stopping, Removed, Terminal
  <2>4. CASE Closed(r)
    <3>1. \/ status[r] = "running"
          \/ status[r] = "cancelling" /\ status'[r] = "cancelled"
      BY <2>4 DEF Closed
    <3> QED BY <3>1 DEF Terminal
  <2>5. CASE Suspended(r) BY <2>5 DEF Suspended, Terminal
  <2>6. CASE Begun(r)
    <3>1. status[r] \in {"queued", "running"}
      BY <2>6 DEF Begun, Claimable, RetryWaiting, WorkerLossAt
    <3> QED BY <3>1 DEF Terminal
  <2> QED BY <1>1, <2>2, <2>3, <2>4, <2>5, <2>6 DEF Turn
<1>2. ASSUME RunInv, [Next]_vars, NEW r \in Runs PROVE Final(r)
  <2>1. Turn(r) \/ Extended(r)
    BY <1>2, StepEffect DEF Moves, Quiet, OthersSame, Advances, Turn
  <2> QED BY <1>2, <2>1, <1>1
<1>3. RunInv /\ [Next]_vars =>
        [\A r \in Runs :
            /\ status[r] \in Terminal => status'[r] \in {status[r], "deleted"}
            /\ status[r] = "cancelling" => status'[r] \in {"cancelling", "cancelled"}]_vars
  BY <1>2
<1> QED BY <1>3, RunInvariance, PTL DEF Spec, OutcomeIsFinal

\* The Result that is published was assembled from exactly the checkpoints committed
\* at that moment, all of them, although the Worker read them several transactions
\* before it published (_publish_success).
THEOREM ResultSafety == Spec => ResultMatchesChain
<1> DEFINE Whole(r) ==
      status'[r] = "succeeded" /\ status[r] # "succeeded" =>
          result'[r] = checkpoints[r] /\ Len(result'[r]) = NumChunks
<1>1. ASSUME NEW r \in Runs, Turn(r) \/ Extended(r) PROVE Whole(r)
  <2>1. CASE Closed(r) BY <2>1 DEF Closed
  <2>2. CASE ~ Closed(r)
    BY <1>1, <2>2 DEF Turn, Same, Admitted, Withdrawn, Stopping, Removed, Suspended, Begun,
                      LeaseMoved, Extended
  <2> QED BY <2>1, <2>2
<1>2. ASSUME RunInv, [Next]_vars, NEW r \in Runs PROVE Whole(r)
  <2>1. Turn(r) \/ Extended(r)
    BY <1>2, StepEffect DEF Moves, Quiet, OthersSame, Advances, Turn
  <2> QED BY <2>1, <1>1
<1>3. RunInv /\ [Next]_vars =>
        [\A r \in Runs : status'[r] = "succeeded" /\ status[r] # "succeeded"
                            => result'[r] = checkpoints[r] /\ Len(result'[r]) = NumChunks]_vars
  BY <1>2
<1> QED BY <1>3, RunInvariance, PTL DEF Spec, ResultMatchesChain

-----------------------------------------------------------------------------
(* The promise to the researcher *)

\* What the researcher sees of run r does not change.
Unseen(r) ==
    /\ PhaseOf(r)' = PhaseOf(r) /\ Len(attempts'[r]) = Len(attempts[r])
    /\ durable'[r] = durable[r]

LEMMA DurableOf == ASSUME NEW r \in Runs
                   PROVE  durable[r] = IF status[r] \in Pending THEN Len(checkpoints[r]) ELSE 0
BY DEF durable

LEMMA DurableAfter ==
    ASSUME NEW r \in Runs
    PROVE  durable'[r] = IF status'[r] \in Pending THEN Len(checkpoints'[r]) ELSE 0
BY DEF durable

LEMMA UnseenIfSame == ASSUME NEW r \in Runs, Same(r) PROVE Unseen(r)
BY DurableOf, DurableAfter DEF Same, ChainKept, Unseen, PhaseOf, RetryWaiting, Latest

LEMMA UnseenIfLeaseMoved ==
    ASSUME Rows, NEW r \in Runs, RunAt(r), LeaseMoved(r) PROVE Unseen(r)
<1>1. RetryWaiting(r)' <=> RetryWaiting(r) BY LeaseMovedRun
<1>2. /\ status'[r] = status[r] /\ checkpoints'[r] = checkpoints[r]
      /\ Len(attempts'[r]) = Len(attempts[r])
  BY DEF LeaseMoved, ChainKept
<1> QED BY <1>1, <1>2, DurableOf, DurableAfter DEF Unseen, PhaseOf

\* Only run r changes for the researcher: its next phase, count and chunks are p, t and d.
Shows(r, p, t, d) ==
    /\ \A q \in Runs : q # r => Unseen(q)
    /\ PhaseOf(r)' = p /\ Len(attempts'[r]) = t /\ durable'[r] = d

LEMMA ShownRows ==
    ASSUME NEW r \in Runs, NEW p, NEW t, NEW d, Shows(r, p, t, d)
    PROVE  /\ phase' = [phase EXCEPT ![r] = p]
           /\ tries' = [tries EXCEPT ![r] = t]
           /\ durable' = [durable EXCEPT ![r] = d]
           /\ t = tries[r] => UNCHANGED tries
           /\ d = durable[r] => UNCHANGED durable
<1>1. \A q \in Runs : phase'[q] = IF q = r THEN p ELSE phase[q] BY DEF Shows, Unseen, phase
<1>2. \A q \in Runs : tries'[q] = IF q = r THEN t ELSE tries[q] BY DEF Shows, Unseen, tries
<1>3. \A q \in Runs : durable'[q] = IF q = r THEN d ELSE durable[q] BY DEF Shows, Unseen
<1>4. t = tries[r] => UNCHANGED tries
  <2> SUFFICES ASSUME t = tries[r] PROVE UNCHANGED tries OBVIOUS
  <2>1. \A q \in Runs : tries'[q] = tries[q] BY <1>2
  <2> QED BY <2>1 DEF tries
<1>5. d = durable[r] => UNCHANGED durable
  <2> SUFFICES ASSUME d = durable[r] PROVE UNCHANGED durable OBVIOUS
  <2>1. \A q \in Runs : durable'[q] = durable[q] BY <1>3
  <2> QED BY <2>1 DEF durable
<1> QED BY <1>1, <1>2, <1>3, <1>4, <1>5 DEF phase, tries, durable

LEMMA ContractInit == Init => Contract!Init
<1> SUFFICES ASSUME Init PROVE Contract!Init OBVIOUS
<1>1. \A r \in Runs : PhaseOf(r) = "absent" BY DEF Init, PhaseOf, RetryWaiting
<1>2. \A r \in Runs : Len(attempts[r]) = 0 BY DEF Init
<1> QED BY <1>1, <1>2 DEF Contract!Init, phase, tries, durable, Init, Pending

\* The contract's step that an effect on run r is.
LEMMA AdmittedContract ==
    ASSUME Rows, NEW r \in Runs, RunAt(r), Admitted(r), OthersSame(r)
    PROVE  Contract!Submit(r)
<1>1. /\ status[r] = "absent" /\ status'[r] = "queued" /\ attempts'[r] = attempts[r]
      /\ checkpoints'[r] = <<>>
  BY DEF Admitted, RunAt, FreshOf, ChainKept
<1>2. PhaseOf(r) = "absent" /\ PhaseOf(r)' = "waiting" BY <1>1 DEF PhaseOf, RetryWaiting
<1>3. durable[r] = 0 /\ durable'[r] = 0 BY <1>1, DurableOf, DurableAfter DEF Pending
<1>4. Shows(r, "waiting", tries[r], durable[r])
  BY <1>1, <1>2, <1>3, UnseenIfSame DEF Shows, OthersSame, tries
<1>5. phase[r] = "absent" BY <1>2 DEF phase
<1> QED BY <1>4, <1>5, ShownRows DEF Contract!Submit, Contract!Move

LEMMA WithdrawnContract ==
    ASSUME Rows, NEW r \in Runs, RunAt(r), Withdrawn(r), OthersSame(r)
    PROVE  Contract!Cancelled(r)
<1>1. status'[r] = "cancelled" /\ attempts'[r] = attempts[r] BY DEF Withdrawn
<1>2. status[r] = "queued" \/ RetryWaiting(r) BY WithdrawnWaits
<1>3. phase[r] = "waiting" BY <1>2 DEF phase, PhaseOf
<1>4. PhaseOf(r)' = "cancelled" BY <1>1 DEF PhaseOf, RetryWaiting
<1>5. durable'[r] = 0 BY <1>1, DurableAfter DEF Pending
<1>6. Shows(r, "cancelled", tries[r], 0)
  BY <1>1, <1>4, <1>5, UnseenIfSame DEF Shows, OthersSame, tries
<1> QED BY <1>3, <1>6, ShownRows DEF Contract!Cancelled, Contract!Move, Contract!Forget

LEMMA StoppingContract ==
    ASSUME Rows, NEW r \in Runs, RunAt(r), Stopping(r), OthersSame(r)
    PROVE  Contract!Stop(r)
<1>1. /\ status[r] = "running" /\ status'[r] = "cancelling"
      /\ Len(attempts'[r]) = Len(attempts[r]) /\ checkpoints'[r] = checkpoints[r]
  BY DEF Stopping, ChainKept
<1>2. PICK n \in 1..Len(attempts[r]) : attempts[r][n].status = "running"
  BY DEF Stopping, RunningAttempts
<1>3. Latest(r).status = "running" BY <1>2, ActiveIsLatest DEF RunAt, Active
<1>4. phase[r] = "active" BY <1>1, <1>3 DEF phase, PhaseOf, RetryWaiting
<1>5. PhaseOf(r)' = "stopping" BY <1>1 DEF PhaseOf, RetryWaiting
<1>6. durable'[r] = durable[r] BY <1>1, DurableOf, DurableAfter DEF Pending
<1>7. Shows(r, "stopping", tries[r], durable[r])
  BY <1>1, <1>5, <1>6, UnseenIfSame DEF Shows, OthersSame, tries
<1> QED BY <1>4, <1>7, ShownRows DEF Contract!Stop, Contract!Move

LEMMA RemovedContract ==
    ASSUME Rows, NEW r \in Runs, RunAt(r), Removed(r), OthersSame(r)
    PROVE  Contract!Remove(r)
<1>1. /\ status[r] \in Terminal /\ status'[r] = "deleted" /\ Len(attempts'[r]) = 0
  BY DEF Removed
<1>2. phase[r] \in Contract!Outcomes
  BY <1>1 DEF phase, PhaseOf, RetryWaiting, Terminal, Contract!Outcomes
<1>3. PhaseOf(r)' = "deleted" BY <1>1 DEF PhaseOf, RetryWaiting
<1>4. durable'[r] = durable[r]
  BY <1>1, DurableOf, DurableAfter DEF Pending, Terminal
<1>5. Shows(r, "deleted", 0, durable[r])
  BY <1>1, <1>3, <1>4, UnseenIfSame DEF Shows, OthersSame
<1> QED BY <1>2, <1>5, ShownRows DEF Contract!Remove, Contract!Move

LEMMA ClosedContract ==
    ASSUME Rows, NEW r \in Runs, RunAt(r), Closed(r), OthersSame(r)
    PROVE  Contract!Succeed(r) \/ Contract!Fail(r) \/ Contract!Cancelled(r)
<1>1. PICK n \in 1..Len(attempts[r]) :
        /\ attempts[r][n].status \in Active /\ Len(attempts'[r]) = Len(attempts[r])
        /\ \/ status[r] = "running" /\ attempts[r][n].status = "running" /\ status'[r] = "failed"
           \/ /\ status[r] = "running" /\ attempts[r][n].status = "running"
              /\ status'[r] = "succeeded" /\ Len(checkpoints[r]) = NumChunks
           \/ status[r] = "cancelling" /\ status'[r] = "cancelled"
  BY DEF Closed, Ends, Active
<1>2. Latest(r) = attempts[r][n] BY <1>1, ActiveIsLatest DEF RunAt
<1>3. status'[r] \in Terminal BY <1>1 DEF Terminal
<1>4. PhaseOf(r)' = status'[r] BY <1>3 DEF PhaseOf, RetryWaiting, Terminal
<1>5. durable'[r] = 0 BY <1>3, DurableAfter DEF Pending, Terminal
<1>6. Shows(r, status'[r], tries[r], 0)
  BY <1>1, <1>4, <1>5, UnseenIfSame DEF Shows, OthersSame, tries
<1>7. /\ phase' = [phase EXCEPT ![r] = status'[r]] /\ UNCHANGED tries
      /\ durable' = [durable EXCEPT ![r] = 0]
  BY <1>6, ShownRows
<1>8. CASE status[r] = "running"
  <2>1. phase[r] = "active" BY <1>1, <1>2, <1>8 DEF phase, PhaseOf, RetryWaiting
  <2>2. durable[r] = Len(checkpoints[r]) BY <1>8, DurableOf DEF Pending
  <2> QED BY <1>1, <1>7, <1>8, <2>1, <2>2
          DEF Contract!Succeed, Contract!Fail, Contract!Move, Contract!Forget
<1>9. CASE status[r] = "cancelling"
  <2>1. phase[r] = "stopping" BY <1>9 DEF phase, PhaseOf, RetryWaiting
  <2> QED BY <1>1, <1>7, <1>9, <2>1 DEF Contract!Cancelled, Contract!Move, Contract!Forget
<1> QED BY <1>1, <1>8, <1>9

LEMMA SuspendedContract ==
    ASSUME Rows, NEW r \in Runs, RunAt(r), Suspended(r), OthersSame(r)
    PROVE  Contract!Interrupt(r)
<1>1. PICK n \in 1..Len(attempts[r]) :
        attempts[r][n].status = "running" /\ Len(attempts'[r]) = Len(attempts[r])
  BY DEF Suspended, Ends
<1>2. /\ status[r] = "running" /\ status'[r] = "running" /\ Len(attempts[r]) < MaxAttempts
      /\ checkpoints'[r] = checkpoints[r]
  BY DEF Suspended, ChainKept
<1>3. Latest(r).status = "running" BY <1>1, ActiveIsLatest DEF RunAt, Active
<1>4. phase[r] = "active" BY <1>2, <1>3 DEF phase, PhaseOf, RetryWaiting
<1>5. PhaseOf(r)' = "waiting" BY SuspendedRun DEF PhaseOf
<1>6. durable'[r] = durable[r] BY <1>2, DurableOf, DurableAfter
<1>7. Shows(r, "waiting", tries[r], durable[r])
  BY <1>1, <1>5, <1>6, UnseenIfSame DEF Shows, OthersSame, tries
<1>8. tries[r] < MaxAttempts BY <1>2 DEF tries
<1> QED BY <1>4, <1>7, <1>8, ShownRows DEF Contract!Interrupt, Contract!Move

LEMMA BegunContract ==
    ASSUME Rows, NEW r \in Runs, RunAt(r), Begun(r), OthersSame(r)
    PROVE  Contract!Begin(r)
<1>1. /\ Claimable(r) /\ Len(attempts[r]) < MaxAttempts /\ status'[r] = "running"
      /\ Len(attempts'[r]) = Len(attempts[r]) + 1 /\ checkpoints'[r] = checkpoints[r]
  BY DEF Begun, ChainKept
<1>2. status[r] \in {"queued", "running"} BY <1>1 DEF Claimable, RetryWaiting, WorkerLossAt
<1>3. phase[r] \in {"waiting", "active"} BY <1>2 DEF phase, PhaseOf
<1>4. PhaseOf(r)' = "active" BY BegunRun DEF PhaseOf
<1>5. durable'[r] = durable[r] BY <1>1, <1>2, DurableOf, DurableAfter DEF Pending
<1>6. Shows(r, "active", tries[r] + 1, durable[r])
  BY <1>1, <1>4, <1>5, UnseenIfSame DEF Shows, OthersSame, tries
<1>7. tries[r] < MaxAttempts BY <1>1 DEF tries
<1> QED BY <1>3, <1>6, <1>7, ShownRows DEF Contract!Begin, Contract!Move

LEMMA ExtendedContract ==
    ASSUME Rows, NEW r \in Runs, RunAt(r), Extended(r), OthersSame(r)
    PROVE  Contract!Progress(r)
<1>1. /\ status[r] = "running" /\ status'[r] = "running" /\ Latest(r).status = "running"
      /\ attempts'[r] = attempts[r] /\ Len(checkpoints[r]) < NumChunks
      /\ checkpoints'[r] = Append(checkpoints[r], Len(attempts[r]))
  BY DEF Extended
<1>2. Len(checkpoints'[r]) = Len(checkpoints[r]) + 1 BY <1>1, RowTypes
<1>3. PhaseOf(r) = "active" /\ PhaseOf(r)' = "active"
  BY <1>1 DEF PhaseOf, RetryWaiting, Latest
<1>4. phase[r] = "active" BY <1>3 DEF phase
<1>5. durable[r] = Len(checkpoints[r]) /\ durable'[r] = durable[r] + 1
  BY <1>1, <1>2, DurableOf, DurableAfter DEF Pending
<1>6. Shows(r, "active", tries[r], durable[r] + 1)
  BY <1>1, <1>3, <1>5, UnseenIfSame DEF Shows, OthersSame, tries
<1>7. UNCHANGED phase
  <2>1. \A q \in Runs : PhaseOf(q)' = PhaseOf(q) BY <1>3, <1>6 DEF Shows, Unseen
  <2> QED BY <2>1 DEF phase
<1> QED BY <1>1, <1>4, <1>5, <1>6, <1>7, ShownRows DEF Contract!Progress

LEMMA ContractStutter ==
    ASSUME \A q \in Runs : Unseen(q)
    PROVE  UNCHANGED Contract!cvars
<1>1. \A q \in Runs : tries'[q] = tries[q] BY DEF Unseen, tries
<1>2. \A q \in Runs : durable'[q] = durable[q] BY DEF Unseen
<1>3. UNCHANGED phase BY DEF Unseen, phase
<1>4. UNCHANGED tries BY <1>1 DEF tries
<1>5. UNCHANGED durable BY <1>2 DEF durable
<1> QED BY <1>3, <1>4, <1>5 DEF Contract!cvars

LEMMA ContractNext == ASSUME RunInv, [Next]_vars PROVE [Contract!Next]_Contract!cvars
<1>1. Rows /\ \A r \in Runs : RunAt(r) BY TypeSplit DEF RunInv, FenceInv
<1>2. CASE Quiet BY <1>2, UnseenIfSame, ContractStutter DEF Quiet
<1>3. ASSUME NEW r \in Runs, Turn(r), OthersSame(r) PROVE [Contract!Next]_Contract!cvars
  <2>1. CASE Same(r) \/ LeaseMoved(r)
    BY <1>1, <1>3, <2>1, UnseenIfSame, UnseenIfLeaseMoved, ContractStutter DEF OthersSame
  <2>2. CASE ~ (Same(r) \/ LeaseMoved(r))
    <3>1. \/ Contract!Submit(r) \/ Contract!Cancelled(r) \/ Contract!Stop(r) \/ Contract!Remove(r)
          \/ Contract!Succeed(r) \/ Contract!Fail(r) \/ Contract!Interrupt(r) \/ Contract!Begin(r)
      BY <1>1, <1>3, <2>2, AdmittedContract, WithdrawnContract, StoppingContract, RemovedContract,
         ClosedContract, SuspendedContract, BegunContract DEF Turn
    <3> QED BY <3>1 DEF Contract!Next
  <2> QED BY <2>1, <2>2
<1>4. ASSUME NEW w \in Workers, Advances(w) PROVE [Contract!Next]_Contract!cvars
  <2>1. PICK r \in Runs : Extended(r) /\ OthersSame(r) BY <1>4 DEF Advances
  <2>2. Contract!Progress(r) BY <1>1, <2>1, ExtendedContract
  <2> QED BY <2>2 DEF Contract!Next
<1> QED BY <1>2, <1>3, <1>4, StepEffect DEF Moves

\* Whatever the Workers, their heartbeats, lost leases and the researcher's commands do,
\* the researcher sees the contract: a run starts at most MaxAttempts times, keeps its
\* durable chunks while it may continue, succeeds only with all of them, and has one
\* final outcome (the transactions of research_run/service.py on their own rows).
THEOREM ContractRefinement == Spec => ImplementsContract
<1>1. RunInv /\ [Next]_vars => [Contract!Next]_Contract!cvars BY ContractNext
<1> QED BY <1>1, ContractInit, RunInvariance, PTL DEF Spec, ImplementsContract, Contract!Spec
=============================================================================
