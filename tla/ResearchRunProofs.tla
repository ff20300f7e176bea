-------------------------- MODULE ResearchRunProofs --------------------------
(* Proofs about ResearchRun for every number of runs, Workers, chunks and attempts. *)
EXTENDS ResearchRun, TLAPS

\* What a Worker's local variables may be at each place of process_next.
ShapeAt(w) ==
    /\ pc[w] \in {"idle", "claiming"} => claim[w] = NoClaim
    /\ pc[w] \notin {"idle", "claiming"} => claim[w].run \in Runs
    /\ pc[w] = "exhausted" => claim[w].fence = 0 /\ claim[w].beating = FALSE
    /\ pc[w] \notin {"idle", "claiming", "exhausted"} =>
          claim[w].fence # 0 /\ claim[w].fence <= fence[claim[w].run]
ClaimShape == \A w \in Workers : ShapeAt(w)

USE NumChunksAssumption, MaxAttemptsAssumption

\* Replacing one element of a sequence.
LEMMA ExceptInSeq ==
    ASSUME NEW S, NEW s \in Seq(S), NEW n \in 1..Len(s), NEW e \in S
    PROVE  /\ [s EXCEPT ![n] = e] \in Seq(S)
           /\ Len([s EXCEPT ![n] = e]) = Len(s)
           /\ [s EXCEPT ![n] = e][n] = e
           /\ \A k \in 1..Len(s) : k # n => [s EXCEPT ![n] = e][k] = s[k]
  OBVIOUS

LEMMA FinishedType ==
    ASSUME NEW a \in Attempt, NEW s \in AttemptStatus, NEW why \in Reasons \cup {NoReason}
    PROVE  Finished(a, s, why) \in Attempt
  BY DEF Finished, Attempt, Leases

\* A finished attempt changes one row of one run.
LEMMA FinishRow ==
    ASSUME attempts \in [Runs -> Seq(Attempt)],
           NEW r \in Runs, NEW n \in 1..Len(attempts[r]),
           NEW s \in AttemptStatus, NEW why \in Reasons \cup {NoReason},
           FinishAttempt(r, n, s, why)
    PROVE  /\ attempts' \in [Runs -> Seq(Attempt)]
           /\ \A q \in Runs : Len(attempts'[q]) = Len(attempts[q])
           /\ \A q \in Runs : q # r => attempts'[q] = attempts[q]
           /\ attempts'[r][n] = Finished(attempts[r][n], s, why)
           /\ \A k \in 1..Len(attempts[r]) : k # n => attempts'[r][k] = attempts[r][k]
<1> DEFINE e == Finished(attempts[r][n], s, why)
           t == [attempts[r] EXCEPT ![n] = e]
<1>1. attempts[r] \in Seq(Attempt) /\ attempts[r][n] \in Attempt
  OBVIOUS
<1>2. e \in Attempt
  BY <1>1, FinishedType
<1>3. /\ t \in Seq(Attempt) /\ Len(t) = Len(attempts[r]) /\ t[n] = e
      /\ \A k \in 1..Len(attempts[r]) : k # n => t[k] = attempts[r][k]
  BY <1>1, <1>2, ExceptInSeq
<1>4. attempts' = [attempts EXCEPT ![r] = t]
  BY DEF FinishAttempt
<1> QED
  BY <1>3, <1>4

LEMMA ReleaseType ==
    ASSUME TypeOK, NEW r \in Runs, ReleaseCheckpoints(r)
    PROVE  checkpoints' \in [Runs -> Seq(Nat)] /\ manifests' \subseteq Runs \X Nat \X Nat
  BY DEF TypeOK, ReleaseCheckpoints

LEMMA TypeInit == Init => TypeOK /\ ClaimShape
  BY DEF Init, TypeOK, ClaimShape, ShapeAt, RunStatus, PC, Claim, NoClaim, ClaimOf, NoReason, NoRun, NoResult

Away == {"idle", "claiming", "exhausted"}
Local == pc \in [Workers -> PC] /\ claim \in [Workers -> Claim] /\ ClaimShape
Rows ==
    /\ status \in [Runs -> RunStatus]
    /\ fence \in [Runs -> Nat]
    /\ attempts \in [Runs -> Seq(Attempt)]
    /\ checkpoints \in [Runs -> Seq(Nat)]
    /\ committed \in [Runs -> Nat]
    /\ retained \in [Runs -> BOOLEAN]
    /\ manifests \subseteq Runs \X Nat \X Nat
    /\ result \in [Runs -> Seq(Nat)]
FenceGrows == fence' \in [Runs -> Nat] /\ \A r \in Runs : fence[r] <= fence'[r]

\* Every Worker keeps the run and the fence of its claim, or has no claim left.
Follow ==
    \A v \in Workers : \/ claim'[v].fence = 0
                       \/ claim'[v].run = claim[v].run /\ claim'[v].fence = claim[v].fence

LEMMA TypeSplit == TypeOK /\ ClaimShape <=> Rows /\ Local
  BY DEF TypeOK, Rows, Local

\* A Worker that does not move keeps its shape while the fences grow.
LEMMA ShapeKept ==
    ASSUME Local, Rows, FenceGrows, NEW v \in Workers,
           pc'[v] = pc[v], claim'[v] = claim[v]
    PROVE  ShapeAt(v)'
<1>1. ShapeAt(v) /\ claim[v] \in Claim
  BY DEF Local, ClaimShape
<1>2. pc[v] \notin Away => claim[v].fence <= fence'[claim[v].run]
  BY <1>1 DEF ShapeAt, FenceGrows, Rows, Claim, Away
<1> QED BY <1>1, <1>2 DEF ShapeAt, Away

\* A step of an executing Worker that keeps its run and fence.
LEMMA LocalStep ==
    ASSUME Local, Rows, FenceGrows, NEW w \in Workers, pc[w] \notin Away,
           NEW c \in Claim, c.run = claim[w].run, c.fence = claim[w].fence,
           claim' = [claim EXCEPT ![w] = c],
           NEW l \in PC \ Away, pc' = [pc EXCEPT ![w] = l]
    PROVE  Local' /\ Follow
<1>1. pc' \in [Workers -> PC] /\ claim' \in [Workers -> Claim]
  BY DEF Local
<1>2. ASSUME NEW v \in Workers PROVE ShapeAt(v)'
  <2>1. CASE v = w
    <3>1. pc'[v] = l /\ claim'[v] = c
      BY <2>1 DEF Local
    <3>2. c.run \in Runs /\ c.fence # 0 /\ c.fence <= fence[c.run]
      BY DEF Local, ClaimShape, ShapeAt, Away
    <3>3. c.fence <= fence'[c.run]
      BY <3>2 DEF FenceGrows, Rows, Claim
    <3> QED BY <3>1, <3>2, <3>3 DEF ShapeAt, Away
  <2>2. CASE v # w
    BY <2>2, ShapeKept DEF Local, ClaimShape
  <2> QED BY <2>1, <2>2
<1>3. Follow
  BY DEF Local, Follow, NoClaim, ClaimOf
<1> QED BY <1>1, <1>2, <1>3 DEF Local, ClaimShape

LEMMA LocalReturn ==
    ASSUME Local, Rows, FenceGrows, NEW w \in Workers,
           claim' = [claim EXCEPT ![w] = NoClaim],
           NEW l \in {"idle", "claiming"}, pc' = [pc EXCEPT ![w] = l]
    PROVE  Local' /\ Follow
<1>1. pc' \in [Workers -> PC] /\ claim' \in [Workers -> Claim]
  BY DEF Local, PC, Claim, NoClaim, ClaimOf, NoRun, NoReason
<1>2. ASSUME NEW v \in Workers PROVE ShapeAt(v)'
  <2>1. CASE v = w
    BY <2>1 DEF Local, ShapeAt
  <2>2. CASE v # w
    BY <2>2, ShapeKept DEF Local, ClaimShape
  <2> QED BY <2>1, <2>2
<1>3. Follow
  BY DEF Local, Follow, NoClaim, ClaimOf
<1> QED BY <1>1, <1>2, <1>3 DEF Local, ClaimShape

LEMMA LocalSame ==
    ASSUME Local, Rows, FenceGrows, UNCHANGED <<pc, claim>>
    PROVE  Local' /\ Follow
<1>1. \A v \in Workers : ShapeAt(v)'
  BY ShapeKept
<1> QED BY <1>1 DEF Local, ClaimShape, Follow

LEMMA FenceSame == ASSUME Rows, UNCHANGED fence PROVE FenceGrows
  BY DEF Rows, FenceGrows


-----------------------------------------------------------------------------
(* One lemma per group of actions: the rows and the claims keep their types. *)

LEMMA RowsSame == ASSUME Rows, UNCHANGED dbvars PROVE Rows' /\ FenceGrows
  BY DEF Rows, dbvars, FenceGrows

LEMMA CommandType ==
    ASSUME Rows, Local, NEW r \in Runs, Command(r)
    PROVE  Rows' /\ Local' /\ Follow
<1>1. CASE Admit(r)
  <2>1. Rows' /\ FenceGrows
    BY <1>1, SMTT(30) DEF Admit, Rows, RunStatus, Pending, FenceGrows
  <2> QED BY <2>1, <1>1, LocalSame DEF Admit
<1>2. CASE CancelWaiting(r)
  <2>0. /\ status' = [status EXCEPT ![r] = "cancelled"]
        /\ fence' = [fence EXCEPT ![r] = @ + 1]
        /\ retained' = [retained EXCEPT ![r] = FALSE]
        /\ UNCHANGED <<attempts, checkpoints, committed, manifests, result>>
    BY <1>2 DEF CancelWaiting
  <2>2. status' \in [Runs -> RunStatus] /\ retained' \in [Runs -> BOOLEAN]
    BY <2>0 DEF Rows, RunStatus, Terminal
  <2>3. FenceGrows
    BY <2>0 DEF Rows, FenceGrows
  <2>1. Rows' /\ FenceGrows
    BY <2>0, <2>2, <2>3 DEF Rows, FenceGrows
  <2> QED BY <2>1, <1>2, LocalSame DEF CancelWaiting
<1>3. CASE CancelRunning(r)
  <2>1. PICK n \in RunningAttempts(r) :
          attempts' = [attempts EXCEPT ![r][n].status = "cancelling", ![r][n].reason = "UserCancelled"]
    BY <1>3 DEF CancelRunning
  <2> DEFINE e == [attempts[r][n] EXCEPT !.status = "cancelling", !.reason = "UserCancelled"]
             t == [attempts[r] EXCEPT ![n] = e]
  <2>2. n \in 1..Len(attempts[r]) /\ attempts[r] \in Seq(Attempt) /\ attempts[r][n] \in Attempt
    BY DEF RunningAttempts, Rows
  <2>3. e \in Attempt
    BY <2>2 DEF Attempt, AttemptStatus, Reasons
  <2>4. t \in Seq(Attempt)
    BY <2>2, <2>3, ExceptInSeq
  <2>5. attempts' = [attempts EXCEPT ![r] = t]
    BY <2>1 DEF Rows
  <2>6. attempts' \in [Runs -> Seq(Attempt)]
    BY <2>4, <2>5 DEF Rows
  <2>7. /\ status' = [status EXCEPT ![r] = "cancelling"]
        /\ fence' = [fence EXCEPT ![r] = @ + 1]
        /\ UNCHANGED <<checkpoints, committed, retained, manifests, result, pc, claim>>
    BY <1>3 DEF CancelRunning
  <2>8. status' \in [Runs -> RunStatus] /\ FenceGrows
    BY <2>7 DEF Rows, RunStatus, Pending, FenceGrows
  <2>9. Rows'
    BY <2>6, <2>7, <2>8 DEF Rows, FenceGrows
  <2> QED BY <2>7, <2>8, <2>9, LocalSame
<1>4. CASE Delete(r)
  <2>1. Rows' /\ FenceGrows
    BY <1>4 DEF Delete, Rows, RunStatus, FenceGrows, NoResult
  <2> QED BY <2>1, <1>4, LocalSame DEF Delete
<1> QED BY <1>1, <1>2, <1>3, <1>4 DEF Command

LEMMA FinishRows ==
    ASSUME Rows, NEW r \in Runs, NEW n \in 1..Len(attempts[r]),
           NEW s \in AttemptStatus, NEW why \in Reasons \cup {NoReason},
           FinishAttempt(r, n, s, why), ReleaseCheckpoints(r),
           NEW t \in RunStatus, status' = [status EXCEPT ![r] = t],
           UNCHANGED <<fence, committed, retained>>,
           result' \in [Runs -> Seq(Nat)]
    PROVE  Rows' /\ FenceGrows
<1>1. attempts' \in [Runs -> Seq(Attempt)]
  BY FinishRow DEF Rows
<1>2. checkpoints' \in [Runs -> Seq(Nat)] /\ manifests' \subseteq Runs \X Nat \X Nat
  BY DEF ReleaseCheckpoints, Rows
<1> QED BY <1>1, <1>2, FenceSame DEF Rows

LEMMA RecoverType ==
    ASSUME Rows, Local, NEW w \in Workers, RecoverCancelledAttempt(w)
    PROVE  Rows' /\ Local' /\ Follow
<1>0. PICK r \in Runs : \E n \in 1..Len(attempts[r]) :
          /\ status' = [status EXCEPT ![r] = "cancelled"]
          /\ FinishAttempt(r, n, "cancelled", "UserCancelled")
          /\ ReleaseCheckpoints(r)
  BY DEF RecoverCancelledAttempt
<1>1. PICK n \in 1..Len(attempts[r]) :
          /\ status' = [status EXCEPT ![r] = "cancelled"]
          /\ FinishAttempt(r, n, "cancelled", "UserCancelled")
          /\ ReleaseCheckpoints(r)
  BY <1>0
<1>2. Rows' /\ FenceGrows
  <2>1. result' \in [Runs -> Seq(Nat)] /\ UNCHANGED <<fence, committed, retained>>
    BY DEF RecoverCancelledAttempt, Rows
  <2>2. "cancelled" \in RunStatus /\ "cancelled" \in AttemptStatus /\ "UserCancelled" \in Reasons
    BY DEF RunStatus, Terminal, AttemptStatus, Reasons
  <2> QED BY <1>1, <2>1, <2>2, FinishRows
<1> QED BY <1>2, LocalSame DEF RecoverCancelledAttempt

LEMMA IdleMoveType ==
    ASSUME Rows, Local, NEW w \in Workers, NothingToRecover(w) \/ ClaimNothing(w)
    PROVE  Rows' /\ Local' /\ Follow
<1>1. Rows' /\ FenceGrows
  BY RowsSame DEF NothingToRecover, ClaimNothing
<1>2. CASE NothingToRecover(w)
  <2>1. claim' = [claim EXCEPT ![w] = NoClaim] /\ pc' = [pc EXCEPT ![w] = "claiming"]
    BY <1>2 DEF NothingToRecover, Goto, Local, ClaimShape, ShapeAt
  <2> QED BY <1>1, <2>1, LocalReturn
<1>3. CASE ClaimNothing(w)
  BY <1>1, <1>3, LocalReturn DEF ClaimNothing, Return, Goto
<1> QED BY <1>2, <1>3

LEMMA ExhaustedType ==
    ASSUME Rows, Local, NEW w \in Workers, ClaimExhausted(w)
    PROVE  Rows' /\ Local' /\ Follow
<1>1. Rows' /\ FenceGrows
  BY RowsSame DEF ClaimExhausted
<1>2. PICK r \in Runs :
        claim' = [claim EXCEPT ![w] = ClaimOf(r, Len(attempts[r]), 0, FALSE)]
  BY DEF ClaimExhausted
<1> DEFINE c == ClaimOf(r, Len(attempts[r]), 0, FALSE)
<1>3. c \in Claim /\ c.run = r /\ c.fence = 0 /\ c.beating = FALSE
  <2>1. Len(attempts[r]) \in Nat /\ <<>> \in Seq(Nat)
    BY DEF Rows
  <2> QED BY <2>1 DEF Claim, ClaimOf
<1>4. pc' = [pc EXCEPT ![w] = "exhausted"]
  BY DEF ClaimExhausted, Goto
<1>5. pc' \in [Workers -> PC] /\ claim' \in [Workers -> Claim]
  BY <1>2, <1>3, <1>4 DEF Local, PC
<1>6. ASSUME NEW v \in Workers PROVE ShapeAt(v)'
  <2>1. CASE v = w
    BY <1>2, <1>3, <1>4, <2>1 DEF ShapeAt, Local
  <2>2. CASE v # w
    BY <1>1, <1>2, <1>4, <2>2, ShapeKept DEF Local
  <2> QED BY <2>1, <2>2
<1>7. Follow
  BY <1>2, <1>3 DEF Follow, Local
<1> QED BY <1>1, <1>5, <1>6, <1>7 DEF Local, ClaimShape

LEMMA FinishLossType ==
    ASSUME Rows, Local, NEW w \in Workers, FinishExhaustedWorkerLoss(w)
    PROVE  Rows' /\ Local' /\ Follow
<1>1. claim[w].run \in Runs
  BY DEF FinishExhaustedWorkerLoss, Local, ClaimShape, ShapeAt
<1>2. Rows' /\ FenceGrows
  <2>1. CASE StillLost(claim[w].run, claim[w].attempt)
    <3>1. claim[w].attempt \in 1..Len(attempts[claim[w].run])
      BY <2>1 DEF StillLost
    <3>2. /\ FinishAttempt(claim[w].run, claim[w].attempt, "failed", "WorkerLost")
          /\ ReleaseCheckpoints(claim[w].run)
          /\ status' = [status EXCEPT ![claim[w].run] = "failed"]
          /\ UNCHANGED <<fence, committed, retained>>
          /\ result' = result
      BY <2>1 DEF FinishExhaustedWorkerLoss
    <3>3. /\ "failed" \in RunStatus /\ "failed" \in AttemptStatus /\ "WorkerLost" \in Reasons
          /\ result' \in [Runs -> Seq(Nat)]
      BY <3>2 DEF RunStatus, Terminal, AttemptStatus, Reasons, Retryable, Rows
    <3> QED BY <1>1, <3>1, <3>2, <3>3, FinishRows
  <2>2. CASE ~ StillLost(claim[w].run, claim[w].attempt)
    BY <2>2, RowsSame DEF FinishExhaustedWorkerLoss
  <2> QED BY <2>1, <2>2
<1> QED BY <1>2, LocalReturn DEF FinishExhaustedWorkerLoss, Goto

\* A step of an executing Worker that leaves the rows alone.
LEMMA LocalOnly ==
    ASSUME Rows, Local, NEW w \in Workers, pc[w] \notin Away, UNCHANGED dbvars,
           NEW c \in Claim, c.run = claim[w].run, c.fence = claim[w].fence,
           claim' = [claim EXCEPT ![w] = c],
           NEW l \in PC \ Away, pc' = [pc EXCEPT ![w] = l]
    PROVE  Rows' /\ Local' /\ Follow
  BY RowsSame, LocalStep

LEMMA ReadCheckpointsType ==
    ASSUME Rows, Local, NEW w \in Workers, ReadCheckpoints(w)
    PROVE  Rows' /\ Local' /\ Follow
<1> DEFINE rows == checkpoints[claim[w].run]
<1>1. claim[w] \in Claim /\ claim[w].run \in Runs /\ rows \in Seq(Nat) /\ pc[w] \notin Away
  BY DEF ReadCheckpoints, Local, ClaimShape, ShapeAt, Rows, Away
<1> DEFINE c1 == [claim[w] EXCEPT !.chunk = 1]
           c2 == [claim[w] EXCEPT !.prior = rows]
           c3 == [claim[w] EXCEPT !.reason = "CheckpointIntegrity"]
<1>2. \/ claim' = [claim EXCEPT ![w] = c1] /\ pc' = [pc EXCEPT ![w] = "computing"]
      \/ claim' = [claim EXCEPT ![w] = c2] /\ pc' = [pc EXCEPT ![w] = "verifying"]
      \/ claim' = [claim EXCEPT ![w] = c3] /\ pc' = [pc EXCEPT ![w] = "failing"]
  BY DEF ReadCheckpoints, Goto
<1>3. /\ c1 \in Claim /\ c1.run = claim[w].run /\ c1.fence = claim[w].fence
      /\ c2 \in Claim /\ c2.run = claim[w].run /\ c2.fence = claim[w].fence
      /\ c3 \in Claim /\ c3.run = claim[w].run /\ c3.fence = claim[w].fence
  BY <1>1 DEF Claim, Reasons
<1>4. {"computing", "verifying", "failing"} \subseteq PC \ Away /\ UNCHANGED dbvars
  BY DEF PC, Away, ReadCheckpoints
<1> HIDE DEF c1, c2, c3
<1> QED BY <1>1, <1>2, <1>3, <1>4, LocalOnly

\* The six actions that only move a Worker along its claim.
LEMMA VerifyType ==
    ASSUME Rows, Local, NEW w \in Workers, VerifyCheckpoints(w)
    PROVE  Rows' /\ Local' /\ Follow
<1>1. claim[w] \in Claim /\ claim[w].run \in Runs /\ pc[w] \notin Away
  BY DEF VerifyCheckpoints, Local, ClaimShape, ShapeAt, Away
<1> DEFINE c1 == [claim[w] EXCEPT !.chunk = Len(claim[w].prior) + 1]
           c2 == [claim[w] EXCEPT !.reason = "CheckpointIntegrity"]
<1>2. \/ claim' = [claim EXCEPT ![w] = c1] /\ pc' = [pc EXCEPT ![w] = "finalizing"]
      \/ claim' = [claim EXCEPT ![w] = c1] /\ pc' = [pc EXCEPT ![w] = "computing"]
      \/ claim' = [claim EXCEPT ![w] = c2] /\ pc' = [pc EXCEPT ![w] = "failing"]
  BY DEF VerifyCheckpoints, Goto
<1>3. /\ c1 \in Claim /\ c1.run = claim[w].run /\ c1.fence = claim[w].fence
      /\ c2 \in Claim /\ c2.run = claim[w].run /\ c2.fence = claim[w].fence
  <2>1. Len(claim[w].prior) + 1 \in Nat
    BY <1>1 DEF Claim
  <2> QED BY <1>1, <2>1 DEF Claim, Reasons
<1>4. {"finalizing", "computing", "failing"} \subseteq PC \ Away /\ UNCHANGED dbvars
  BY DEF PC, Away, VerifyCheckpoints
<1> HIDE DEF c1, c2
<1> QED BY <1>1, <1>2, <1>3, <1>4, LocalOnly

LEMMA StageType ==
    ASSUME Rows, Local, NEW w \in Workers, StageChunk(w)
    PROVE  Rows' /\ Local' /\ Follow
<1>1. claim[w] \in Claim /\ claim[w].run \in Runs /\ pc[w] \notin Away
  BY DEF StageChunk, Local, ClaimShape, ShapeAt, Away
<1> DEFINE c1 == [claim[w] EXCEPT !.prior = checkpoints[claim[w].run]]
<1>2. \/ claim' = [claim EXCEPT ![w] = c1] /\ pc' = [pc EXCEPT ![w] = "committing"]
      \/ claim' = [claim EXCEPT ![w] = claim[w]] /\ pc' = [pc EXCEPT ![w] = "settling"]
  BY DEF StageChunk, Goto, Local
<1>3. c1 \in Claim /\ c1.run = claim[w].run /\ c1.fence = claim[w].fence
  BY <1>1 DEF Claim, Rows
<1>4. {"committing", "settling"} \subseteq PC \ Away /\ UNCHANGED dbvars
  BY DEF PC, Away, StageChunk
<1> HIDE DEF c1
<1> QED BY <1>1, <1>2, <1>3, <1>4, LocalOnly

LEMMA EvidenceType ==
    ASSUME Rows, Local, NEW w \in Workers, ReadResultEvidence(w)
    PROVE  Rows' /\ Local' /\ Follow
<1>1. claim[w] \in Claim /\ claim[w].run \in Runs /\ pc[w] \notin Away
  BY DEF ReadResultEvidence, Local, ClaimShape, ShapeAt, Away
<1> DEFINE c1 == [claim[w] EXCEPT !.prior = checkpoints[claim[w].run]]
<1>2. claim' = [claim EXCEPT ![w] = c1] /\ pc' = [pc EXCEPT ![w] = "assembling"]
  BY DEF ReadResultEvidence, Goto
<1>3. c1 \in Claim /\ c1.run = claim[w].run /\ c1.fence = claim[w].fence
  BY <1>1 DEF Claim, Rows
<1>4. "assembling" \in PC \ Away /\ UNCHANGED dbvars
  BY DEF PC, Away, ReadResultEvidence
<1> HIDE DEF c1
<1> QED BY <1>1, <1>2, <1>3, <1>4, LocalOnly

LEMMA PrepareType ==
    ASSUME Rows, Local, NEW w \in Workers, PrepareResult(w)
    PROVE  Rows' /\ Local' /\ Follow
<1>1. claim[w] \in Claim /\ claim[w].run \in Runs /\ pc[w] \notin Away
  BY DEF PrepareResult, Local, ClaimShape, ShapeAt, Away
<1> DEFINE c1 == [claim[w] EXCEPT !.reason = "Permanent"]
<1>2. \/ claim' = [claim EXCEPT ![w] = c1] /\ pc' = [pc EXCEPT ![w] = "failing"]
      \/ claim' = [claim EXCEPT ![w] = claim[w]] /\ pc' = [pc EXCEPT ![w] = "settling"]
      \/ claim' = [claim EXCEPT ![w] = claim[w]] /\ pc' = [pc EXCEPT ![w] = "publishing"]
  BY DEF PrepareResult, Goto, Local
<1>3. c1 \in Claim /\ c1.run = claim[w].run /\ c1.fence = claim[w].fence
  BY <1>1 DEF Claim, Reasons
<1>4. {"failing", "settling", "publishing"} \subseteq PC \ Away /\ UNCHANGED dbvars
  BY DEF PC, Away, PrepareResult
<1> HIDE DEF c1
<1> QED BY <1>1, <1>2, <1>3, <1>4, LocalOnly

LEMMA FailsType ==
    ASSUME Rows, Local, NEW w \in Workers, ExecutionFails(w)
    PROVE  Rows' /\ Local' /\ Follow
<1>1. claim[w] \in Claim /\ claim[w].run \in Runs /\ pc[w] \notin Away
  BY DEF ExecutionFails, Executing, Local, ClaimShape, ShapeAt, Away
<1>2. PICK reason \in {"Infrastructure", "Permanent"} : claim' = [claim EXCEPT ![w].reason = reason]
  BY DEF ExecutionFails
<1> DEFINE c1 == [claim[w] EXCEPT !.reason = reason]
<1>3. claim' = [claim EXCEPT ![w] = c1] /\ pc' = [pc EXCEPT ![w] = "failing"]
  BY <1>2 DEF ExecutionFails, Goto
<1>4. c1 \in Claim /\ c1.run = claim[w].run /\ c1.fence = claim[w].fence
  BY <1>1 DEF Claim, Reasons, Retryable
<1>5. "failing" \in PC \ Away /\ UNCHANGED dbvars
  BY DEF PC, Away, ExecutionFails
<1> HIDE DEF c1
<1> QED BY <1>1, <1>3, <1>4, <1>5, LocalOnly

LEMMA LeaveType ==
    ASSUME Rows, Local, NEW w \in Workers,
           ObserveCancellation(w) \/ Settle(w) \/ Crash(w)
    PROVE  Rows' /\ Local' /\ Follow
<1>1. Rows' /\ FenceGrows /\ UNCHANGED dbvars
  BY RowsSame DEF ObserveCancellation, Settle, Crash
<1>2. CASE Return(w)
  BY <1>1, <1>2, LocalReturn DEF Return, Goto
<1>3. CASE ~ Return(w)
  <2>1. claim[w] \in Claim /\ pc[w] \notin Away
    BY <1>3 DEF ObserveCancellation, Settle, Crash, Local, Away
  <2>2. claim' = [claim EXCEPT ![w] = claim[w]] /\ pc' = [pc EXCEPT ![w] = "confirming"]
    BY <1>3 DEF ObserveCancellation, Settle, Crash, Goto, Local
  <2>3. "confirming" \in PC \ Away
    BY DEF PC, Away
  <2> QED BY <1>1, <2>1, <2>2, <2>3, LocalOnly
<1> QED BY <1>2, <1>3

LEMMA CommitType ==
    ASSUME Rows, Local, NEW w \in Workers, CommitChunk(w)
    PROVE  Rows' /\ Local' /\ Follow
<1> DEFINE c == claim[w]
           accepted == Current(c) /\ checkpoints[c.run] = c.prior
           c1 == [claim[w] EXCEPT !.chunk = c.chunk + 1]
<1>1. c \in Claim /\ c.run \in Runs /\ pc[w] \notin Away
  BY DEF CommitChunk, Local, ClaimShape, ShapeAt, Away
<1>2. CASE accepted
  <2>1. /\ checkpoints' = [checkpoints EXCEPT ![c.run] = Append(@, c.attempt)]
        /\ manifests' = manifests \cup {<<c.run, c.chunk, c.attempt>>}
        /\ committed' = [committed EXCEPT ![c.run] = c.chunk]
        /\ UNCHANGED <<status, fence, attempts, retained, result>>
    BY <1>2 DEF CommitChunk
  <2>2. Rows' /\ FenceGrows
    <3>1. c.chunk \in Nat /\ c.attempt \in Nat
      BY <1>1 DEF Claim
    <3>2. checkpoints' \in [Runs -> Seq(Nat)]
      BY <1>1, <2>1, <3>1 DEF Rows
    <3>3. manifests' \subseteq Runs \X Nat \X Nat
      BY <1>1, <2>1, <3>1 DEF Rows
    <3> QED BY <1>1, <2>1, <3>1, <3>2, <3>3, FenceSame DEF Rows
  <2>3. /\ claim' = [claim EXCEPT ![w] = c1]
        /\ \/ pc' = [pc EXCEPT ![w] = "finalizing"]
           \/ pc' = [pc EXCEPT ![w] = "computing"]
    BY <1>2 DEF CommitChunk, Goto
  <2>4. c1 \in Claim /\ c1.run = c.run /\ c1.fence = c.fence
    BY <1>1 DEF Claim
  <2>5. {"finalizing", "computing"} \subseteq PC \ Away
    BY DEF PC, Away
  <2> HIDE DEF c1
  <2> QED BY <1>1, <2>2, <2>3, <2>4, <2>5, LocalStep
<1>3. CASE ~ accepted
  <2>1. UNCHANGED dbvars /\ pc' = [pc EXCEPT ![w] = "settling"]
        /\ claim' = [claim EXCEPT ![w] = claim[w]]
    BY <1>3 DEF CommitChunk, dbvars, Goto, Local
  <2>2. "settling" \in PC \ Away
    BY DEF PC, Away
  <2> QED BY <1>1, <2>1, <2>2, LocalOnly
<1> QED BY <1>2, <1>3

LEMMA PublishType ==
    ASSUME Rows, Local, NEW w \in Workers, PublishSuccess(w)
    PROVE  Rows' /\ Local' /\ Follow
<1> DEFINE c == claim[w]
           c1 == [claim[w] EXCEPT !.reason = "Infrastructure"]
<1>1. c \in Claim /\ c.run \in Runs /\ pc[w] \notin Away
  BY DEF PublishSuccess, Local, ClaimShape, ShapeAt, Away
<1>0. {"failing", "settling"} \subseteq PC \ Away
  BY DEF PC, Away
<1>2. CASE Current(c)
  <2>1. c.attempt \in 1..Len(attempts[c.run])
    BY <1>2 DEF Current
  <2>2. /\ FinishAttempt(c.run, c.attempt, "succeeded", NoReason)
        /\ ReleaseCheckpoints(c.run)
        /\ status' = [status EXCEPT ![c.run] = "succeeded"]
        /\ result' = [result EXCEPT ![c.run] = c.prior]
        /\ UNCHANGED <<fence, committed, retained>>
    BY <1>2 DEF PublishSuccess
  <2>3. /\ "succeeded" \in RunStatus /\ "succeeded" \in AttemptStatus
        /\ NoReason \in Reasons \cup {NoReason}
        /\ result' \in [Runs -> Seq(Nat)]
    BY <1>1, <2>2 DEF RunStatus, Terminal, AttemptStatus, Claim, Rows
  <2>4. Rows' /\ FenceGrows
    BY <1>1, <2>1, <2>2, <2>3, FinishRows
  <2>5. \/ pc' = [pc EXCEPT ![w] = "idle"] /\ claim' = [claim EXCEPT ![w] = NoClaim]
        \/ pc' = [pc EXCEPT ![w] = "failing"] /\ claim' = [claim EXCEPT ![w] = c1]
    BY <1>2 DEF PublishSuccess, Return, Goto
  <2>6. c1 \in Claim /\ c1.run = c.run /\ c1.fence = c.fence
    BY <1>1 DEF Claim, Reasons, Retryable
  <2> HIDE DEF c1
  <2> QED BY <1>0, <1>1, <2>4, <2>5, <2>6, LocalStep, LocalReturn
<1>3. CASE ~ Current(c)
  <2>1. UNCHANGED dbvars /\ pc' = [pc EXCEPT ![w] = "settling"]
        /\ claim' = [claim EXCEPT ![w] = claim[w]]
    BY <1>3 DEF PublishSuccess, Goto, Local
  <2> QED BY <1>0, <1>1, <2>1, LocalOnly
<1> QED BY <1>2, <1>3

LEMMA RecordFailureType ==
    ASSUME Rows, Local, NEW w \in Workers, RecordFailure(w)
    PROVE  Rows' /\ Local' /\ Follow
<1> DEFINE c == claim[w]
           retry == attempt_retry_eligible(c.reason, Len(attempts[c.run]))
<1>1. c \in Claim /\ c.run \in Runs /\ pc[w] \notin Away
  BY DEF RecordFailure, Local, ClaimShape, ShapeAt, Away
<1>2. /\ pc' = [pc EXCEPT ![w] = "settling"] /\ claim' = [claim EXCEPT ![w] = claim[w]]
      /\ "settling" \in PC \ Away
  BY DEF RecordFailure, Goto, Local, PC, Away
<1>3. Rows' /\ FenceGrows
  <2>1. CASE Owned(c)
    <3>1. c.attempt \in 1..Len(attempts[c.run]) /\ c.reason \in Reasons \cup {NoReason}
      BY <1>1, <2>1 DEF Owned, Claim
    <3>2. /\ FinishAttempt(c.run, c.attempt, "failed", c.reason)
          /\ AfterFailure(c.run, retry)
          /\ UNCHANGED <<fence, committed, result>>
      BY <2>1 DEF RecordFailure
    <3>3. "failed" \in RunStatus /\ "failed" \in AttemptStatus
      BY DEF RunStatus, Terminal, AttemptStatus
    <3>4. CASE retry
      <4>1. attempts' \in [Runs -> Seq(Attempt)]
        BY <1>1, <3>1, <3>2, <3>3, FinishRow DEF Rows
      <4>2. retained' = [retained EXCEPT ![c.run] = TRUE] /\ UNCHANGED <<status, checkpoints, manifests>>
        BY <3>2, <3>4 DEF AfterFailure
      <4> QED BY <3>2, <4>1, <4>2, FenceSame DEF Rows
    <3>5. CASE ~ retry
      <4>1. /\ status' = [status EXCEPT ![c.run] = "failed"]
            /\ ReleaseCheckpoints(c.run) /\ UNCHANGED retained
        BY <3>2, <3>5 DEF AfterFailure
      <4>2. result' \in [Runs -> Seq(Nat)]
        BY <3>2 DEF Rows
      <4> QED BY <1>1, <3>1, <3>2, <3>3, <4>1, <4>2, FinishRows
    <3> QED BY <3>4, <3>5
  <2>2. CASE ~ Owned(c)
    BY <2>2, RowsSame DEF RecordFailure
  <2> QED BY <2>1, <2>2
<1> QED BY <1>1, <1>2, <1>3, LocalStep

LEMMA ConfirmType ==
    ASSUME Rows, Local, NEW w \in Workers, ConfirmCancelled(w)
    PROVE  Rows' /\ Local' /\ Follow
<1> DEFINE c == claim[w]
<1>1. c \in Claim /\ c.run \in Runs
  BY DEF ConfirmCancelled, Local, ClaimShape, ShapeAt
<1>2. Rows' /\ FenceGrows
  <2>1. CASE CancellationPending(c)
    <3>1. c.attempt \in 1..Len(attempts[c.run])
      BY <2>1 DEF CancellationPending
    <3>2. /\ FinishAttempt(c.run, c.attempt, "cancelled", "UserCancelled")
          /\ ReleaseCheckpoints(c.run)
          /\ status' = [status EXCEPT ![c.run] = "cancelled"]
          /\ UNCHANGED <<fence, committed, retained, result>>
      BY <2>1 DEF ConfirmCancelled
    <3>3. /\ "cancelled" \in RunStatus /\ "cancelled" \in AttemptStatus /\ "UserCancelled" \in Reasons
          /\ result' \in [Runs -> Seq(Nat)]
      BY <3>2 DEF RunStatus, Terminal, AttemptStatus, Reasons, Rows
    <3> QED BY <1>1, <3>1, <3>2, <3>3, FinishRows
  <2>2. CASE ~ CancellationPending(c)
    BY <2>2, RowsSame DEF ConfirmCancelled
  <2> QED BY <2>1, <2>2
<1> QED BY <1>2, LocalReturn DEF ConfirmCancelled, Return, Goto

\* A lease moves in one row.
LEMMA LeaseRow ==
    ASSUME attempts \in [Runs -> Seq(Attempt)], NEW r \in Runs, NEW n \in 1..Len(attempts[r]),
           NEW l \in Leases, attempts' = [attempts EXCEPT ![r][n].lease = l]
    PROVE  /\ attempts' \in [Runs -> Seq(Attempt)]
           /\ \A q \in Runs : Len(attempts'[q]) = Len(attempts[q])
           /\ \A q \in Runs : q # r => attempts'[q] = attempts[q]
           /\ attempts'[r][n] = [attempts[r][n] EXCEPT !.lease = l]
           /\ \A k \in 1..Len(attempts[r]) : k # n => attempts'[r][k] = attempts[r][k]
<1> DEFINE e == [attempts[r][n] EXCEPT !.lease = l]
           t == [attempts[r] EXCEPT ![n] = e]
<1>1. attempts[r] \in Seq(Attempt) /\ attempts[r][n] \in Attempt
  OBVIOUS
<1>2. e \in Attempt
  BY <1>1 DEF Attempt
<1>3. attempts' = [attempts EXCEPT ![r] = t] /\ e = [attempts[r][n] EXCEPT !.lease = l]
  OBVIOUS
<1> HIDE DEF e
<1>4. /\ t \in Seq(Attempt) /\ Len(t) = Len(attempts[r]) /\ t[n] = e
      /\ \A k \in 1..Len(attempts[r]) : k # n => t[k] = attempts[r][k]
  BY <1>1, <1>2, ExceptInSeq
<1> HIDE DEF t
<1> QED BY <1>3, <1>4

LEMMA LeaseTickType ==
    ASSUME Rows, Local, NEW r \in Runs, LeaseTick(r)
    PROVE  Rows' /\ Local' /\ Follow
<1>1. PICK n \in 1..Len(attempts[r]) :
        attempts' = [attempts EXCEPT ![r][n].lease = IF @ = "live" THEN "due" ELSE "expired"]
  BY DEF LeaseTick
<1> DEFINE l == IF attempts[r][n].lease = "live" THEN "due" ELSE "expired"
<1>2. attempts' = [attempts EXCEPT ![r][n].lease = l] /\ l \in Leases
  BY <1>1 DEF Leases, Rows
<1> HIDE DEF l
<1>3. attempts' \in [Runs -> Seq(Attempt)]
  BY <1>2, LeaseRow DEF Rows
<1>4. Rows' /\ FenceGrows
  BY <1>3, FenceSame DEF LeaseTick, Rows
<1> QED BY <1>4, LocalSame DEF LeaseTick

LEMMA HeartbeatType ==
    ASSUME Rows, Local, NEW w \in Workers, Heartbeat(w) \/ HeartbeatFails(w)
    PROVE  Rows' /\ Local' /\ Follow
<1> DEFINE c == claim[w]
           c1 == [claim[w] EXCEPT !.beating = FALSE]
<1>1. c \in Claim /\ c.beating /\ pc[w] \notin Away /\ c.run \in Runs
  BY DEF Heartbeat, HeartbeatFails, Local, ClaimShape, ShapeAt, Away, NoClaim, ClaimOf
<1>2. pc[w] \in PC \ Away /\ pc' = [pc EXCEPT ![w] = pc[w]]
  BY <1>1 DEF Heartbeat, HeartbeatFails, Local, PC, Away
<1>3. c1 \in Claim /\ c1.run = c.run /\ c1.fence = c.fence
  BY <1>1 DEF Claim
<1>4. CASE Heartbeat(w) /\ Current(c)
  <2>1. /\ c.attempt \in 1..Len(attempts[c.run]) /\ claim' = [claim EXCEPT ![w] = c]
        /\ attempts' = [attempts EXCEPT ![c.run][c.attempt].lease = "live"]
    BY <1>4 DEF Heartbeat, Current, Local
  <2>2. attempts' \in [Runs -> Seq(Attempt)]
    BY <1>1, <2>1, LeaseRow DEF Rows, Leases
  <2>3. Rows' /\ FenceGrows
    BY <1>4, <2>2, FenceSame DEF Heartbeat, Rows
  <2> QED BY <1>1, <1>2, <2>1, <2>3, LocalStep
<1>5. CASE HeartbeatFails(w) \/ ~ Current(c)
  <2>1. UNCHANGED dbvars /\ claim' = [claim EXCEPT ![w] = c1]
    BY <1>5 DEF Heartbeat, HeartbeatFails, dbvars
  <2> HIDE DEF c1
  <2> QED BY <1>1, <1>2, <1>3, <2>1, LocalOnly
<1> QED BY <1>4, <1>5

-----------------------------------------------------------------------------
(* The claim: the one step that gives a Worker a new fence. *)

\* The rows written by _claim_next, and the fence no other claim can have.
LEMMA ClaimRows ==
    ASSUME Rows, Local, NEW w \in Workers, ClaimNext(w)
    PROVE  \E r \in Runs :
             /\ Rows' /\ Local'
             /\ Claimable(r) /\ (WorkerLossAt(r) => attempt_retry_eligible("WorkerLost", Len(attempts[r])))
             /\ status' = [status EXCEPT ![r] = "running"]
             /\ fence' = [fence EXCEPT ![r] = @ + 1]
             /\ retained' = [retained EXCEPT ![r] = FALSE]
             /\ claim' = [claim EXCEPT ![w] = ClaimOf(r, Len(attempts[r]) + 1, fence[r] + 1, TRUE)]
             /\ \A q \in Runs : q # r => attempts'[q] = attempts[q]
             /\ Len(attempts'[r]) = Len(attempts[r]) + 1
             /\ attempts'[r][Len(attempts[r]) + 1] = NewAttempt(fence[r] + 1)
             /\ \A k \in 1..Len(attempts[r]) :
                  attempts'[r][k] = IF WorkerLossAt(r) /\ k = Len(attempts[r])
                                    THEN Finished(attempts[r][k], "failed", "WorkerLost")
                                    ELSE attempts[r][k]
<1>1. PICK r \in Runs :
        LET n == Len(attempts[r])
            lost == WorkerLossAt(r)
            before == IF lost
                      THEN [attempts[r] EXCEPT ![n] = Finished(@, "failed", "WorkerLost")]
                      ELSE attempts[r]
        IN  /\ Claimable(r)
            /\ lost => attempt_retry_eligible("WorkerLost", n)
            /\ status' = [status EXCEPT ![r] = "running"]
            /\ fence' = [fence EXCEPT ![r] = @ + 1]
            /\ attempts' = [attempts EXCEPT ![r] = Append(before, NewAttempt(fence[r] + 1))]
            /\ retained' = [retained EXCEPT ![r] = FALSE]
            /\ claim' = [claim EXCEPT ![w] = ClaimOf(r, n + 1, fence[r] + 1, TRUE)]
  BY DEF ClaimNext
<1> DEFINE n == Len(attempts[r])
           s == attempts[r]
           e == Finished(s[n], "failed", "WorkerLost")
           before == IF WorkerLossAt(r) THEN [s EXCEPT ![n] = e] ELSE s
           a == NewAttempt(fence[r] + 1)
           c == ClaimOf(r, n + 1, fence[r] + 1, TRUE)
<1>2. /\ s \in Seq(Attempt) /\ n \in Nat /\ n = Len(s) /\ fence[r] \in Nat
      /\ attempts \in [Runs -> Seq(Attempt)]
      /\ a \in Attempt /\ c \in Claim /\ c.run = r /\ c.fence = fence[r] + 1
  <2>1. s \in Seq(Attempt) /\ n \in Nat /\ fence[r] \in Nat
    BY DEF Rows
  <2>2. a \in Attempt
    BY <2>1 DEF NewAttempt, Attempt, AttemptStatus, Leases, NoReason
  <2>3. c \in Claim /\ c.run = r /\ c.fence = fence[r] + 1
    BY <2>1 DEF Claim, ClaimOf, NoReason
  <2> QED BY <2>1, <2>2, <2>3 DEF Rows
<1>3. /\ before \in Seq(Attempt) /\ Len(before) = n
      /\ \A k \in 1..n : before[k] = IF WorkerLossAt(r) /\ k = n THEN e ELSE s[k]
  <2>1. CASE WorkerLossAt(r)
    <3>1. n \in 1..Len(s)
      BY <1>2, <2>1 DEF WorkerLossAt
    <3>2. e \in Attempt
      BY <1>2, <3>1, FinishedType DEF AttemptStatus, Reasons, Retryable
    <3> HIDE DEF e
    <3> QED BY <1>2, <2>1, <3>1, <3>2, ExceptInSeq
  <2>2. CASE ~ WorkerLossAt(r)
    BY <1>2, <2>2
  <2> QED BY <2>1, <2>2
<1>4. attempts' = [attempts EXCEPT ![r] = Append(before, a)]
  BY <1>1
<1> HIDE DEF before, a, e
<1>5. /\ Append(before, a) \in Seq(Attempt) /\ Len(Append(before, a)) = n + 1
      /\ Append(before, a)[n + 1] = a
      /\ \A k \in 1..n : Append(before, a)[k] = before[k]
  BY <1>2, <1>3
<1>6. /\ attempts' \in [Runs -> Seq(Attempt)]
      /\ \A q \in Runs : q # r => attempts'[q] = attempts[q]
      /\ Len(attempts'[r]) = n + 1
      /\ attempts'[r][n + 1] = a
      /\ \A k \in 1..n : attempts'[r][k] = IF WorkerLossAt(r) /\ k = n THEN e ELSE s[k]
  <2> DEFINE t == Append(before, a)
  <2>1. attempts' = [attempts EXCEPT ![r] = t] /\ t \in Seq(Attempt)
    BY <1>4, <1>5
  <2>2. /\ Len(t) = n + 1 /\ t[n + 1] = a
        /\ \A k \in 1..n : t[k] = IF WorkerLossAt(r) /\ k = n THEN e ELSE s[k]
    BY <1>3, <1>5
  <2> HIDE DEF t
  <2>3. attempts'[r] = t
    BY <1>2, <2>1
  <2> QED BY <1>2, <2>1, <2>2, <2>3
<1>7. Rows' /\ FenceGrows
  <2>1. /\ status' = [status EXCEPT ![r] = "running"]
        /\ fence' = [fence EXCEPT ![r] = @ + 1]
        /\ retained' = [retained EXCEPT ![r] = FALSE]
        /\ UNCHANGED <<checkpoints, committed, manifests, result>>
    BY <1>1 DEF ClaimNext
  <2>2. fence' \in [Runs -> Nat] /\ \A q \in Runs : fence[q] <= fence'[q]
    BY <2>1 DEF Rows
  <2>3. status' \in [Runs -> RunStatus] /\ retained' \in [Runs -> BOOLEAN]
    BY <2>1 DEF Rows, RunStatus, Pending
  <2> QED BY <1>6, <2>1, <2>2, <2>3 DEF Rows, FenceGrows
<1>8. pc' = [pc EXCEPT ![w] = "claimed"] /\ claim' = [claim EXCEPT ![w] = c]
  BY <1>1 DEF ClaimNext, Goto
<1>9. Local'
  <2>1. pc' \in [Workers -> PC] /\ claim' \in [Workers -> Claim]
    BY <1>2, <1>8 DEF Local, PC
  <2>2. ASSUME NEW v \in Workers PROVE ShapeAt(v)'
    <3>1. CASE v = w
      <4>1. fence'[r] = fence[r] + 1
        BY <1>1 DEF Rows
      <4>2. pc'[v] = "claimed" /\ claim'[v] = c
        BY <1>8, <3>1 DEF Local
      <4> HIDE DEF c
      <4> QED BY <1>2, <4>1, <4>2 DEF ShapeAt
    <3>2. CASE v # w
      BY <1>7, <1>8, <3>2, ShapeKept DEF Local
    <3> QED BY <3>1, <3>2
  <2> QED BY <2>1, <2>2 DEF Local, ClaimShape
<1> QED BY <1>1, <1>6, <1>7, <1>9 DEF a, e

-----------------------------------------------------------------------------
(* The fence *)

\* No two Workers hold claims of the same run under the same fence.
ClaimsDistinct ==
    \A v, w \in Workers :
        v # w /\ claim[v].fence # 0 /\ claim[w].fence # 0 /\ claim[v].run = claim[w].run
            => claim[v].fence # claim[w].fence

FenceInv == TypeOK /\ ClaimShape /\ ClaimsDistinct

LEMMA FollowDistinct == ASSUME ClaimsDistinct, Follow PROVE ClaimsDistinct'
  BY DEF ClaimsDistinct, Follow

LEMMA FenceInvInit == Init => FenceInv
  BY TypeInit DEF Init, FenceInv, ClaimsDistinct, NoClaim, ClaimOf

LEMMA StepTypes ==
    ASSUME FenceInv, Next
    PROVE  /\ Rows /\ Local
           /\ \/ Rows' /\ Local' /\ Follow
              \/ \E w \in Workers : ClaimNext(w)
<1>1. Rows /\ Local
  BY TypeSplit DEF FenceInv
<1>2. CASE \E r \in Runs : Command(r) \/ LeaseTick(r)
  BY <1>1, <1>2, CommandType, LeaseTickType
<1>3. ASSUME NEW w \in Workers,
             \/ WorkerStep(w) \/ ExecutionFails(w)
             \/ Heartbeat(w) \/ HeartbeatFails(w) \/ Crash(w)
      PROVE  (Rows' /\ Local' /\ Follow) \/ ClaimNext(w)
  <2>1. CASE ExecutionFails(w) \/ Heartbeat(w) \/ HeartbeatFails(w) \/ Crash(w)
    BY <1>1, <2>1, FailsType, HeartbeatType, LeaveType
  <2>2. CASE WorkerStep(w)
    <3>1. CASE \/ RecoverCancelledAttempt(w) \/ NothingToRecover(w)
               \/ ClaimNext(w) \/ ClaimExhausted(w) \/ ClaimNothing(w)
               \/ FinishExhaustedWorkerLoss(w)
      BY <1>1, <3>1, RecoverType, IdleMoveType, ExhaustedType, FinishLossType
    <3>2. CASE \/ ReadCheckpoints(w) \/ VerifyCheckpoints(w)
               \/ StageChunk(w) \/ CommitChunk(w)
               \/ ReadResultEvidence(w) \/ PrepareResult(w) \/ PublishSuccess(w)
      BY <1>1, <3>2, ReadCheckpointsType, VerifyType, StageType, CommitType,
         EvidenceType, PrepareType, PublishType
    <3>3. CASE \/ ObserveCancellation(w) \/ RecordFailure(w)
               \/ Settle(w) \/ ConfirmCancelled(w)
      BY <1>1, <3>3, LeaveType, RecordFailureType, ConfirmType
    <3> QED BY <2>2, <3>1, <3>2, <3>3 DEF WorkerStep
  <2> QED BY <1>3, <2>1, <2>2
<1> QED BY <1>1, <1>2, <1>3 DEF Next

LEMMA FenceInvNext == ASSUME FenceInv, [Next]_vars PROVE FenceInv'
<1>1. CASE UNCHANGED vars
  BY <1>1 DEF FenceInv, vars, TypeOK, ClaimShape, ShapeAt, ClaimsDistinct
<1>2. CASE Next
  <2>1. CASE Rows' /\ Local' /\ Follow
    BY <2>1, FollowDistinct, TypeSplit DEF FenceInv, TypeOK, Rows, Local
  <2>2. ASSUME NEW w \in Workers, ClaimNext(w) PROVE FenceInv'
    <3>1. Rows /\ Local
      BY TypeSplit DEF FenceInv
    <3>2. PICK r \in Runs :
            /\ Rows' /\ Local'
            /\ claim' = [claim EXCEPT ![w] = ClaimOf(r, Len(attempts[r]) + 1, fence[r] + 1, TRUE)]
      BY <2>2, <3>1, ClaimRows
    <3> DEFINE c == ClaimOf(r, Len(attempts[r]) + 1, fence[r] + 1, TRUE)
    <3>3. c.run = r /\ c.fence = fence[r] + 1 /\ fence[r] \in Nat
      BY <3>1 DEF ClaimOf, Rows
    <3>4. /\ claim'[w] = c
          /\ \A v \in Workers : v # w => claim'[v] = claim[v]
      BY <3>1, <3>2 DEF Local
    <3> HIDE DEF c
    <3>5. ASSUME NEW v \in Workers, v # w, claim[v].fence # 0, claim[v].run = r
          PROVE  claim[v].fence # fence[r] + 1
      <4>1. claim[v] \in Claim /\ ShapeAt(v)
        BY <3>1 DEF Local, ClaimShape
      <4>2. claim[v].fence <= fence[r]
        BY <3>5, <4>1 DEF ShapeAt, NoClaim, ClaimOf
      <4> QED BY <3>3, <4>1, <4>2 DEF Claim
    <3>6. ClaimsDistinct'
      BY <3>3, <3>4, <3>5 DEF FenceInv, ClaimsDistinct
    <3> QED BY <3>2, <3>6 DEF FenceInv, TypeOK, Rows, Local
  <2> QED BY <1>2, <2>1, <2>2, StepTypes
<1> QED BY <1>1, <1>2

\* Every reachable state is well typed.
THEOREM TypeCorrect == Spec => []TypeOK
<1>1. Spec => []FenceInv
  BY FenceInvInit, FenceInvNext, PTL DEF Spec
<1>2. FenceInv => TypeOK
  BY DEF FenceInv
<1> QED BY <1>1, <1>2, PTL

\* At most one Worker holds authority over a run, whatever leases have expired,
\* Workers have crashed or cancellations have been accepted in between.
THEOREM AuthorityIsUnique == Spec => []OneAuthority
<1>1. Spec => []FenceInv
  BY FenceInvInit, FenceInvNext, PTL DEF Spec
<1>2. FenceInv => OneAuthority
  <2> SUFFICES ASSUME FenceInv, NEW v \in Workers, NEW w \in Workers,
                      claim[v].beating \/ pc[v] \in Executing,
                      claim[w].beating \/ pc[w] \in Executing,
                      claim[v].run = claim[w].run,
                      Current(claim[v]), Current(claim[w]), v # w
               PROVE  FALSE
    BY DEF OneAuthority
  <2>1. claim[v].fence # 0 /\ claim[w].fence # 0
    BY DEF FenceInv, ClaimShape, ShapeAt, Executing, NoClaim, ClaimOf
  <2>2. claim[v].fence = claim[w].fence
    BY DEF Current
  <2> QED BY <2>1, <2>2 DEF FenceInv, ClaimsDistinct
<1> QED BY <1>1, <1>2, PTL
=============================================================================
