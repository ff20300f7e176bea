---------------------------- MODULE ResearchBatch ----------------------------
(* Execution of Research Batches: several child Runs calculated by one child     *)
(* process under one Batch Attempt, its starting claim and lease, task attempts, *)
(* the shared Alpha-and-Factor artifact of a Strategy Sweep, cancellation, and    *)
(* recovery after Workers and children are lost.  A transaction is one action on  *)
(* the rows of one batch, kept together in batch[b].                              *)
EXTENDS Integers, FiniteSets, Sequences

CONSTANTS Batches, Workers,
          NItems,           \* items of a batch, numbered by their ordinal
          Kinds,            \* Batch Kinds that are admitted
          MaxTaskAttempts,  \* MAX_TASK_ATTEMPTS
          HeadMoves         \* whether the Dataset Head moves on

ASSUME ResearchBatchConstants ==
  /\ Batches # {}
  /\ NItems \in Nat \ {0} /\ MaxTaskAttempts \in Nat \ {0}
  /\ Kinds \subseteq {"factor_evaluation", "strategy_sweep", "independent_strategies"}
  /\ HeadMoves \in BOOLEAN

VARIABLES
  batch,     \* all rows of each batch
  order,     \* batches by created_at
  children,  \* child processes [b, f, phase]; the control file is locked unless "spawned"
  scratch,   \* attempts <<b, f>> that have files in the control directory
  data,      \* the Generation of the batches: "head", "old" or "gone"
  worker

vars == <<batch, order, children, scratch, data, worker>>

Items == 1..NItems
Shared == 0                    \* the shared_alpha_factor task of a Strategy Sweep
Tasks == Items \cup {Shared}
Final == {"succeeded", "completed_with_failures", "failed", "cancelled"}
Errors == {"retryable", "permanent", "exhausted"}

NoBatch ==
  [status |-> "none", fence |-> 0, kind |-> "factor_evaluation",
   outcome |-> [i \in Items |-> "none"],
   run |-> [i \in Items |-> [status |-> "queued", fence |-> 0]],
   row |-> "none", lease |-> "live", exited |-> FALSE, acked |-> FALSE, attempts |-> {},
   used |-> [t \in Tasks |-> 0], open |-> {}, shared |-> "none", artifact |-> FALSE,
   completed |-> 0, retained |-> FALSE, pinned |-> FALSE]

Idle == [pc |-> "idle", b |-> CHOOSE b \in Batches : TRUE, f |-> 0, todo |-> {},
         runs |-> [i \in Items |-> 0], reused |-> FALSE, error |-> "none"]

\* Where a Worker's poll is: with a claim, with a child, with the starting guard locked.
StartPc == {"claimed", "spawn", "starting", "activated"}
ChildPc == {"starting", "activated", "prepare", "share", "sharing", "failing", "unshare",
            "items", "finishing"}
Pcs == StartPc \cup ChildPc \cup {"idle", "claim", "acked", "closing", "settle", "settle2", "cleanup"}

BatchRows ==
  [status : {"none", "queued", "running", "cancelling"} \cup Final, fence : Nat,
   kind : {"factor_evaluation", "strategy_sweep", "independent_strategies"},
   outcome : [Items -> {"none", "succeeded", "failed", "cancelled"}],
   run : [Items -> [status : {"queued", "running", "succeeded", "failed", "cancelled",
                              "deleted"}, fence : Nat]],
   row : {"none", "starting", "running"}, lease : {"live", "lapsed"},
   exited : BOOLEAN, acked : BOOLEAN, attempts : SUBSET Nat,
   used : [Tasks -> 0..MaxTaskAttempts], open : SUBSET Tasks,
   shared : {"none", "pending", "running", "succeeded", "failed", "cancelled"},
   artifact : BOOLEAN, completed : 0..NItems, retained : BOOLEAN, pinned : BOOLEAN]

TypeOK ==
  /\ batch \in [Batches -> BatchRows]
  /\ order \in Seq(Batches)
  /\ children \subseteq [b : Batches, f : Nat, phase : {"spawned", "ready", "working"}]
  /\ scratch \subseteq Batches \X Nat
  /\ data \in {"head", "old", "gone"}
  /\ worker \in [Workers -> [pc : Pcs, b : Batches, f : Nat, todo : SUBSET Items,
                             runs : [Items -> Nat], reused : BOOLEAN,
                             error : Errors \cup {"none"}]]

Init ==
  /\ batch = [b \in Batches |-> NoBatch]
  /\ order = << >>
  /\ children = {}
  /\ scratch = {}
  /\ data = "head"
  /\ worker = [w \in Workers |-> Idle]

---------------------------------------------------------------------------
(* The dataset: a refresh publishes a new Head; collection removes the old      *)
(* Generation once no retention and no pin protects it.                         *)

MoveHead ==
  /\ HeadMoves /\ data = "head"
  /\ data' = "old"
  /\ UNCHANGED <<batch, order, children, scratch, worker>>

Collect ==
  /\ data = "old"
  /\ \A b \in Batches : ~batch[b].retained /\ ~batch[b].pinned
  /\ data' = "gone"
  /\ UNCHANGED <<batch, order, children, scratch, worker>>

---------------------------------------------------------------------------
(* Changes to the rows of one batch that several transactions share              *)

Incomplete(r) == {i \in Items : r.outcome[i] = "none"}

\* _transition_incomplete_batch_owned_executions: a running child Run is fenced.
Transition(r, to) ==
  [r EXCEPT !.run = [i \in Items |->
     IF i \notin Incomplete(r) THEN r.run[i]
     ELSE [status |-> to,
           fence |-> r.run[i].fence + (IF r.run[i].status = "running" THEN 1 ELSE 0)]]]

\* mutant: the durable progress misses items that recovery fails
FailRecoveredUncounted(r, S) ==
  [r EXCEPT !.outcome = [i \in Items |-> IF i \in S THEN "failed" ELSE r.outcome[i]],
            !.run = [i \in Items |-> IF i \in S THEN [r.run[i] EXCEPT !.status = "failed"]
                                     ELSE r.run[i]]]

\* _fail_recovered_item_in_transaction for each item of S, after Transition to queued.
FailRecovered(r, S) ==
  [r EXCEPT !.outcome = [i \in Items |-> IF i \in S THEN "failed" ELSE r.outcome[i]],
            !.run = [i \in Items |-> IF i \in S THEN [r.run[i] EXCEPT !.status = "failed"]
                                     ELSE r.run[i]],
            !.completed = @ + Cardinality(S)]

\* _terminal_status_from_items_in_transaction
TerminalStatus(r) ==
  IF \A i \in Items : r.outcome[i] = "succeeded" THEN "succeeded"
  ELSE IF \E i \in Items : r.outcome[i] = "succeeded" THEN "completed_with_failures"
  ELSE "failed"

Reopened(r) == IF Incomplete(r) # {} THEN "queued" ELSE TerminalStatus(r)

\* mutant: a batch that ends keeps its artifact
ArtifactKept(r) == r

\* _release_private_artifact_in_transaction
ReleaseArtifact(r) == [r EXCEPT !.artifact = FALSE]

\* mutant: the Generation pin is forgotten
RowClosedKeepsPin(r) ==
  [r EXCEPT !.row = "none", !.lease = "live", !.exited = FALSE, !.acked = FALSE, !.open = {}]

\* The attempt or starting row is over and its Generation pin is released.
RowClosed(r) ==
  [r EXCEPT !.row = "none", !.lease = "live", !.exited = FALSE, !.acked = FALSE,
            !.open = {}, !.pinned = FALSE]

Exhausted(why, ordinal) == why # "retryable" \/ ordinal >= MaxTaskAttempts

\* retry_ordinal of an item: its open task, else the ordinal of the Batch Attempt.
RetryOrdinal(r, t) == IF t \in r.open THEN r.used[t] ELSE r.fence

\* _close_factor_attempt_in_transaction: at most one task is open.
FactorFailures(r, why) ==
  CASE why = "exhausted" -> Incomplete(r)
    [] r.open = {} -> IF Exhausted(why, r.fence) THEN Incomplete(r) ELSE {}
    [] OTHER -> {i \in Incomplete(r) \cap r.open : Exhausted(why, r.used[i])}

SweepFailures(r, why) ==
  CASE r.open = {} -> IF Exhausted(why, r.fence) THEN Incomplete(r) ELSE {}
    [] Shared \in r.open -> IF Exhausted(why, r.used[Shared]) THEN Incomplete(r) ELSE {}
    [] OTHER -> {i \in Incomplete(r) \cap r.open : Exhausted(why, r.used[i])}

\* Items that closing an attempt fails instead of leaving them for the next one.
Failures(r, why) ==
  CASE r.kind = "factor_evaluation" -> FactorFailures(r, why)
    [] r.kind = "strategy_sweep" -> SweepFailures(r, why)
    [] OTHER -> {i \in Incomplete(r) : Exhausted(why, RetryOrdinal(r, i))}

\* progress.shared_alpha_factor_status after closing an attempt of a Strategy Sweep.
SharedAfter(r, why) ==
  CASE r.open = {} /\ Exhausted(why, r.fence) /\ r.shared \in {"pending", "running"} -> "failed"
    [] Shared \in r.open -> IF Exhausted(why, r.used[Shared]) THEN "failed" ELSE "pending"
    [] OTHER -> r.shared

\* _close_interrupted_attempt, the policy of the Kind, _finish_interrupted_attempt.
AttemptClosed(r, why) ==
  LET reset == Transition(r, "queued")
      failed == FailRecovered(reset, Failures(r, why))
      shared == IF r.kind = "strategy_sweep"
                THEN [failed EXCEPT !.shared = SharedAfter(r, why)] ELSE failed
      status == Reopened(failed)
      closed == RowClosed([shared EXCEPT !.status = status])
  IN IF r.kind = "strategy_sweep" /\ status # "queued" THEN ReleaseArtifact(closed) ELSE closed

\* _recover_expired_starting_claim and _finish_interrupted_starting_claim.
StartingClosed(r, why) ==
  LET reset == Transition(r, "queued")
      over == Exhausted(why, r.fence)
      failed == IF over THEN FailRecovered(reset, Incomplete(r)) ELSE reset
      closed == RowClosed([failed EXCEPT !.status =
                             IF over THEN TerminalStatus(failed) ELSE "queued"])
  IN IF over /\ r.kind = "strategy_sweep" THEN ReleaseArtifact(closed) ELSE closed

\* _finish_cancelled_batch_in_transaction
Cancelled(r) ==
  LET over == RowClosed(ReleaseArtifact(Transition(r, "cancelled")))
  IN [over EXCEPT
        !.outcome = [i \in Items |-> IF i \in Incomplete(r) THEN "cancelled" ELSE r.outcome[i]],
        !.completed = Cardinality({i \in Items : r.outcome[i] \in {"succeeded", "failed"}}),
        !.shared = IF @ \in {"pending", "running"} THEN "cancelled" ELSE @,
        !.retained = FALSE,
        !.status = "cancelled"]

---------------------------------------------------------------------------
(* Commands of the researcher                                                    *)

\* The rows that _admit_with_outcome inserts for an accepted batch, with its retention.
Admit(b) ==
  /\ batch[b].status = "none"
  /\ data # "gone"
  /\ \E k \in Kinds :
       batch' = [batch EXCEPT ![b] =
                   [NoBatch EXCEPT !.status = "queued", !.kind = k, !.retained = TRUE,
                                   !.shared = IF k = "strategy_sweep" THEN "pending" ELSE "none"]]
  /\ order' = Append(order, b)
  /\ UNCHANGED <<children, scratch, data, worker>>

ScratchLeft(b) == {a \in scratch : ~(a[1] = b /\ a[2] \in batch[b].attempts)}

CancelQueued(b) ==
  /\ batch[b].status = "queued"
  /\ batch' = [batch EXCEPT ![b] = Cancelled([batch[b] EXCEPT !.fence = @ + 1])]
  /\ scratch' = ScratchLeft(b)
  /\ UNCHANGED <<order, children, data, worker>>

CancelRunning(b) ==
  /\ batch[b].status = "running"
  /\ batch' = [batch EXCEPT ![b].status = "cancelling", ![b].fence = @ + 1]
  /\ UNCHANGED <<order, children, scratch, data, worker>>

\* preserve_deleted_run_history: a child Run goes only after its final outcome.
DeleteRun(b, i) ==
  /\ batch[b].outcome[i] # "none"
  /\ batch[b].run[i].status # "deleted"
  /\ batch' = [batch EXCEPT ![b].run[i].status = "deleted"]
  /\ UNCHANGED <<order, children, scratch, data, worker>>

---------------------------------------------------------------------------
(* Locks in the control directory                                                *)

Guarded(b, f) == \E w \in Workers :
  worker[w].b = b /\ worker[w].f = f /\ worker[w].pc \in StartPc

\* mutant: the lock of the control file is not tried
ChildAssumedExited(b, f) == TRUE

\* _confirm_child_exited: the child's lock on the control file is free.
ChildExited(b, f) == ~\E c \in children : c.b = b /\ c.f = f /\ c.phase # "spawned"

\* _confirm_starting_child_exited: the starting guard is free as well.
StartingExited(b, f) == ~Guarded(b, f) /\ ChildExited(b, f)

\* Fence of the open row: a cancelling batch is one ahead of it.
RowFence(r) == IF r.status = "cancelling" THEN r.fence - 1 ELSE r.fence

RowExited(b) ==
  LET r == batch[b] IN
  CASE r.row = "none" -> TRUE
    [] r.row = "starting" -> StartingExited(b, RowFence(r))
    [] OTHER -> ChildExited(b, RowFence(r))

---------------------------------------------------------------------------
(* The poll of a Worker: cancellations, then one claim                           *)

\* The cancelling batch that was created first.
Cancelling(b) ==
  /\ batch[b].status = "cancelling"
  /\ \E k \in DOMAIN order :
       order[k] = b /\ \A j \in 1..(k - 1) : batch[order[j]].status # "cancelling"

Reconcilable(b) == Cancelling(b) /\ RowExited(b)

\* _reconcile_cancelling_batch ends the poll when it settled the oldest one.
Reconcile(w) ==
  /\ worker[w].pc = "idle"
  /\ \E b \in Batches :
       /\ Reconcilable(b)
       /\ batch' = [batch EXCEPT ![b] = Cancelled(@)]
       /\ scratch' = ScratchLeft(b)
  /\ UNCHANGED <<order, children, data, worker>>

NothingToReconcile(w) ==
  /\ worker[w].pc = "idle"
  /\ ~\E b \in Batches : Reconcilable(b)
  /\ worker' = [worker EXCEPT ![w].pc = "claim"]
  /\ UNCHANGED <<batch, order, children, scratch, data>>

\* mutant: expired starting claims are not recovered
RecoverableAttempts(b) ==
  batch[b].status = "running" /\ batch[b].row = "running" /\ batch[b].lease = "lapsed"
  /\ RowExited(b)

\* Running batches whose lease is over and whose child is gone; others are deferred.
Recoverable(b) ==
  /\ batch[b].status = "running" /\ batch[b].row # "none" /\ batch[b].lease = "lapsed"
  /\ RowExited(b)

Recovered(r) ==
  IF r.row = "starting" THEN StartingClosed(r, "retryable") ELSE AttemptClosed(r, "retryable")

ClaimableRow(b) == IF Recoverable(b) THEN Recovered(batch[b]) ELSE batch[b]

Claimable == {b \in Batches : ClaimableRow(b).status = "queued"}
Settled == {b \in Batches : Recoverable(b) /\ ClaimableRow(b).status # "queued"}

\* The starting claim, the pin and the child Runs of _claim_next.
Claimed(r) ==
  [r EXCEPT !.status = "running", !.fence = @ + 1, !.row = "starting", !.lease = "live",
            !.pinned = TRUE, !.retained = FALSE,
            !.run = [i \in Items |-> IF i \in Incomplete(r)
                       THEN [status |-> "running", fence |-> r.run[i].fence + 1] ELSE r.run[i]]]

\* One transaction: some lost batches are settled on the way to the one claimed.
\* Which claimable batch comes first is the fair order of FairClaim.
Claim(w, b) ==
  /\ worker[w].pc = "claim"
  /\ b \in Claimable
  /\ data # "gone"
  /\ LET new == Claimed(ClaimableRow(b)) IN
     /\ \E R \in SUBSET (Settled \ {b}) :
          batch' = [c \in Batches |-> IF c = b THEN new
                                      ELSE IF c \in R THEN Recovered(batch[c]) ELSE batch[c]]
     /\ worker' = [worker EXCEPT ![w] =
          [Idle EXCEPT !.pc = "claimed", !.b = b, !.f = new.fence, !.todo = Incomplete(new),
                       !.runs = [i \in Items |-> new.run[i].fence]]]
  /\ UNCHANGED <<order, children, scratch, data>>

ClaimNothing(w) ==
  /\ worker[w].pc = "claim"
  /\ Claimable = {}
  /\ batch' = [b \in Batches |-> IF b \in Settled THEN Recovered(batch[b]) ELSE batch[b]]
  /\ worker' = [worker EXCEPT ![w].pc = "idle"]
  /\ UNCHANGED <<order, children, scratch, data>>

\* pin_generation_in_transaction raises: the transaction is rolled back, the process ends.
ClaimRaises(w) ==
  /\ worker[w].pc = "claim"
  /\ Claimable # {} /\ data = "gone"
  /\ worker' = [worker EXCEPT ![w].pc = "idle"]
  /\ UNCHANGED <<batch, order, children, scratch, data>>

---------------------------------------------------------------------------
(* What the transactions of a claim ask of the rows                              *)

Row(w) == batch[worker[w].b]
ChildIs(w, phases) == \E c \in children :
  c.b = worker[w].b /\ c.f = worker[w].f /\ c.phase \in phases
WithoutChild(w) == {c \in children : ~(c.b = worker[w].b /\ c.f = worker[w].f)}
Child(w, phase) == [b |-> worker[w].b, f |-> worker[w].f, phase |-> phase]

\* The starting row of the claim: its id is the attempt, so no other claim has it.
StartingRow(w) == Row(w).row = "starting" /\ RowFence(Row(w)) = worker[w].f
AttemptRow(w) == Row(w).row = "running" /\ RowFence(Row(w)) = worker[w].f

\* mutant: the status and fence of the batch are not compared
AuthorizedByRow(w) == AttemptRow(w)

\* _authorize_claim_in_transaction, and the check of the live progress
Authorized(w) ==
  /\ AttemptRow(w)
  /\ Row(w).status = "running" /\ Row(w).fence = worker[w].f
  /\ Row(w).lease = "live"

\* _authorize_starting_claim_staging
StartingAuthorized(w) ==
  StartingRow(w) /\ Row(w).status = "running" /\ Row(w).lease = "live"

\* _validate_batch_owned_run_in_transaction
RunIsMine(w, i) ==
  Row(w).run[i] = [status |-> "running", fence |-> worker[w].runs[i]]

Goto(w, pc) == worker' = [worker EXCEPT ![w].pc = pc]

\* An exception in the body of process_next; with a child it has to be closed first.
Raises(w, why) ==
  /\ worker' = [worker EXCEPT ![w].pc = IF @ \in ChildPc \cup {"acked"} THEN "closing"
                                        ELSE "settle",
                              ![w].error = why]
  /\ UNCHANGED <<batch, order, children, scratch, data>>

\* A transaction of the claim: its effect on the rows when it is authorized, else an error.
Transaction(w, authorized, new, pc) ==
  IF authorized
  THEN /\ batch' = [batch EXCEPT ![worker[w].b] = new]
       /\ Goto(w, pc)
       /\ UNCHANGED <<order, children, scratch, data>>
  ELSE Raises(w, "permanent")

---------------------------------------------------------------------------
(* Starting the child                                                            *)

\* _materialize_private_artifact of a Strategy Sweep; other Kinds reuse nothing.
Materialize(w) ==
  /\ worker[w].pc = "claimed"
  /\ IF ~(Row(w).kind = "strategy_sweep" /\ Row(w).artifact)
     THEN /\ Goto(w, "spawn") /\ UNCHANGED <<batch, order, children, scratch, data>>
     ELSE IF StartingAuthorized(w)
     THEN /\ worker' = [worker EXCEPT ![w].pc = "spawn", ![w].reused = TRUE]
          /\ scratch' = scratch \cup {<<worker[w].b, worker[w].f>>}
          /\ UNCHANGED <<batch, order, children, data>>
     ELSE Raises(w, "retryable")

Spawn(w) ==
  /\ worker[w].pc = "spawn"
  /\ children' = children \cup {Child(w, "spawned")}
  /\ Goto(w, "starting")
  /\ UNCHANGED <<batch, order, scratch, data>>

\* The child read its request and locked its control file, then answers child_ready.
ChildReady(c) ==
  /\ c \in children /\ c.phase = "spawned"
  /\ children' = (children \ {c}) \cup {[c EXCEPT !.phase = "ready"]}
  /\ UNCHANGED <<batch, order, scratch, data, worker>>

\* _activate_starting_claim_in_transaction asks only for the starting row and its lease.
Activate(w) ==
  /\ worker[w].pc = "starting" /\ ChildIs(w, {"ready"})
  /\ IF StartingRow(w) /\ Row(w).lease = "live"
     THEN /\ batch' = [batch EXCEPT ![worker[w].b].row = "running",
                                    ![worker[w].b].attempts = @ \cup {worker[w].f}]
          /\ Goto(w, "activated")
          /\ UNCHANGED <<order, children, scratch, data>>
     ELSE Raises(w, "retryable")

\* The first live progress; then the guard is released and the child may work.
ReportStarted(w) ==
  /\ worker[w].pc = "activated" /\ ChildIs(w, {"ready"})
  /\ IF Authorized(w)
     THEN /\ Goto(w, "prepare")
          /\ children' = WithoutChild(w) \cup {Child(w, "working")}
          /\ UNCHANGED <<batch, order, scratch, data>>
     ELSE Raises(w, "permanent")

Prepared(w) ==
  /\ worker[w].pc = "prepare" /\ ChildIs(w, {"working"})
  /\ IF Row(w).kind = "strategy_sweep" THEN Goto(w, "share") ELSE Goto(w, "items")
  /\ scratch' = IF Row(w).kind = "factor_evaluation" THEN scratch
                ELSE scratch \cup {<<worker[w].b, worker[w].f>>}
  /\ UNCHANGED <<batch, order, children, data>>

---------------------------------------------------------------------------
(* Tasks: the shared prerequisite of a sweep, then the items                     *)

\* _ensure_factor_task_attempt and _ensure_strategy_task_attempt in a transaction.
TaskFits(r, t) ==
  /\ t \in r.open \/ r.used[t] < MaxTaskAttempts
  /\ r.kind # "independent_strategies" => r.open \subseteq {t}

TaskOpened(r, t) ==
  IF t \in r.open THEN r ELSE [r EXCEPT !.open = @ \cup {t}, !.used[t] = @ + 1]

StartShared(w) ==
  /\ worker[w].pc = "share" /\ ChildIs(w, {"working"})
  /\ LET r == Row(w) IN
     IF worker[w].reused
     THEN Transaction(w, Authorized(w) /\ r.shared \in {"pending", "succeeded"}
                           /\ (r.shared = "succeeded" => r.artifact),
                      [r EXCEPT !.shared = IF @ = "pending" THEN "running" ELSE @], "sharing")
     ELSE Transaction(w, TaskFits(r, Shared) /\ Authorized(w) /\ r.shared = "pending",
                      [TaskOpened(r, Shared) EXCEPT !.shared = "running"], "sharing")

\* _acknowledge_private_artifact
ShareSucceeds(w) ==
  /\ worker[w].pc = "sharing" /\ ChildIs(w, {"working"})
  /\ LET r == Row(w) IN
     IF worker[w].reused
     THEN Transaction(w, Authorized(w) /\ r.artifact, r, "items")
     ELSE Transaction(w, Authorized(w) /\ ~r.artifact /\ Shared \in r.open /\ r.shared = "running",
                      [r EXCEPT !.artifact = TRUE, !.open = @ \ {Shared}, !.shared = "succeeded"],
                      "items")

\* Items are handed out by their ordinals.
FirstItem(S) == {i \in S : \A j \in S : i <= j}

\* The child reports shared_alpha_factor_failed: its items fail one by one.
ShareFails(w) ==
  /\ worker[w].pc = "sharing" /\ ChildIs(w, {"working"})
  /\ Goto(w, "failing")
  /\ UNCHANGED <<batch, order, children, scratch, data>>

\* _complete_item_in_transaction with the outcome of the child Run.
ItemCompleted(r, i, outcome) ==
  [r EXCEPT !.outcome[i] = outcome, !.run[i].status = outcome, !.open = @ \ {i},
            !.completed = @ + 1]

\* Also taken by the items of a failed prerequisite, while its task is open.
MayComplete(w, i) ==
  /\ Authorized(w) /\ RunIsMine(w, i)
  /\ i \in Row(w).open \/ (Row(w).kind = "strategy_sweep" /\ Shared \in Row(w).open)
  /\ Row(w).outcome[i] = "none"

FailItemOfShared(w) ==
  /\ worker[w].pc = "failing"
  /\ \E i \in FirstItem(worker[w].todo) :
     IF MayComplete(w, i)
     THEN /\ batch' = [batch EXCEPT ![worker[w].b] = ItemCompleted(Row(w), i, "failed")]
          /\ worker' = [worker EXCEPT ![w].todo = @ \ {i},
                                      ![w].pc = IF worker[w].todo = {i} THEN "unshare" ELSE @]
          /\ UNCHANGED <<order, children, scratch, data>>
     ELSE Raises(w, "permanent")

\* _fail_shared_alpha_factor
FailShared(w) ==
  /\ worker[w].pc = "unshare"
  /\ LET r == Row(w) IN
     Transaction(w, Authorized(w) /\ Shared \in r.open /\ r.shared = "running",
                 [r EXCEPT !.open = @ \ {Shared}, !.shared = "failed"], "items")

\* Independent strategies all start first; other Kinds take the items in order.
NextToStart(w) ==
  LET waiting == worker[w].todo \ Row(w).open IN
  IF Row(w).kind = "independent_strategies" \/ Row(w).open = {}
  THEN FirstItem(waiting) ELSE {}

\* item_started, and the live progress of its task
StartItem(w, i) ==
  /\ worker[w].pc = "items" /\ ChildIs(w, {"working"})
  /\ AttemptRow(w) => i \in NextToStart(w)
  /\ i \in worker[w].todo
  /\ Transaction(w, TaskFits(Row(w), i) /\ Row(w).outcome[i] = "none" /\ Authorized(w),
                 TaskOpened(Row(w), i), "items")

\* The message that ends an item, and the transaction that completes its child Run.
EndItem(w, i, outcome) ==
  /\ worker[w].pc = "items" /\ ChildIs(w, {"working"})
  /\ i \in worker[w].todo
  /\ AttemptRow(w) => i \in Row(w).open /\ NextToStart(w) = {}
  /\ IF MayComplete(w, i)
     THEN /\ batch' = [batch EXCEPT ![worker[w].b] = ItemCompleted(Row(w), i, outcome)]
          /\ worker' = [worker EXCEPT ![w].todo = @ \ {i}]
          /\ UNCHANGED <<order, children, scratch, data>>
     ELSE Raises(w, "permanent")

\* complete_batch_owned_factor_item publishes the Result with the final chunk.
FactorItemSucceeds(w, i) ==
  Row(w).kind = "factor_evaluation" /\ EndItem(w, i, "succeeded")

\* complete_batch_owned_strategy_item publishes the Result with the staged partitions.
StrategyItemSucceeds(w, i) ==
  Row(w).kind # "factor_evaluation" /\ EndItem(w, i, "succeeded")

\* fail_batch_owned_item
ItemFails(w, i) == EndItem(w, i, "failed")

---------------------------------------------------------------------------
(* The end of an attempt                                                         *)

\* batch_succeeded: _validate_claim, acknowledge, and the child ends by itself.
Acknowledge(w) ==
  /\ worker[w].pc = "items" /\ worker[w].todo = {} /\ ChildIs(w, {"working"})
  /\ IF Authorized(w)
     THEN /\ children' = WithoutChild(w)
          /\ Goto(w, "finishing")
          /\ UNCHANGED <<batch, order, scratch, data>>
     ELSE Raises(w, "permanent")

\* The exit event of the acknowledged child; a row that is over no longer matters.
RecordAcknowledged(w) ==
  /\ worker[w].pc = "finishing"
  /\ \E recorded \in BOOLEAN :
       batch' = IF AttemptRow(w) /\ recorded
                THEN [batch EXCEPT ![worker[w].b].exited = TRUE, ![worker[w].b].acked = TRUE]
                ELSE batch
  /\ Goto(w, "acked")
  /\ UNCHANGED <<order, children, scratch, data>>

\* _finish_successful_attempt; no lease is asked for, a deleted child Run raises.
MayFinish(w) ==
  /\ AttemptRow(w) /\ Row(w).exited /\ Row(w).acked
  /\ ChildExited(worker[w].b, worker[w].f)
  /\ \A i \in Items : Row(w).run[i].status \in {"succeeded", "failed", "cancelled"}
  /\ Row(w).status = "running" /\ Row(w).fence = worker[w].f
  /\ Row(w).completed = NItems

FinishSuccessful(w) ==
  /\ worker[w].pc = "acked"
  /\ Transaction(w, MayFinish(w),
                 RowClosed([ReleaseArtifact(Row(w)) EXCEPT !.status = TerminalStatus(Row(w))]),
                 "cleanup")

\* The child is lost: the next read from its pipe fails.
ChildLost(w) ==
  /\ worker[w].pc \in ChildPc \ {"failing", "unshare", "finishing"}
  /\ ~ChildIs(w, {"spawned", "ready", "working"})
  /\ Raises(w, "retryable")

\* Anything else that goes wrong in the body: storage, the database, memory, a bad message.
Fails(w, why) ==
  /\ worker[w].pc \in (StartPc \cup ChildPc \cup {"acked"})
  /\ Raises(w, why)

\* The child is stopped and its exit recorded, unless the database is away.
CloseChild(w) ==
  /\ worker[w].pc = "closing"
  /\ children' = WithoutChild(w)
  /\ \/ /\ AttemptRow(w)
        /\ \E recorded \in BOOLEAN :
             batch' = [batch EXCEPT ![worker[w].b].exited = @ \/ recorded]
        /\ Goto(w, "settle")
     \/ /\ StartingRow(w) /\ Goto(w, "settle") /\ UNCHANGED batch
     \/ \* another Worker ended the attempt: the exit event may raise, nothing else is left to do
        /\ ~AttemptRow(w) /\ ~StartingRow(w)
        /\ Goto(w, "cleanup") /\ UNCHANGED batch
  /\ UNCHANGED <<order, scratch, data>>

CancelPending(w) == Row(w).status = "cancelling" /\ Row(w).fence = worker[w].f + 1

\* _finish_cancelling_claim: it raises while the child's exit is not confirmed.
SettleCancelled(w) ==
  /\ worker[w].pc = "settle"
  /\ IF ~CancelPending(w)
     THEN Goto(w, "settle2") /\ UNCHANGED <<batch, scratch>>
     ELSE /\ Goto(w, "cleanup")
          /\ IF Row(w).row # "none" /\ RowExited(worker[w].b)
             THEN /\ batch' = [batch EXCEPT ![worker[w].b] = Cancelled(@)]
                  /\ scratch' = ScratchLeft(worker[w].b)
             ELSE UNCHANGED <<batch, scratch>>
  /\ UNCHANGED <<order, children, data>>

\* _finish_interrupted_starting_claim, or the close of the Kind's attempt; a refused
\* transaction is reported and leaves the batch to the recovery of expired leases.
SettleInterrupted(w) ==
  /\ worker[w].pc = "settle2"
  /\ Goto(w, "cleanup")
  /\ LET b == worker[w].b
         why == worker[w].error IN
     \/ /\ StartingRow(w) /\ StartingExited(b, worker[w].f) /\ Row(w).status = "running"
        /\ batch' = [batch EXCEPT ![b] = StartingClosed(@, why)]
     \/ /\ Authorized(w) /\ Row(w).exited /\ ChildExited(b, worker[w].f)
        /\ batch' = [batch EXCEPT ![b] = AttemptClosed(@, why)]
     \/ /\ ~(StartingRow(w) /\ StartingExited(b, worker[w].f) /\ Row(w).status = "running")
        /\ ~(Authorized(w) /\ Row(w).exited /\ ChildExited(b, worker[w].f))
        /\ UNCHANGED batch
  /\ UNCHANGED <<order, children, scratch, data>>

\* _cleanup_attempt_scratch in the finally clause of process_next
Cleanup(w) ==
  /\ worker[w].pc = "cleanup"
  /\ scratch' = scratch \ {<<worker[w].b, worker[w].f>>}
  /\ worker' = [worker EXCEPT ![w] = Idle]
  /\ UNCHANGED <<batch, order, children, data>>

---------------------------------------------------------------------------
(* Time, losses and housekeeping                                                 *)

\* The lease runs out: the heartbeat stopped, failed once, or the database was away.
LeaseLapses(b) ==
  /\ batch[b].row # "none" /\ batch[b].lease = "live"
  /\ batch' = [batch EXCEPT ![b].lease = "lapsed"]
  /\ UNCHANGED <<order, children, scratch, data, worker>>

Owned(b, f) == \E w \in Workers :
  worker[w].b = b /\ worker[w].f = f /\ worker[w].pc \in StartPc \cup ChildPc \cup {"acked"}

\* No heartbeat renews the lease: it runs out for certain.
HeartbeatStopped(b) == ~Owned(b, RowFence(batch[b])) /\ LeaseLapses(b)

\* A child dies, or ends itself when its supervisor closed the pipe.
ChildExits(c) ==
  /\ c \in children
  /\ children' = children \ {c}
  /\ UNCHANGED <<batch, order, scratch, data, worker>>

OrphanExits(c) ==
  /\ ~\E w \in Workers : worker[w].b = c.b /\ worker[w].f = c.f /\ worker[w].pc \in ChildPc
  /\ ChildExits(c)

Crash(w) ==
  /\ worker[w].pc \notin {"idle", "claim"}
  /\ worker' = [worker EXCEPT ![w] = Idle]
  /\ UNCHANGED <<batch, order, children, scratch, data>>

\* reconcile_attempt_files: old files of attempts that hold no live lease.
Active(a) ==
  LET r == batch[a[1]] IN r.row # "none" /\ RowFence(r) = a[2] /\ r.lease = "live"

ReconcileFiles(a) ==
  /\ a \in scratch /\ ~Active(a)
  /\ scratch' = scratch \ {a}
  /\ UNCHANGED <<batch, order, children, data, worker>>

---------------------------------------------------------------------------

Command(b) ==
  Admit(b) \/ CancelQueued(b) \/ CancelRunning(b) \/ (\E i \in Items : DeleteRun(b, i))
Poll(w) ==
  \/ Reconcile(w) \/ NothingToReconcile(w) \/ ClaimNothing(w) \/ ClaimRaises(w)
  \/ \E b \in Batches : Claim(w, b)
Start(w) == Materialize(w) \/ Spawn(w) \/ Activate(w) \/ ReportStarted(w) \/ Prepared(w)
Work(w) ==
  \/ StartShared(w) \/ ShareSucceeds(w) \/ ShareFails(w) \/ FailItemOfShared(w) \/ FailShared(w)
  \/ \E i \in Items : \/ StartItem(w, i) \/ FactorItemSucceeds(w, i)
                      \/ StrategyItemSucceeds(w, i) \/ ItemFails(w, i)
  \/ Acknowledge(w) \/ ChildLost(w)
End(w) ==
  \/ RecordAcknowledged(w) \/ FinishSuccessful(w) \/ CloseChild(w)
  \/ SettleCancelled(w) \/ SettleInterrupted(w) \/ Cleanup(w)

Next ==
  \/ MoveHead \/ Collect
  \/ \E b \in Batches : Command(b) \/ LeaseLapses(b)
  \/ \E w \in Workers : \/ Poll(w) \/ Start(w) \/ Work(w) \/ End(w) \/ Crash(w)
                        \/ \E why \in Errors : Fails(w, why)
  \/ \E c \in children : ChildReady(c) \/ ChildExits(c)
  \/ \E a \in scratch : ReconcileFiles(a)

Spec == Init /\ [][Next]_vars

\* Workers keep polling and go on with what they claimed, a child starts or ends, a lease
\* that nobody renews runs out, and the housekeeping of the control directory comes round.
Fairness ==
  /\ \A w \in Workers : /\ SF_vars(Poll(w)) /\ WF_vars(Start(w)) /\ WF_vars(Work(w))
                        /\ WF_vars(End(w))
  /\ \A b \in Batches : WF_vars(HeartbeatStopped(b))
  /\ WF_vars(\E c \in children : ChildReady(c) \/ OrphanExits(c))
  /\ WF_vars(\E a \in scratch : ReconcileFiles(a))

FairSpec == Spec /\ Fairness

---------------------------------------------------------------------------
(* Properties                                                                *)

\* A running or cancelling batch has exactly one open starting claim or attempt, and its
\* Generation is pinned exactly as long, on every way an attempt can end.
RowFollowsStatus ==
  \A b \in Batches :
    LET r == batch[b] IN
    /\ (r.status \in {"running", "cancelling"}) <=> (r.row # "none")
    /\ r.pinned <=> (r.row # "none")
    /\ r.open # {} => r.row = "running"

\* Items, child Runs and the durable progress tell one story although four transactions
\* of the Worker, two recoveries and the cancellation write them.
ItemsAgree ==
  \A b \in Batches :
    LET r == batch[b] IN
    /\ r.completed = Cardinality({i \in Items : r.outcome[i] \in {"succeeded", "failed"}})
    /\ \A i \in Items :
         IF r.outcome[i] = "none"
         THEN r.run[i].status = IF r.row = "none" THEN "queued" ELSE "running"
         ELSE r.run[i].status \in {r.outcome[i], "deleted"}
    /\ r.status \in Final => Incomplete(r) = {}

\* A sweep that goes on reuses a private artifact exactly when its shared task succeeded;
\* a sweep that is over keeps none.
ArtifactAgrees ==
  \A b \in Batches :
    LET r == batch[b] IN
    IF r.status \in Final THEN ~r.artifact ELSE r.artifact <=> (r.shared = "succeeded")

\* A child that calculates belongs to the open attempt of its batch, so no two children of
\* a batch work at once and the Generation they read is pinned: no row is closed, by
\* recovery or cancellation, before the child's lock is free.
WorkingChildOwnsRow ==
  \A c \in children : c.phase = "working" =>
    batch[c.b].row = "running" /\ RowFence(batch[c.b]) = c.f

\* Losses, crashes and retries use up the attempts of tasks: a batch is not claimed for ever.
AttemptsBounded ==
  \A b \in Batches : batch[b].fence <= MaxTaskAttempts * (Cardinality(Tasks) + 1) + 1

\* The rows of a batch, its items and child Runs, its artifact, its children and its count
\* of attempts tell one story, whoever wrote them and in whatever order.
RowsAgree ==
  RowFollowsStatus /\ ItemsAgree /\ ArtifactAgrees /\ WorkingChildOwnsRow /\ AttemptsBounded

\* docs/adr/0154: active Research pins exact Generations so later refreshes cannot change
\* accepted work.  The Generation of a batch that is not over stays on the mount.  The code
\* does not keep it while no attempt has a pin (README, 9).
AcceptedInputKept ==
  \A b \in Batches : batch[b].status \in {"queued", "running", "cancelling"} => data # "gone"

Contract == INSTANCE BatchContract WITH
  phase <- [b \in Batches |-> IF batch[b].status \in {"queued", "running"} THEN "open"
                              ELSE batch[b].status],
  decided <- [b \in Batches |-> batch[b].outcome]

\* What a researcher sees of a batch is a behaviour of BatchContract: no outcome or
\* verdict ever changes, whichever Worker, recovery or command writes it.
ImplementsContract == Contract!Spec

\* Batch b waits for no Worker and no cancellation; nothing of a final one is left on disk.
Decided(b) == batch[b].status \notin {"queued", "running", "cancelling"}
Reclaimed(b) == batch[b].status \in Final => \A a \in scratch : a[1] # b

=============================================================================
