--------------------------- MODULE UnifiedRefresh ---------------------------
(***************************************************************************)
(* The dataset kind of Refresh (data/refresh.py, data/unified_refresh.py): *)
(* one operation prepares the market, benchmark, financial and industry    *)
(* stages against the Dataset Head it started from, checkpoints every      *)
(* stage in its row, and publishes the result and its benchmark snapshot   *)
(* with one switch of the Head file.  A failed or expired attempt is       *)
(* retried and may reuse the checkpointed stages; so may an explicit Retry, *)
(* which is a new operation carrying a copy of the old one's preparation.  *)
(*                                                                         *)
(* A Generation is the set of family updates it contains: a stage adds its *)
(* own update to what it was built on, or nothing when the source had no   *)
(* change.  A benchmark snapshot is the set of market updates it covers,   *)
(* with a mark of the attempt that prepared it.  The attempt number of a   *)
(* running row plays the part of the owner token: every claim draws a new  *)
(* one.                                                                    *)
(***************************************************************************)
EXTENDS Integers, FiniteSets, FiniteSetsExt

CONSTANTS
    Keys,           \* idempotency keys of dataset operations
    Workers,        \* Data Operator processes that may overlap
    Changing,       \* stages whose source may report a change
    MaxAttempts,    \* the service's max_attempts
    Limits,         \* bounds: the largest counts of faults that may come together
    None

FaultKinds ==
    {"outside",     \* Head moves by other publishers
     "pauses",      \* leases that lapse under a worker still running
     "deaths"}      \* workers that die

ASSUME BoundsAssumption ==
    /\ MaxAttempts \in Nat \ {0}
    /\ Limits \subseteq [FaultKinds -> Nat]

VARIABLES
    head,       \* the Head file: [g, b]
    op,         \* data.refresh_operations, by key
    child,      \* status of the stage rows, by <<key, attempt, stage>>
    worker,     \* the processes
    lifecycle,  \* holder of the data lifecycle lock across the Head switch
    finLock,    \* holder of the session lock financial-daily-refresh
    faults      \* how often each fault has happened

vars == <<head, op, child, worker, lifecycle, finLock, faults>>
locks == <<lifecycle, finLock>>

Stages == {"financial", "industry"}
Children == Keys \X (1..MaxAttempts) \X Stages

NoState == [base |-> None, bb |-> None, market |-> None, benchmark |-> None,
            financial |-> None, industry |-> None,
            fkey |-> None, ikey |-> None]

NoRow == [st |-> "none", att |-> 0, live |-> FALSE, exp |-> None, cand |-> None,
          phase |-> "none", prep |-> NoState, of |-> None, ord |-> 0]

Idle == [pc |-> "idle", key |-> None, att |-> 0, base |-> None, bb |-> None,
         st |-> NoState, ready |-> FALSE]

\* The Head bootstrap leaves: market data and no benchmark snapshot yet (b is
\* empty).
Init ==
    /\ head = [g |-> {<<"market", None, 0>>}, b |-> {}]
    /\ op = [k \in Keys |-> NoRow]
    /\ child = [c \in Children |-> "none"]
    /\ worker = [w \in Workers |-> Idle]
    /\ lifecycle = None
    /\ finLock = None
    /\ faults = [f \in FaultKinds |-> 0]

Unlocked == lifecycle = None
At(w, l) == worker[w].pc = l
To(w, l) == worker' = [worker EXCEPT ![w].pc = l]
Row(w) == op[worker[w].key]

\* The session lock goes with the statement block that took it.
Released(w) == finLock' = IF finLock = w THEN None ELSE finLock

\* process_next returns or raises.
Leave(w) == worker' = [worker EXCEPT ![w] = Idle] /\ Released(w)

\* The WHERE clause every statement of a claim carries: running, this owner
\* token, lease not yet expired.
Owned(w) ==
    /\ Row(w).st = "running" /\ Row(w).att = worker[w].att
    /\ Row(w).live

(***************************************************************************)
(* Submission, cancellation and explicit Retry.                            *)
(***************************************************************************)
\* created_at is the start of the inserting transaction, so rows may become
\* visible in another order.
Submitted(k, row) ==
    /\ op[k].st = "none"
    /\ \E o \in 1..Cardinality(Keys) :
          /\ \A j \in Keys : op[j].ord # o
          /\ op' = [op EXCEPT ![k] = [row EXCEPT !.st = "accepted", !.ord = o]]

Submit(k) ==
    /\ Submitted(k, NoRow)
    /\ UNCHANGED <<head, child, worker, locks, faults>>

Cancel(k) ==
    /\ op[k].st = "accepted" /\ Unlocked
    /\ op' = [op EXCEPT ![k].st = "cancelled"]
    /\ UNCHANGED <<head, child, worker, locks, faults>>

\* The operations connected to k by retry_of, found from the root down.
Ancestors(k) ==
    LET up[n \in 0..Cardinality(Keys)] ==
            IF n = 0 THEN {k}
            ELSE LET known == up[n - 1]
                 IN  known \cup ({op[j].of : j \in known} \ {None})
    IN  up[Cardinality(Keys)]

Lineage(k) == {j \in Keys : op[j].st # "none" /\ Ancestors(j) \cap Ancestors(k) # {}}

RetryableUnchecked(k) == op[k].st \in {"failed", "cancelled"}

\* A dataset operation is retried when it ended badly and nobody of its
\* lineage is waiting, at work or done.
Retryable(k) ==
    /\ op[k].st \in {"failed", "cancelled"}
    /\ \A j \in Lineage(k) : op[j].st \notin {"accepted", "running", "succeeded"}

Retry(k, new) ==
    /\ Retryable(k) /\ Unlocked
    /\ Submitted(new, [NoRow EXCEPT !.prep = op[k].prep, !.of = k])
    /\ UNCHANGED <<head, child, worker, locks, faults>>

(***************************************************************************)
(* process_next: reconcile, recover, claim.                                *)
(***************************************************************************)
\* _reconcile_pending_completion reads the Head, then the rows that name it;
\* the candidate goes with the row to the transaction that completes it.
ReadPointer(w) ==
    /\ At(w, "idle")
    /\ worker' = [worker EXCEPT ![w].pc = "pointer", ![w].base = head.g]
    /\ UNCHANGED <<head, op, child, locks, faults>>

Pending(w, k) == op[k].st = "running" /\ op[k].cand = worker[w].base

\* At most one operation is running, so at most one is found.
ReadPending(w) ==
    /\ At(w, "pointer")
    /\ \/ \E k \in Keys :
            /\ Pending(w, k)
            /\ worker' = [worker EXCEPT ![w].pc = "found", ![w].key = k]
       \/ /\ \A k \in Keys : ~Pending(w, k)
          /\ worker' = [worker EXCEPT ![w] = [Idle EXCEPT !.pc = "reconciled"]]
    /\ UNCHANGED <<head, op, child, locks, faults>>

ReconcilableByManifest(k, manifest) ==
    op[k].st = "running" /\ head.g = manifest /\ op[k].cand # None

\* Under the lock a row whose publication is the Head is completed: the
\* Generation read with the row, the benchmark and the phase have to say so.
Reconcilable(k, manifest) ==
    /\ op[k].st = "running" /\ head.g = manifest
    /\ op[k].phase = "publication" /\ head.b = op[k].prep.benchmark
    /\ op[k].cand # None

ReconcileApply(w) ==
    /\ At(w, "found") /\ Unlocked
    /\ op' = IF Reconcilable(worker[w].key, worker[w].base)
             THEN [op EXCEPT ![worker[w].key].st = "succeeded"] ELSE op
    /\ worker' = [worker EXCEPT ![w] = [Idle EXCEPT !.pc = "reconciled"]]
    /\ UNCHANGED <<head, child, locks, faults>>

\* _abandon_unfinished_preparation: stage rows the preparation names but has
\* no result for.
Unfinished(prep) ==
    (IF prep.fkey # None /\ prep.financial = None THEN {prep.fkey} ELSE {})
        \cup (IF prep.ikey # None /\ prep.industry = None THEN {prep.ikey} ELSE {})

Abandon(preps) ==
    [c \in Children |->
        IF child[c] = "running" /\ \E p \in preps : c \in Unfinished(p)
        THEN "failed" ELSE child[c]]

\* The row of an attempt that is over: back in the queue or failed for good.
AttemptOver(row, retry) ==
    IF retry
    THEN [row EXCEPT !.st = "accepted", !.live = FALSE, !.exp = None,
                     !.cand = None, !.phase = "none"]
    ELSE [row EXCEPT !.st = "failed", !.live = FALSE]

Recover(w) ==
    LET expired == {k \in Keys : op[k].st = "running" /\ ~op[k].live} IN
    /\ At(w, "reconciled") /\ Unlocked
    /\ child' = Abandon({op[k].prep : k \in expired})
    /\ op' = [k \in Keys |-> IF k \in expired
                             THEN AttemptOver(op[k], op[k].att < MaxAttempts)
                             ELSE op[k]]
    /\ To(w, "recovered")
    /\ UNCHANGED <<head, locks, faults>>

Waiting == {k \in Keys : op[k].st = "accepted"}

\* One operation runs at a time, the oldest first.
Claimable == IF \E k \in Keys : op[k].st = "running" THEN {}
             ELSE {k \in Waiting : \A j \in Waiting : op[k].ord <= op[j].ord}

Claim(w) ==
    /\ At(w, "recovered") /\ Unlocked
    /\ \/ Claimable = {} /\ Leave(w) /\ UNCHANGED op
       \/ \E k \in Claimable :
              /\ UNCHANGED finLock
              /\ op' = [op EXCEPT ![k].st = "running", ![k].live = TRUE,
                                  ![k].att = @ + 1, ![k].phase = "claim"]
              /\ worker' = [worker EXCEPT ![w] =
                    [Idle EXCEPT !.pc = "claimed", !.key = k, !.att = op[k].att + 1]]
    /\ UNCHANGED <<head, child, lifecycle, faults>>

(***************************************************************************)
(* _process_dataset_claim and UnifiedRefreshPreparation.prepare.           *)
(***************************************************************************)
\* Where the owner is asked: by a statement of the operation's row (the
\* phase is recorded before every stage) or by the guard of the heartbeat.
Guarded ==
    {"claimed", "pointed", "loaded", "stages", "bm_save", "fin_insert", "fin_build",
     "fin_save", "ind_insert", "ind_build", "ind_save", "validated", "protected",
     "publication", "complete"}

\* _RefreshFenced: the worker gives up without touching the row.
Fenced(w) ==
    /\ worker[w].pc \in Guarded /\ ~Owned(w)
    /\ Leave(w)
    /\ UNCHANGED <<head, op, child, lifecycle, faults>>

\* The Head is read under the lock, and recorded as the expected one if it
\* still is.
ReadHead(w) ==
    /\ At(w, "claimed") /\ Unlocked
    /\ worker' = [worker EXCEPT ![w].pc = "pointed", ![w].base = head.g, ![w].bb = head.b]
    /\ UNCHANGED <<head, op, child, locks, faults>>

RecordExpected(w) ==
    /\ At(w, "pointed") /\ Unlocked /\ Owned(w) /\ head.g = worker[w].base
    /\ op' = [op EXCEPT ![worker[w].key].exp = worker[w].base]
    /\ To(w, "begun")
    /\ UNCHANGED <<head, child, locks, faults>>

\* The saved preparation, and the stage rows it left unfinished closed; this
\* transaction does not ask whether the claim is still held.
LoadPreparation(w) ==
    /\ At(w, "begun")
    /\ child' = Abandon({Row(w).prep})
    /\ worker' = [worker EXCEPT ![w].pc = "loaded", ![w].st = Row(w).prep]
    /\ UNCHANGED <<head, op, locks, faults>>

\* A prepared family is reused only with the exact base it was built against.
Reusable(st, base, bb) == st.base = base /\ st.bb = bb

\* _save_preparation, fenced by owner and lease.
Save(w, st, next) ==
    /\ Owned(w)
    /\ op' = [op EXCEPT ![worker[w].key].prep = st]
    /\ worker' = [worker EXCEPT ![w].st = st, ![w].pc = next]

Rebase(w) ==
    /\ At(w, "loaded")
    /\ IF Reusable(worker[w].st, worker[w].base, worker[w].bb)
       THEN To(w, "stages") /\ UNCHANGED op
       ELSE Save(w, [NoState EXCEPT !.base = worker[w].base, !.bb = worker[w].bb], "stages")
    /\ UNCHANGED <<head, child, locks, faults>>

\* The first stage without a result.
Stage(st) ==
    CASE st.market = None    -> "market"
      [] st.benchmark = None -> "benchmark"
      [] st.financial = None -> "financial"
      [] st.industry = None  -> "industry"
      [] OTHER               -> "done"

\* What building stage s on generation g gives: g itself when the source
\* reports no change, or g with this attempt's update.
Built(w, s, g) ==
    {g} \cup (IF s \in Changing THEN {g \cup {<<s, worker[w].key, worker[w].att>>}} ELSE {})

MarketStage(w) ==
    /\ At(w, "stages") /\ Stage(worker[w].st) = "market"
    /\ \E g \in Built(w, "market", worker[w].base) :
          Save(w, [worker[w].st EXCEPT !.market = g], "stages")
    /\ UNCHANGED <<head, child, locks, faults>>

MarketUpdates(g) == {u \in g : u[1] = "market"}

BenchmarkOfBase(w) ==
    IF MarketUpdates(worker[w].base) \subseteq head.b THEN head.b
    ELSE head.b \cup MarketUpdates(worker[w].base) \cup {<<"benchmark", worker[w].key, worker[w].att>>}

\* The published snapshot, extended when the market generation goes further.
BenchmarkOf(w) ==
    IF MarketUpdates(worker[w].st.market) \subseteq head.b THEN head.b
    ELSE head.b \cup MarketUpdates(worker[w].st.market)
                \cup {<<"benchmark", worker[w].key, worker[w].att>>}

BenchmarkStage(w) ==
    /\ At(w, "stages") /\ Stage(worker[w].st) = "benchmark"
    /\ worker' = [worker EXCEPT ![w].pc = "bm_save", ![w].st.benchmark = BenchmarkOf(w)]
    /\ UNCHANGED <<head, op, child, locks, faults>>

BenchmarkSave(w) ==
    /\ At(w, "bm_save")
    /\ Save(w, worker[w].st, "stages")
    /\ UNCHANGED <<head, child, locks, faults>>

\* The name of the stage row is checkpointed before the row exists ...
FinancialKey(w) ==
    /\ At(w, "stages") /\ Stage(worker[w].st) = "financial"
    /\ Save(w, [worker[w].st EXCEPT !.fkey = <<worker[w].key, worker[w].att, "financial">>],
            "fin_lock")
    /\ UNCHANGED <<head, child, locks, faults>>

\* ... and inserted without the fence, under the session lock of the daily
\* financial preparation.
LockFinancial(w) ==
    /\ At(w, "fin_lock") /\ finLock = None
    /\ finLock' = w
    /\ To(w, "fin_insert")
    /\ UNCHANGED <<head, op, child, lifecycle, faults>>

FinancialInsert(w) ==
    /\ At(w, "fin_insert")
    /\ child' = [child EXCEPT ![worker[w].st.fkey] = "running"]
    /\ To(w, "fin_build")
    /\ UNCHANGED <<head, op, locks, faults>>

\* The candidate composed on the market generation is recorded while the
\* stage row is running.
FinancialBuild(w) ==
    /\ At(w, "fin_build") /\ child[worker[w].st.fkey] = "running"
    /\ \E g \in Built(w, "financial", worker[w].st.market) :
          worker' = [worker EXCEPT ![w].pc = "fin_composed", ![w].st.financial = g]
    /\ UNCHANGED <<head, op, child, locks, faults>>

\* The row is closed if it still runs; the stage is over either way.
FinancialPrepared(w) ==
    /\ At(w, "fin_composed")
    /\ child' = [child EXCEPT ![worker[w].st.fkey] = IF @ = "running" THEN "prepared" ELSE @]
    /\ To(w, "fin_save") /\ Released(w)
    /\ UNCHANGED <<head, op, lifecycle, faults>>

FinancialSave(w) ==
    /\ At(w, "fin_save")
    /\ Save(w, worker[w].st, "stages")
    /\ UNCHANGED <<head, child, locks, faults>>

IndustryKey(w) ==
    /\ At(w, "stages") /\ Stage(worker[w].st) = "industry"
    /\ Save(w, [worker[w].st EXCEPT !.ikey = <<worker[w].key, worker[w].att, "industry">>],
            "ind_insert")
    /\ UNCHANGED <<head, child, locks, faults>>

IndustryInsert(w) ==
    /\ At(w, "ind_insert")
    /\ child' = [child EXCEPT ![worker[w].st.ikey] = "running"]
    /\ To(w, "ind_build")
    /\ UNCHANGED <<head, op, locks, faults>>

IndustryBuild(w) ==
    /\ At(w, "ind_build")
    /\ child[worker[w].st.ikey] = "running"
    /\ child' = [child EXCEPT ![worker[w].st.ikey] = "succeeded"]
    /\ \E g \in Built(w, "industry", worker[w].st.financial) :
          worker' = [worker EXCEPT ![w].pc = "ind_save", ![w].st.industry = g]
    /\ UNCHANGED <<head, op, locks, faults>>

IndustrySave(w) ==
    /\ At(w, "ind_save")
    /\ Save(w, worker[w].st, "stages")
    /\ UNCHANGED <<head, child, locks, faults>>

Validate(w) ==
    /\ At(w, "stages") /\ Stage(worker[w].st) = "done"
    /\ worker' = [worker EXCEPT ![w].pc = "validated", ![w].ready = TRUE]
    /\ UNCHANGED <<head, op, child, locks, faults>>

(***************************************************************************)
(* Publication.                                                            *)
(***************************************************************************)
\* _record_candidate_in_transaction, as the admission guard of the candidate.
Protect(w) ==
    /\ At(w, "validated") /\ Unlocked /\ Owned(w)
    /\ head.g = worker[w].base /\ Row(w).exp = worker[w].base
    /\ op' = [op EXCEPT ![worker[w].key].cand = worker[w].st.industry]
    /\ To(w, "protected")
    /\ UNCHANGED <<head, child, locks, faults>>

EnterPublication(w) ==
    /\ At(w, "protected") /\ Owned(w)
    /\ op' = [op EXCEPT ![worker[w].key].phase = "publication"]
    /\ To(w, "publication")
    /\ UNCHANGED <<head, child, locks, faults>>

MaySwitchUncompared(w) ==
    Owned(w) /\ Row(w).exp = worker[w].base /\ Row(w).cand = worker[w].st.industry

\* _require_owned_refresh and the compare of the compare-and-swap.
MaySwitch(w) ==
    /\ Owned(w)
    /\ Row(w).exp = worker[w].base /\ Row(w).cand = worker[w].st.industry
    /\ head.g = worker[w].base

\* The Head file is replaced inside the transaction, before it commits: the
\* lifecycle lock is held until CommitSwitch.
SwitchHead(w) ==
    /\ At(w, "publication") /\ Unlocked /\ MaySwitch(w)
    /\ head' = [g |-> worker[w].st.industry, b |-> worker[w].st.benchmark]
    /\ lifecycle' = w
    /\ To(w, "switched")
    /\ UNCHANGED <<op, child, finLock, faults>>

\* The commit renews the lease whether or not it has lapsed meanwhile.
CommitSwitch(w) ==
    /\ At(w, "switched")
    /\ lifecycle' = None
    /\ op' = [op EXCEPT ![worker[w].key].live = TRUE]
    /\ To(w, "complete")
    /\ UNCHANGED <<head, child, finLock, faults>>

Complete(w) ==
    /\ At(w, "complete") /\ Unlocked /\ Owned(w)
    /\ head.g = worker[w].st.industry
    /\ op' = [op EXCEPT ![worker[w].key].st = "succeeded"]
    /\ Leave(w)
    /\ UNCHANGED <<head, child, lifecycle, faults>>

\* _complete_published raises when the Head is already another one.
Superseded(w) ==
    /\ At(w, "complete") /\ Unlocked
    /\ head.g # worker[w].st.industry
    /\ Leave(w)
    /\ UNCHANGED <<head, op, child, lifecycle, faults>>

(***************************************************************************)
(* Failure.                                                                *)
(***************************************************************************)
Outside == {"idle", "pointer", "found", "reconciled", "recovered", "raised", "failing"}

\* An exception, or a check above that does not hold.  The transaction that
\* holds the lifecycle lock is rolled back; the Head file is not.
Raised(w) ==
    /\ To(w, "raised") /\ Released(w)
    /\ lifecycle' = IF lifecycle = w THEN None ELSE lifecycle

Fails(w) ==
    /\ worker[w].pc \notin Outside
    /\ Raised(w)
    /\ UNCHANGED <<head, op, child, faults>>

\* A stage that raises closes its own row first: the financial one always,
\* the industry one when its source or its candidate was at fault.
StageFails(w) ==
    /\ worker[w].pc \in {"fin_build", "fin_composed", "ind_build"}
    /\ LET row == IF At(w, "ind_build") THEN worker[w].st.ikey ELSE worker[w].st.fkey
       IN  child' = [child EXCEPT ![row] = IF @ = "running" THEN "failed" ELSE @]
    /\ Raised(w)
    /\ UNCHANGED <<head, op, faults>>

\* If the Head already is this attempt's publication the row is left to the
\* reconciliation.  The Head file is read without the lock.
PublicationPending(w) ==
    /\ worker[w].ready
    /\ head = [g |-> worker[w].st.industry, b |-> worker[w].st.benchmark]

AskPending(w) ==
    /\ At(w, "raised")
    /\ IF PublicationPending(w) THEN Leave(w) ELSE To(w, "failing") /\ UNCHANGED finLock
    /\ UNCHANGED <<head, op, child, lifecycle, faults>>

\* _record_failure, with the stage rows closed, unless the claim is lost.
RecordFailure(w) ==
    /\ At(w, "failing") /\ Unlocked
    /\ IF Owned(w)
       THEN /\ child' = Abandon({Row(w).prep})
            /\ \E retryable \in BOOLEAN :
                  op' = [op EXCEPT ![worker[w].key] =
                           AttemptOver(@, retryable /\ worker[w].att < MaxAttempts)]
       ELSE UNCHANGED <<child, op>>
    /\ Leave(w)
    /\ UNCHANGED <<head, lifecycle, faults>>

(***************************************************************************)
(* The environment.                                                        *)
(***************************************************************************)
Fault(f) ==
    LET after == [faults EXCEPT ![f] = @ + 1] IN
    /\ \E l \in Limits : \A g \in FaultKinds : after[g] <= l[g]
    /\ faults' = after

\* It dies; or its heartbeat fails although the lease is good, or a statement
\* outside a claim or of the failure does, and it gives up.
Dies(w) ==
    /\ ~At(w, "idle")
    /\ Fault("deaths")
    /\ lifecycle' = IF lifecycle = w THEN None ELSE lifecycle
    /\ Leave(w)
    /\ UNCHANGED <<head, op, child>>

\* The lease of a running row lapses: nobody heartbeats it any more, or the
\* worker that does is paused.
LeaseLapses(k) ==
    LET alive == \E w \in Workers : worker[w].key = k /\ worker[w].att = op[k].att IN
    /\ op[k].st = "running" /\ op[k].live
    /\ IF alive THEN Fault("pauses") ELSE UNCHANGED faults
    /\ op' = [op EXCEPT ![k].live = FALSE]
    /\ UNCHANGED <<head, child, worker, locks>>

\* Another publisher moves the Head: a financial publication from the command
\* line at any time, or a market refresh without changes (which moves only
\* the benchmark) when no other operation is running.
OutsideMove ==
    /\ Unlocked /\ Fault("outside")
    /\ \/ head' = [head EXCEPT !.g = @ \cup {<<"outside", None, faults["outside"]>>}]
       \/ /\ \A k \in Keys : op[k].st # "running"
          /\ head' = [head EXCEPT !.b = @ \cup MarketUpdates(head.g)
                                         \cup {<<"outside", None, faults["outside"]>>}]
    /\ UNCHANGED <<op, child, worker, locks>>

Work(w) ==
    \/ ReadPointer(w) \/ ReadPending(w) \/ ReconcileApply(w) \/ Recover(w) \/ Claim(w)
    \/ Fenced(w) \/ ReadHead(w) \/ RecordExpected(w) \/ LoadPreparation(w) \/ Rebase(w)
    \/ MarketStage(w) \/ BenchmarkStage(w) \/ BenchmarkSave(w)
    \/ FinancialKey(w) \/ LockFinancial(w) \/ FinancialInsert(w) \/ FinancialBuild(w)
    \/ FinancialPrepared(w) \/ FinancialSave(w)
    \/ IndustryKey(w) \/ IndustryInsert(w) \/ IndustryBuild(w) \/ IndustrySave(w)
    \/ Validate(w) \/ Protect(w) \/ EnterPublication(w)
    \/ SwitchHead(w) \/ CommitSwitch(w) \/ Complete(w) \/ Superseded(w)
    \/ Fails(w) \/ StageFails(w) \/ AskPending(w) \/ RecordFailure(w)

Next ==
    \/ \E k \in Keys : Submit(k) \/ Cancel(k) \/ LeaseLapses(k)
    \/ \E k, new \in Keys : Retry(k, new)
    \/ \E w \in Workers : Work(w) \/ Dies(w)
    \/ OutsideMove

Spec == Init /\ [][Next]_vars

(***************************************************************************)
(* Properties.                                                             *)
(***************************************************************************)
Statuses == {"none", "accepted", "running", "succeeded", "failed", "cancelled"}

TypeOK ==
    /\ \A k \in Keys :
          /\ op[k].st \in Statuses /\ op[k].att \in 0..MaxAttempts
          /\ op[k].live => op[k].st \in {"running", "succeeded"}
    /\ child \in [Children -> {"none", "running", "prepared", "succeeded", "failed"}]
    /\ lifecycle \in Workers \cup {None}
    /\ Cardinality({k \in Keys : op[k].st = "running"}) <= 1

\* A switch of the Head never drops an update another publisher made after
\* the preparation started, and never goes back to an older benchmark: a
\* candidate is published over exactly the base it was built on, whichever
\* attempt, operation or Retry prepared its parts (Reusable, MaySwitch).
NothingOverwritten == head.g \subseteq head'.g /\ head.b \subseteq head'.b

\* The Head's benchmark, once there is one, covers the market data of the
\* Head's Generation: the two are published together and never mixed from two
\* preparations.
BenchmarkBelongs == head.b # {} => MarketUpdates(head.g) \subseteq head.b

\* An operation reported as published was published: when its row becomes
\* succeeded, by its worker or by a reconciliation after a crash, the Head is
\* its Generation together with its benchmark.
SucceededMeansPublished ==
    \A k \in Keys : op[k].st # "succeeded" /\ op'[k].st = "succeeded" =>
        head = [g |-> op[k].cand, b |-> op[k].prep.benchmark]

\* Retries of one request do not compete: in a lineage at most one operation
\* waits, runs or has succeeded.
OneOfLineage ==
    \A j, k \in Keys :
        j # k /\ {op[j].st, op[k].st} \subseteq {"accepted", "running", "succeeded"}
        => j \notin Lineage(k)

\* No stage row is left running once the work is over: data collection
\* refuses to start while one is (_data_work_is_active), so an abandoned row
\* would keep it from ever running again.
WorkIsOver ==
    /\ \A k \in Keys : op[k].st \notin {"accepted", "running"}
    /\ \A w \in Workers : At(w, "idle")

NoStageLeftRunning == WorkIsOver => \A c \in Children : child[c] # "running"
=============================================================================
