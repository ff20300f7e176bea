---------------------------- MODULE DataLifecycle ----------------------------
(***************************************************************************)
(* The mounted Dataset Head, the durable Refresh queue that moves it       *)
(* (data/refresh.py, head_store.py), the retentions that keep a Data       *)
(* Generation on the mount (data/lifecycle.py) and the garbage collection  *)
(* of its files (data/collection.py).                                      *)
(*                                                                         *)
(* A transaction that takes the lifecycle lock is one action; work on the  *)
(* mount lies between transactions.  Writers hold the mounted-mutation     *)
(* lock shared for the length of their work and a collection tries it      *)
(* exclusively, but the rows are the last word: a refresh is not claimed   *)
(* while a collection is running, nor a collection planned while a refresh *)
(* is.  The market kind of Refresh is modelled.                            *)
(***************************************************************************)
EXTENDS Naturals, FiniteSets

CONSTANTS
    Generations,   \* generation manifest digests
    FilesOf,       \* FilesOf[g]: the files generation g references, its root included
    Root,          \* Root[g]: the manifest file of g
    Bootstrapped,  \* the first Head
    Operations,    \* refresh operations, numbered in the order of submission
    MaxAttempts,   \* max_attempts of the Refresh service
    Workers,       \* Data Operator processes
    Owners,        \* runs, batches and track attempts
    Collections    \* idempotency keys of collections

ASSUME RootAssumption == \A g \in Generations : Root[g] \in FilesOf[g]
ASSUME BootstrapAssumption == Bootstrapped \in Generations
ASSUME NoneAssumption == "none" \notin Generations
ASSUME OperationsAssumption == Operations \subseteq Nat
ASSUME AttemptsAssumption == MaxAttempts \in Nat \ {0}

VARIABLES
    files,        \* the inventory of the mount
    head,         \* generation the Head entry names
    ops,          \* data.refresh_operations
    candidates,   \* live rows of data.generation_candidates, by operation id
    owner,        \* retention or pin of each owner, and the generation it froze
    collections,  \* data.collection_operations with its targets and roots
    worker,       \* local state of each worker
    collector     \* local state of the collection process

vars == <<files, head, ops, candidates, owner, collections, worker, collector>>

-----------------------------------------------------------------------------
Files == UNION {FilesOf[g] : g \in Generations}
Reachable(roots) == UNION {FilesOf[g] : g \in roots}

\* _operation_id: each claim has a token of its own, here the attempt number.
OperationIds == Operations \X (1..MaxAttempts)

Row(status, attempts, lease, expected, generation) ==
    [status |-> status, attempts |-> attempts, lease |-> lease, expected |-> expected,
     generation |-> generation]
Unsubmitted == Row("none", 0, "none", "none", "none")
Deleted == Row("deleted", 0, "none", "none", "none")

Job(pc, op, token, expected, generation, written, session) ==
    [pc |-> pc, op |-> op, token |-> token, expected |-> expected,
     generation |-> generation, written |-> written, session |-> session]
NoJob == Job("idle", 0, 0, "none", "none", {}, "none")

Plan(status, targets, deleted, roots) ==
    [status |-> status, targets |-> targets, deleted |-> deleted, roots |-> roots]
Unplanned == Plan("none", {}, {}, {})

Pass(pc, key, roots, inventory, file, session) ==
    [pc |-> pc, key |-> key, roots |-> roots, inventory |-> inventory, file |-> file,
     session |-> session]
NoPass == Pass("idle", "none", {}, {}, "none", "none")

Running(k) == ops[k].status = "running"
Settled(k) == ops[k].status \in {"succeeded", "failed", "cancelled"}
DataWorkActive == \E k \in Operations : Running(k)
CollectionActive == \E c \in Collections : collections[c].status = "running"

\* retention_root_ids_in_transaction: leases are not looked at.
RootsOfPins == {owner[o].generation : o \in {x \in Owners : owner[x].pc = "pinned"}}
RootsOfCandidates ==
    {owner[o].generation : o \in {x \in Owners : owner[x].pc = "retained"}}
        \cup {candidates[i] : i \in {x \in OperationIds : candidates[x] # "none"}}
RetentionRootsOfHeadOnly == {head}  \* mutant: the rows are not read
RetentionRoots == {head} \cup RootsOfPins \cup RootsOfCandidates

Init ==
    /\ files = FilesOf[Bootstrapped]
    /\ head = Bootstrapped
    /\ ops = [k \in Operations |-> Unsubmitted]
    /\ candidates = [i \in OperationIds |-> "none"]
    /\ owner = [o \in Owners |-> [pc |-> "idle", generation |-> "none"]]
    /\ collections = [c \in Collections |-> Unplanned]
    /\ worker = [w \in Workers |-> NoJob]
    /\ collector = NoPass

-----------------------------------------------------------------------------
(* Submission.  Rows are taken to commit in the order of their created_at. *)

Submit(k) ==
    /\ ops[k].status = "none"
    /\ \A j \in Operations : j < k => ops[j].status # "none"
    /\ ops' = [ops EXCEPT ![k] = Row("accepted", 0, "none", "none", "none")]
    /\ UNCHANGED <<files, head, candidates, owner, collections, worker, collector>>

Cancel(k) ==
    /\ ops[k].status = "accepted"
    /\ ops' = [ops EXCEPT ![k].status = "cancelled"]
    /\ UNCHANGED <<files, head, candidates, owner, collections, worker, collector>>

-----------------------------------------------------------------------------
(* Refresh worker *)

Close(w) == worker' = [worker EXCEPT ![w] = NoJob]
Proceed(w, pc) == worker' = [worker EXCEPT ![w].pc = pc]

\* The condition every update of a claimed row carries.
OwnedByStatus(w) ==  \* mutant: only the status is compared
    Running(worker[w].op)
Owned(w) ==
    LET row == ops[worker[w].op]
    IN  row.status = "running" /\ row.attempts = worker[w].token /\ row.lease = "live"

OperationId(w) == <<worker[w].op, worker[w].token>>
Released(ids) == [i \in OperationIds |-> IF i \in ids THEN "none" ELSE candidates[i]]

\* process_next: the shared lock is waited for while a collection holds it.
OpenWork(w) ==
    /\ worker[w].pc = "idle"
    /\ collector.session # "held"
    /\ worker' = [worker EXCEPT ![w] = Job("polling", 0, 0, "none", "none", {}, "held")]
    /\ UNCHANGED <<files, head, ops, candidates, owner, collections, collector>>

\* _reconcile_pending_completion first reads the Head and the running row that names it,
\* without the lifecycle lock; at most one row is running.
ReconcilableUnpublished ==  \* mutant: the Head is not compared
    {k \in Operations : Running(k) /\ ops[k].generation # "none"}
Reconcilable == {k \in Operations : Running(k) /\ ops[k].generation = head}

ReadPending(w) ==
    /\ worker[w].pc = "polling"
    /\ \/ \E k \in Reconcilable :
             worker' = [worker EXCEPT ![w] = Job("noted", k, 0, "none", head, {}, @.session)]
       \/ Reconcilable = {} /\ Proceed(w, "reconciled")
    /\ UNCHANGED <<files, head, ops, candidates, owner, collections, collector>>

\* Under the lock the Head must still be the one that was read; the row is read again, and
\* completed if it names a candidate.
ReconcilePendingCompletion(w) ==
    LET k == worker[w].op
        confirmed == Running(k) /\ head = worker[w].generation
    IN  /\ worker[w].pc = "noted"
        /\ \/ /\ confirmed
              /\ candidates' = Released({<<k, ops[k].attempts>>})
              /\ ops' = IF ops[k].generation = "none" THEN ops
                        ELSE [ops EXCEPT ![k].status = "succeeded"]
           \/ ~ confirmed /\ UNCHANGED <<ops, candidates>>
        /\ worker' = [worker EXCEPT ![w] = Job("reconciled", 0, 0, "none", "none", {}, @.session)]
        /\ UNCHANGED <<files, head, owner, collections, collector>>

AfterFailure(row, retryable) ==
    IF retryable /\ row.attempts < MaxAttempts
    THEN Row("accepted", row.attempts, "none", "none", "none")
    ELSE Row("failed", row.attempts, row.lease, row.expected, row.generation)

Lapsed == {k \in Operations : Running(k) /\ ops[k].lease = "lapsed"}

RecoverExpiredClaims(w) ==
    /\ worker[w].pc = "reconciled"
    /\ ops' = [k \in Operations |-> IF k \in Lapsed THEN AfterFailure(ops[k], TRUE) ELSE ops[k]]
    /\ candidates' = Released({<<k, ops[k].attempts>> : k \in Lapsed})
    /\ Proceed(w, "recovered")
    /\ UNCHANGED <<files, head, owner, collections, collector>>

\* _claim: one running operation, oldest accepted first, none beside a collection.
ClaimableBesideCollection(k) ==  \* mutant: collection_is_active is not asked
    /\ ops[k].status = "accepted" /\ ~ DataWorkActive
    /\ \A j \in Operations : ops[j].status = "accepted" => k <= j
ClaimableAnyOrder(k) ==  \* mutant: no ORDER BY
    ~ CollectionActive /\ ~ DataWorkActive /\ ops[k].status = "accepted"
Claimable(k) ==
    /\ ~ CollectionActive /\ ~ DataWorkActive
    /\ ops[k].status = "accepted"
    /\ \A j \in Operations : ops[j].status = "accepted" => k <= j

Claim(w) ==
    /\ worker[w].pc = "recovered"
    /\ \/ \E k \in Operations :
             /\ Claimable(k)
             /\ ops' = [ops EXCEPT ![k] = Row("running", @.attempts + 1, "live", "none", "none")]
             /\ worker' = [worker EXCEPT ![w] =
                              Job("claimed", k, ops[k].attempts + 1, "none", "none", {}, @.session)]
       \/ /\ \A k \in Operations : ~ Claimable(k)
          /\ Close(w)
          /\ UNCHANGED ops
    /\ UNCHANGED <<files, head, candidates, owner, collections, collector>>

\* current_pointer and _record_expected_head
RecordExpectedHead(w) ==
    /\ worker[w].pc = "claimed"
    /\ Owned(w)
    /\ ops' = [ops EXCEPT ![worker[w].op].expected = head]
    /\ worker' = [worker EXCEPT ![w] = Job("collecting", @.op, @.token, head, "none", {}, @.session)]
    /\ UNCHANGED <<files, head, candidates, owner, collections, collector>>

\* _complete_no_change, when the collected batch equals the Head's.
CompleteNoChange(w) ==
    /\ worker[w].pc = "collecting"
    /\ Owned(w) /\ head = worker[w].expected
    /\ ops' = [ops EXCEPT ![worker[w].op] = Row("succeeded", @.attempts, @.lease, head, head)]
    /\ Close(w)
    /\ UNCHANGED <<files, head, candidates, owner, collections, collector>>

\* materialize_refresh: files that are already there are reused, the root comes last.
Materialize(w, g) ==
    /\ worker[w].pc = "collecting"
    /\ g # worker[w].expected
    /\ worker' = [worker EXCEPT ![w] =
                     Job("writing", @.op, @.token, @.expected, g, {}, @.session)]
    /\ UNCHANGED <<files, head, ops, candidates, owner, collections, collector>>

WriteFile(w, f) ==
    LET job == worker[w]
    IN  /\ job.pc = "writing"
        /\ f \in FilesOf[job.generation] \ job.written
        /\ f = Root[job.generation] => FilesOf[job.generation] \subseteq job.written \cup {f}
        /\ files' = files \cup {f}
        /\ worker' = [worker EXCEPT ![w].written = @ \cup {f}]
        /\ UNCHANGED <<head, ops, candidates, owner, collections, collector>>

\* protected_refresh_candidate: _register_candidate with _record_candidate_in_transaction.
ProtectCandidate(w) ==
    LET job == worker[w]
    IN  /\ job.pc = "writing" /\ job.written = FilesOf[job.generation]
        /\ head = job.expected
        /\ Owned(w) /\ ops[job.op].expected = job.expected
        /\ ~ CollectionActive
        /\ ops' = [ops EXCEPT ![job.op].generation = job.generation]
        /\ candidates' = [candidates EXCEPT ![OperationId(w)] = job.generation]
        /\ Proceed(w, "protected")
        /\ UNCHANGED <<files, head, owner, collections, collector>>

\* compare_and_swap_refresh_head: the entry is renamed inside the transaction, whose
\* commit may be lost; then the row is left running and reconciled later.
MoveHead(w) ==
    LET job == worker[w]
    IN  /\ job.pc = "protected"
        /\ Owned(w)
        /\ ops[job.op].expected = job.expected /\ ops[job.op].generation = job.generation
        /\ candidates[OperationId(w)] = job.generation
        /\ head = job.expected
        /\ head' = job.generation
        /\ \/ candidates' = Released({OperationId(w)}) /\ Proceed(w, "moved")
           \/ UNCHANGED candidates /\ Close(w)
        /\ UNCHANGED <<files, ops, owner, collections, collector>>

\* _complete_published
CompletePublished(w) ==
    LET job == worker[w]
        current == Owned(w) /\ head = job.generation
    IN  /\ job.pc = "moved"
        /\ \/ current /\ ops' = [ops EXCEPT ![job.op].status = "succeeded"]
           \/ ~ current /\ UNCHANGED ops
        /\ Close(w)
        /\ UNCHANGED <<files, head, candidates, owner, collections, collector>>

\* An exception: _record_failure, which a stale owner rolls back.  During publication
\* _post_cas_head_state is asked first, and a Head that did move leaves the row running.
WorkerFails(w) ==
    LET job == worker[w]
        recorded == Owned(w) /\ ~ (job.pc = "protected" /\ head = job.generation)
    IN  /\ job.pc \in {"claimed", "collecting", "writing", "protected"}
        /\ \/ /\ recorded
              /\ \E retryable \in BOOLEAN :
                    ops' = [ops EXCEPT ![job.op] = AfterFailure(@, retryable)]
              /\ candidates' = Released({OperationId(w)})
           \/ ~ recorded /\ UNCHANGED <<ops, candidates>>
        /\ Close(w)
        /\ UNCHANGED <<files, head, owner, collections, collector>>

WorkerCrash(w) ==
    /\ worker[w].pc # "idle"
    /\ Close(w)
    /\ UNCHANGED <<files, head, ops, candidates, owner, collections, collector>>

\* The connection that holds the lock is lost: nothing in the work notices.
WorkerSessionLost(w) ==
    /\ worker[w].session = "held"
    /\ worker' = [worker EXCEPT ![w].session = "lost"]
    /\ UNCHANGED <<files, head, ops, candidates, owner, collections, collector>>

\* No heartbeat arrived for the length of the lease.
LeaseLapses(k) ==
    /\ Running(k) /\ ops[k].lease = "live"
    /\ ops' = [ops EXCEPT ![k].lease = "lapsed"]
    /\ UNCHANGED <<files, head, candidates, owner, collections, worker, collector>>

-----------------------------------------------------------------------------
(* Runs, batches and tracks *)

Hold(o, pc, g) == owner' = [owner EXCEPT ![o] = [pc |-> pc, generation |-> g]]
UnchangedData == UNCHANGED <<files, head, ops, candidates, collections, worker, collector>>

\* current_admission: the Head was the same before and after it was resolved.
Freeze(o) ==
    /\ owner[o].pc = "idle"
    /\ Hold(o, "frozen", head)
    /\ UnchangedData

\* retain_generation_in_transaction and pin_generation_in_transaction look at the root
\* manifest only (inspect_root); a root that is gone fails the transaction.
Retain(o, pc) ==
    /\ owner[o].pc \in {"frozen", "retained", "pinned"} /\ owner[o].pc # pc
    /\ Root[owner[o].generation] \in files
    /\ Hold(o, pc, owner[o].generation)
    /\ UnchangedData

\* The admission was rejected, the run ended, the pin and the retention are released.
LetGo(o) ==
    /\ owner[o].pc # "idle"
    /\ Hold(o, "idle", "none")
    /\ UnchangedData

-----------------------------------------------------------------------------
(* Collection *)

EndPass == collector' = NoPass
Status(c, status) == collections' = [collections EXCEPT ![c].status = status]
UnchangedWork == UNCHANGED <<head, ops, candidates, owner, worker>>

\* collect: the exclusive lock is tried, then _reconcile_abandoned.
BeginCollection(c) ==
    /\ collector.pc = "idle"
    /\ \A w \in Workers : worker[w].session # "held"
    /\ collections' = [x \in Collections |->
          IF collections[x].status = "running" THEN [collections[x] EXCEPT !.status = "failed"]
          ELSE collections[x]]
    /\ collector' = Pass("started", c, {}, {}, "none", "held")
    /\ UNCHANGED files /\ UnchangedWork

SnapshotRetention ==
    /\ collector.pc = "started"
    /\ \/ DataWorkActive /\ EndPass
       \/ /\ ~ DataWorkActive
          /\ collector' = Pass("snapshot", collector.key, RetentionRoots, {}, "none",
                               collector.session)
    /\ UNCHANGED <<files, collections>> /\ UnchangedWork

\* _validated_retained_files, then inventory.
InspectMount ==
    /\ collector.pc = "snapshot"
    /\ \/ ~ (Reachable(collector.roots) \subseteq files) /\ EndPass
       \/ /\ Reachable(collector.roots) \subseteq files
          /\ collector' = Pass("inspected", collector.key, collector.roots, files, "none",
                               collector.session)
    /\ UNCHANGED <<files, collections>> /\ UnchangedWork

PlanDespiteWork == RetentionRoots = collector.roots  \* mutant: _data_work_is_active dropped
PlanIsCurrent == ~ DataWorkActive /\ RetentionRoots = collector.roots

AllowedUnchecked(targets, retained) == TRUE  \* mutant: a resumed plan is not compared
Allowed(targets, retained) == retained \cap targets = {}

\* The receipts a new plan deletes with it: refreshes that settled long ago.
Expired(plan) == IF plan.status = "none" THEN {k \in Operations : Settled(k)} ELSE {}

\* The planning transaction of _ensure_plan.  A plan that exists is never extended, and
\* it is dropped when a root it did not know needs one of its targets.
EnsurePlan ==
    /\ collector.pc = "inspected"
    /\ LET plan == collections[collector.key]
           retained == Reachable(collector.roots)
           targets == IF plan.status = "none" THEN collector.inventory \ retained
                      ELSE plan.targets
           accepted == /\ PlanIsCurrent
                       /\ plan.status # "succeeded"
                       /\ Allowed(targets, retained)
       IN  \/ /\ accepted
              /\ collections' = [collections EXCEPT ![collector.key] =
                                    Plan("running", targets, plan.deleted, collector.roots)]
              /\ \E gone \in SUBSET Expired(plan) :
                    ops' = [k \in Operations |-> IF k \in gone THEN Deleted ELSE ops[k]]
              /\ collector' = Pass("executing", collector.key, {}, {}, "none", collector.session)
           \/ ~ accepted /\ EndPass /\ UNCHANGED <<collections, ops>>
           \/ /\ ~ DataWorkActive /\ RetentionRoots # collector.roots
              /\ collector' = Pass("started", collector.key, {}, {}, "none", collector.session)
              /\ UNCHANGED <<collections, ops>>
    /\ UNCHANGED <<files, head, candidates, owner, worker>>

\* _claim_target; the digests, and with them the order of the targets, are arbitrary.
ClaimTarget(f) ==
    LET plan == collections[collector.key]
    IN  /\ collector.pc = "executing"
        /\ f \in plan.targets \ plan.deleted
        /\ \/ /\ RetentionRoots \subseteq plan.roots
              /\ collector' = Pass("deleting", collector.key, {}, {}, f, collector.session)
              /\ UNCHANGED collections
           \/ /\ ~ (RetentionRoots \subseteq plan.roots)
              /\ Status(collector.key, "failed") /\ EndPass
        /\ UNCHANGED files /\ UnchangedWork

\* delete_file, after the lifecycle lock was released.
DeleteFile ==
    /\ collector.pc = "deleting"
    /\ \/ /\ files' = files \ {collector.file}
          /\ collector' = [collector EXCEPT !.pc = "deleted"]
          /\ UNCHANGED collections
       \/ /\ Status(collector.key, "failed") /\ EndPass
          /\ UNCHANGED files
    /\ UnchangedWork

CompleteTarget ==
    /\ collector.pc = "deleted"
    /\ collections' = [collections EXCEPT ![collector.key].deleted = @ \cup {collector.file}]
    /\ collector' = Pass("executing", collector.key, {}, {}, "none", collector.session)
    /\ UNCHANGED files /\ UnchangedWork

Succeed ==
    /\ collector.pc = "executing"
    /\ collections[collector.key].targets = collections[collector.key].deleted
    /\ Status(collector.key, "succeeded") /\ EndPass
    /\ UNCHANGED files /\ UnchangedWork

CollectorCrash ==
    /\ collector.pc # "idle"
    /\ EndPass
    /\ UNCHANGED <<files, collections>> /\ UnchangedWork

CollectorSessionLost ==
    /\ collector.session = "held"
    /\ collector' = [collector EXCEPT !.session = "lost"]
    /\ UNCHANGED <<files, collections>> /\ UnchangedWork

-----------------------------------------------------------------------------
Refresh(w) ==
    \/ OpenWork(w) \/ ReadPending(w) \/ ReconcilePendingCompletion(w) \/ RecoverExpiredClaims(w)
    \/ Claim(w) \/ RecordExpectedHead(w) \/ CompleteNoChange(w)
    \/ \E g \in Generations : Materialize(w, g)
    \/ \E f \in Files : WriteFile(w, f)
    \/ ProtectCandidate(w) \/ MoveHead(w) \/ CompletePublished(w) \/ WorkerFails(w)

Execute ==
    \/ \E f \in Files : ClaimTarget(f)
    \/ DeleteFile \/ CompleteTarget \/ Succeed

Collect ==
    \/ \E c \in Collections : BeginCollection(c)
    \/ SnapshotRetention \/ InspectMount \/ EnsurePlan \/ Execute

Own(o) == Freeze(o) \/ (\E pc \in {"retained", "pinned"} : Retain(o, pc)) \/ LetGo(o)

Next ==
    \/ \E k \in Operations : Submit(k) \/ Cancel(k) \/ LeaseLapses(k)
    \/ \E w \in Workers : Refresh(w) \/ WorkerCrash(w) \/ WorkerSessionLost(w)
    \/ \E o \in Owners : Own(o)
    \/ Collect \/ CollectorCrash \/ CollectorSessionLost

Spec == Init /\ [][Next]_vars

\* No worker works under the row's current token, so no heartbeat renews its lease.
Abandoned(k) == \A w \in Workers : ~ (worker[w].op = k /\ worker[w].token = ops[k].attempts)

\* The worker loop runs on: a crash may come at any step, but not always before the same
\* one; time passes for a lease nobody renews; a collection that was begun goes on.
FairSpec ==
    /\ Spec
    /\ \A w \in Workers :
          /\ SF_vars(OpenWork(w)) /\ SF_vars(ReadPending(w)) /\ SF_vars(Claim(w))
          /\ SF_vars(ReconcilePendingCompletion(w)) /\ SF_vars(RecoverExpiredClaims(w))
          /\ WF_vars(Refresh(w))
    /\ \A k \in Operations : WF_vars(Abandoned(k) /\ LeaseLapses(k))
    /\ WF_vars(SnapshotRetention \/ InspectMount \/ EnsurePlan \/ Execute)

-----------------------------------------------------------------------------
(* Properties *)

Maybe(S) == S \cup {"none"}

RefreshRow == [status : {"none", "accepted", "running", "succeeded", "failed", "cancelled", "deleted"},
               attempts : 0..MaxAttempts, lease : Maybe({"live", "lapsed"}),
               expected : Maybe(Generations), generation : Maybe(Generations)]
OwnerRow == [pc : {"idle", "frozen", "retained", "pinned"}, generation : Maybe(Generations)]
CollectionRow == [status : Maybe({"running", "succeeded", "failed"}), targets : SUBSET Files,
                  deleted : SUBSET Files, roots : SUBSET Generations]
WorkerState == [pc : {"idle", "polling", "noted", "reconciled", "recovered", "claimed",
                      "collecting", "writing", "protected", "moved"},
                op : Operations \cup {0}, token : 0..MaxAttempts,
                expected : Maybe(Generations), generation : Maybe(Generations),
                written : SUBSET Files, session : Maybe({"held", "lost"})]
CollectorState == [pc : {"idle", "started", "snapshot", "inspected", "executing", "deleting",
                         "deleted"},
                   key : Maybe(Collections), roots : SUBSET Generations,
                   inventory : SUBSET Files, file : Maybe(Files),
                   session : Maybe({"held", "lost"})]

\* Rows, worker and collector keep their types; in particular a row is never claimed more
\* than max_attempts times (AfterFailure and RecoverExpiredClaims).
TypeOK ==
    /\ files \subseteq Files
    /\ head \in Generations
    /\ ops \in [Operations -> RefreshRow]
    /\ candidates \in [OperationIds -> Maybe(Generations)]
    /\ owner \in [Owners -> OwnerRow]
    /\ collections \in [Collections -> CollectionRow]
    /\ worker \in [Workers -> WorkerState]
    /\ collector \in CollectorState

\* "Any failure leaves the previous Head readable": whatever crashes, lost lock sessions and
\* stale workers do, no collection deletes a file of the Head or of a candidate that a
\* refresh is about to publish.
PublishedDataIntact ==
    /\ FilesOf[head] \subseteq files
    /\ \A i \in OperationIds : candidates[i] # "none" => FilesOf[candidates[i]] \subseteq files

\* A running collection, a resumed one too, never deletes a file of a root it recorded
\* (_replace_roots, the comparison of retained files and targets in _ensure_plan).
PlannedRootsIntact ==
    \A c \in Collections :
        collections[c].status = "running" => Reachable(collections[c].roots) \subseteq files

\* No target is claimed that a Head, pin, retention or candidate needs at that moment, one
\* that appeared after the plan was made included (_claim_target).
NoRetainedTarget ==
    [][collector.pc = "executing" /\ collector'.pc = "deleting" =>
          collector'.file \notin Reachable({head} \cup RootsOfPins \cup RootsOfCandidates)]_vars

\* The rows exclude each other when the advisory lock was lost with its connection.
WorkExcludesCollection == ~ (CollectionActive /\ DataWorkActive)

\* A live candidate belongs to the attempt that is running now: no failure, takeover or
\* reconciliation leaves behind a candidate that would retain its generation forever.
NoLeakedCandidate ==
    \A k \in Operations : \A a \in 1..MaxAttempts :
        candidates[<<k, a>>] # "none" =>
            Running(k) /\ ops[k].attempts = a /\ ops[k].generation = candidates[<<k, a>>]

\* Submissions form one global FIFO, retries included: an operation runs only when every
\* earlier one is settled.
FifoOrder ==
    \A j, k \in Operations :
        j < k /\ Running(k) => Settled(j) \/ ops[j] = Deleted

\* The generation of refresh k is the Head and its row is still running: the commit, or the
\* process, was lost right after the rename, or is about to be made.
Published(k) == Running(k) /\ ops[k].generation = head

\* Refresh k waits for no worker.
Decided(k) == ops[k].status \notin {"accepted", "running"}

\* "Garbage collection retains the current Head, live candidates, and active pins": the
\* files of a generation that an owner retains or pins are on the mount.
RetainedIntact ==
    \A o \in Owners :
        owner[o].pc \in {"retained", "pinned"} => FilesOf[owner[o].generation] \subseteq files
=============================================================================
