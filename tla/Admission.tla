------------------------------ MODULE Admission ------------------------------
(***************************************************************************)
(* How one researcher's submissions become ResearchRuns: the three         *)
(* transactions of ResearchRunService.admit_with_outcome and of            *)
(* ResearchBatchService.admit_with_outcome, the daily run quota they       *)
(* share, the receipts that make a request id idempotent, the folders the  *)
(* runs live in and the Generation each accepted run keeps alive.          *)
(*                                                                         *)
(* An API worker reads the receipt in one transaction, validates the       *)
(* command against the Dataset Head outside any transaction, and admits    *)
(* (or records the rejection) in a later one, so the Head, the folder, the *)
(* receipt and the quota may all have changed in between.  Advisory locks  *)
(* are held until the transaction ends; an operator below says who holds   *)
(* each of them.                                                           *)
(***************************************************************************)
EXTENDS Naturals, Sequences, FiniteSets, FiniteSetsExt

CONSTANTS Api,          \* API worker threads
          Requests,     \* request ids clients use
          Commands,     \* the submissions clients make (records, see Kinds)
          Generations,  \* the Generations that may become Head, in order
          UserFolders,  \* folders the researcher may create and delete
          Limit,        \* QuotaPolicy.daily_run_limit
          Capacity,     \* research sessions and lookback a worker can hold
          MaxRuns,      \* bound on runs ever admitted
          MaxDay,       \* bound on the clock, in quota days
          MaxCalls,     \* bound on submissions made
          Deletes       \* whether runs may be deleted

ASSUME AdmissionAssumption ==
    /\ Limit \in Nat /\ Capacity \in Nat /\ MaxRuns \in Nat
    /\ MaxDay \in Nat \ {0} /\ MaxCalls \in Nat /\ Deletes \in BOOLEAN

(* The submissions the API's request models let through: a run is one      *)
(* formula or the rerun of a source; a batch is at least one formula and   *)
(* names no folder, so that its runs go to the researcher's own one.       *)
Specs == UNION {{c.specs[i] : i \in DOMAIN c.specs} : c \in Commands}

ASSUME CommandsAssumption ==
    /\ \A c \in Commands :
         /\ c.kind \in {"run", "batch"} /\ c.specs \in Seq(Specs) /\ c.source \in Nat
         /\ c.kind = "run" => c.source > 0 \/ Len(c.specs) = 1
         /\ c.kind = "batch" => /\ c.source = 0 /\ Len(c.specs) > 0
                                 /\ c.folder = "batch_research"
    /\ \A spec \in Specs : spec.start \in Nat /\ spec.end \in Nat /\ spec.lookback \in Nat

(* A Dataset has finitely many sessions, and a field covers a range.       *)
ASSUME GenerationsAssumption ==
    /\ Len(Generations) \in Nat
    /\ \A g \in 1..Len(Generations) :
         /\ Generations[g].sessions \subseteq Nat /\ IsFiniteSet(Generations[g].sessions)
         /\ \A f \in DOMAIN Generations[g].coverage :
              Generations[g].coverage[f].start \in Nat /\ Generations[g].coverage[f].end \in Nat

VARIABLES day,        \* the current quota day
          head,       \* index of the Dataset Head, 0 when there is none
          gens,       \* Generations whose objects still exist
          retained,   \* <<owner, generation>>: a retention or an attempt's pin
          folders,    \* the researcher's own folders
          runs,       \* run id -> row of research_runs.runs (NoRun if none)
          ownership,  \* run id -> row of run_ownership, never deleted
          batches,    \* accepted batches: their items
          batchStatus,\* first run of a batch -> status of the batch
          deleted,    \* items whose run_deleted_at is set
          receipts,   \* <<kind, request id>> -> admission receipt
          cancels,    \* request ids of research_batches.cancel_receipts
          api,        \* what each API worker is doing
          reader,     \* a ResearchBatchDetail being read
          answers,    \* the outcomes clients were given
          calls       \* submissions made so far

vars == <<day, head, gens, retained, folders, runs, ownership, batches,
          batchStatus, deleted, receipts, cancels, api, reader, answers, calls>>

Kinds == {"run", "batch"}
SystemFolders == {"default", "batch_research"}
Terminal == {"succeeded", "failed", "cancelled"}
BatchStatuses == {"none", "queued", "running", "cancelling", "ended"}
NoRun == [status |-> "none"]
NoReceipt == [outcome |-> "none"]
Idle == [step |-> "idle"]

(* A run id is a fresh uuid: the next one no ownership row uses. *)
FreshIds(n) == [i \in 1..n |-> Len(ownership) + i]
Live(r) == runs[r].status # "none"

-----------------------------------------------------------------------------
(* Validation of a ResearchSpec against a Dataset snapshot.                *)

(* _admitted_input from the coverage checks on: the first refusal.         *)
DatasetIssue(spec, d) ==
    LET period == {s \in d.sessions : spec.start <= s /\ s <= spec.end}
        before == {s \in d.sessions : s < Min(period)}
        calculationStart == IF Cardinality(before) < spec.lookback THEN Min(d.sessions)
                            ELSE CHOOSE s \in before \cup {Min(period)} :
                                   Cardinality({t \in before : s <= t}) = spec.lookback
    IN  CASE spec.start < Min(d.sessions) \/ spec.end > Max(d.sessions)
                 -> "RESEARCH_PERIOD_OUTSIDE_COVERAGE"
          [] period = {} -> "RESEARCH_PERIOD_HAS_NO_SESSIONS"
          [] ~(spec.fields \subseteq DOMAIN d.coverage)
                 -> "FIELD_UNAVAILABLE_IN_CURRENT_DATA"
          [] \E f \in spec.fields : d.coverage[f].start > calculationStart
                                    \/ d.coverage[f].end < Max(period)
                 -> "FIELD_CALCULATION_OUTSIDE_COVERAGE"
          [] Cardinality(before) < spec.lookback -> "INSUFFICIENT_CALCULATION_WARMUP"
          [] spec.lookback + 1 > Capacity -> "RESEARCH_SESSION_EXCEEDS_WORKER_CAPACITY"
          [] OTHER -> "ok"

(* _prepare_research_input: compile the formula, then the dataset checks.  *)
Issue(spec, g) == CASE ~spec.compiles -> "FORMULA_INVALID"
                    [] g = 0 -> "DATA_NOT_READY"
                    [] OTHER -> DatasetIssue(spec, Generations[g])

(* _resolve_rerun_source: a rerun takes the frozen spec of a succeeded     *)
(* Strategy run; the source is read now and not held.                      *)
SourceIssue(c) == CASE c.source = 0 -> "ok"
                    [] c.source > Len(ownership) -> "RERUN_SOURCE_NOT_FOUND"
                    [] runs[c.source].status # "succeeded" -> "RERUN_SOURCE_NOT_FOUND"
                    [] runs[c.source].spec.kind # "strategy" -> "RERUN_SOURCE_INVALID"
                    [] OTHER -> "ok"

ChildSpecs(c) == IF c.source = 0 THEN c.specs ELSE <<runs[c.source].spec>>

(* _validate_unique_item_keys and _validate_duplicate_computation: no two  *)
(* children of a batch may be the same computation.                        *)
Duplicated(specs) == \E i, j \in DOMAIN specs : i < j /\ specs[i] = specs[j]

(* What validation says of a whole command against Generation g.           *)
Verdict(c, g) ==
    IF SourceIssue(c) # "ok" THEN SourceIssue(c)
    ELSE LET refused == {i \in DOMAIN ChildSpecs(c) : Issue(ChildSpecs(c)[i], g) # "ok"}
         IN  CASE refused # {} -> Issue(ChildSpecs(c)[Min(refused)], g)
               [] Duplicated(ChildSpecs(c)) -> "DUPLICATE_COMPUTATION"
               [] OTHER -> "ok"

-----------------------------------------------------------------------------
(* Locks and reads inside a transaction.                                   *)

(* pg_advisory_xact_lock of the request id: held from BeginAdmit on.       *)
RequestUnlocked(kind, req) == FALSE
RequestLocked(kind, req) ==
    \E q \in Api : /\ api[q].step \in {"count", "insert"}
                   /\ api[q].command.kind = kind /\ api[q].req = req

(* FOR KEY SHARE of the folder, until the admitting transaction ends.      *)
FolderShared(f) == \E q \in Api : /\ api[q].step \in {"count", "insert"}
                                  /\ api[q].command.folder = f

(* The quota lock of daily_run_count, until the transaction ends.          *)
QuotaLockedUnlocked(p) == FALSE
QuotaLocked(p) == \E q \in Api \ {p} : api[q].step = "insert"

(* daily_run_count: rows of the transaction's day that hold quota, deleted *)
(* runs included.                                                          *)
DailyRunCount(d) == Cardinality({r \in DOMAIN ownership :
                                    ownership[r].day = d /\ ownership[r].quota # "released"})

(* settle_run_quota, the trigger on every insert and status change.        *)
Settle(row, status) ==
    LET started == row.started \/ status \in {"running", "cancelling", "succeeded"}
    IN  [row EXCEPT !.started = started,
                    !.quota = CASE status = "failed" -> "released"
                                [] status = "cancelled" ->
                                       IF row.started THEN "consumed" ELSE "released"
                                [] status = "succeeded" -> "consumed"
                                [] OTHER -> "reserved"]

Answer(p, outcome, ids) ==
    /\ answers' = answers \cup {[kind |-> api[p].command.kind, req |-> api[p].req,
                                 command |-> api[p].command, outcome |-> outcome, runs |-> ids]}
    /\ api' = [api EXCEPT ![p] = Idle]

(* A transaction ended without changing anything the answer would name.    *)
Fail(p) == api' = [api EXCEPT ![p] = Idle] /\ UNCHANGED answers

(* _admission_outcome: the recorded outcome for the same fingerprint, a    *)
(* conflict for another one.                                               *)
Replay(p, receipt) ==
    IF receipt.command # api[p].command THEN Fail(p)
    ELSE Answer(p, receipt.outcome, receipt.runs)

Receipt(p) == receipts[<<api[p].command.kind, api[p].req>>]

(* The check both services make first under the request lock: a batch      *)
(* request id that names a cancellation conflicts.                         *)
NamesNoCancel(p) == FALSE
NamesCancel(p) == api[p].command.kind = "batch" /\ api[p].req \in cancels

-----------------------------------------------------------------------------
(* Submission.                                                             *)

(* A client submits a command; a retry is another submission of the same   *)
(* request id, and two of them may be in flight at once.                   *)
Submit(p, req, c) ==
    /\ api[p].step = "idle" /\ calls < MaxCalls
    /\ api' = [api EXCEPT ![p] = [step |-> "receipt", req |-> req, command |-> c]]
    /\ calls' = calls + 1
    /\ UNCHANGED <<day, head, gens, retained, folders, runs, ownership, batches, batchStatus,
                   deleted, receipts, cancels, reader, answers>>

(* The first transaction: lock the request id and look for a receipt.      *)
FirstReceipt(p) ==
    /\ api[p].step = "receipt" /\ ~RequestLocked(api[p].command.kind, api[p].req)
    /\ IF NamesCancel(p) THEN Fail(p)
       ELSE IF Receipt(p) # NoReceipt THEN Replay(p, Receipt(p))
       ELSE api' = [api EXCEPT ![p].step = "prepare"] /\ UNCHANGED answers
    /\ UNCHANGED <<day, head, gens, retained, folders, runs, ownership, batches, batchStatus,
                   deleted, receipts, cancels, reader, calls>>

(* Outside any transaction: read the current Dataset and validate.         *)
Prepare(p) ==
    /\ api[p].step = "prepare"
    /\ \E v \in {Verdict(api[p].command, head)} :
         api' = [api EXCEPT ![p] =
                    [step |-> IF v = "ok" THEN "begin" ELSE "reject",
                     req |-> @.req, command |-> @.command, issue |-> v, gen |-> head,
                     specs |-> IF v = "ok" THEN ChildSpecs(@.command) ELSE <<>>]]
    /\ UNCHANGED <<day, head, gens, retained, folders, runs, ownership, batches, batchStatus,
                   deleted, receipts, cancels, reader, answers, calls>>

(* Validation or the database is unavailable: the client is told to retry. *)
Unavailable(p) ==
    /\ api[p].step \in {"receipt", "prepare", "begin", "count", "reject"}
    /\ Fail(p)
    /\ UNCHANGED <<day, head, gens, retained, folders, runs, ownership, batches, batchStatus,
                   deleted, receipts, cancels, reader, calls>>

(* The admitting transaction begins: its now() is fixed, the request id is *)
(* locked, the receipt is looked up again and the folder is checked.       *)
BeginAdmit(p) ==
    /\ api[p].step = "begin" /\ ~RequestLocked(api[p].command.kind, api[p].req)
    /\ CASE NamesCancel(p) -> Fail(p) /\ UNCHANGED receipts
         [] Receipt(p) # NoReceipt -> Replay(p, Receipt(p)) /\ UNCHANGED receipts
         [] Receipt(p) = NoReceipt /\ ~NamesCancel(p)
              /\ api[p].command.folder \notin folders \cup SystemFolders ->
                /\ receipts' = [receipts EXCEPT ![<<"run", api[p].req>>] =
                                  [outcome |-> "FOLDER_NOT_FOUND", command |-> api[p].command,
                                   runs |-> <<>>]]
                /\ Answer(p, "FOLDER_NOT_FOUND", <<>>)
         [] OTHER ->
                /\ api' = [api EXCEPT ![p] = [step |-> "count", req |-> @.req,
                             command |-> @.command, gen |-> @.gen, specs |-> @.specs,
                             day |-> day]]
                /\ UNCHANGED <<answers, receipts>>
    /\ UNCHANGED <<day, head, gens, retained, folders, runs, ownership, batches, batchStatus,
                   deleted, cancels, reader, calls>>

(* admit_prepared_child_in_transaction, first half, for every child: take  *)
(* the quota lock and count.  A refusal rolls the whole batch back.        *)
ChildrenFit(p) == DailyRunCount(api[p].day) + Len(api[p].specs) <= Limit
Count(p) ==
    /\ api[p].step = "count" /\ ~QuotaLocked(p)
    /\ api' = [api EXCEPT ![p] =
                 IF ChildrenFit(p) THEN [@ EXCEPT !.step = "insert"]
                 ELSE [step |-> "reject", req |-> @.req, command |-> @.command,
                       issue |-> "DAILY_RUN_QUOTA_EXCEEDED", gen |-> 0, specs |-> <<>>]]
    /\ UNCHANGED <<day, head, gens, retained, folders, runs, ownership, batches, batchStatus,
                   deleted, receipts, cancels, reader, answers, calls>>

(* The rest of the transaction: insert ownership, runs and progress, retain*)
(* the Generation, insert the receipt, commit.  inspect_generation raises  *)
(* when the Generation is gone, and the transaction rolls back.  The       *)
(* answer to a committed transaction may be lost with its connection.      *)
CurrentGen(p) == head
PreparedGen(p) == api[p].gen
RetainUnchecked(p) == TRUE
Retainable(p) == PreparedGen(p) \in gens
Insert(p) ==
    /\ api[p].step = "insert"
    /\ Len(ownership) + Len(api[p].specs) <= MaxRuns
    /\ IF ~Retainable(p)
       THEN Fail(p) /\ UNCHANGED <<retained, runs, ownership, batches, batchStatus, receipts>>
       ELSE \E ids \in {FreshIds(Len(api[p].specs))}, k \in {api[p].command.kind} :
            /\ runs' = [r \in 1..MaxRuns |->
                          IF \E i \in DOMAIN ids : ids[i] = r
                          THEN [status |-> "queued", kind |-> k, folder |-> api[p].command.folder,
                                spec |-> api[p].specs[CHOOSE i \in DOMAIN ids : ids[i] = r],
                                gen |-> PreparedGen(p), owner |-> ids[1]]
                          ELSE runs[r]]
            /\ ownership' = ownership \o [i \in DOMAIN ids |->
                  Settle([day |-> api[p].day, quota |-> "reserved", started |-> FALSE], "queued")]
            /\ retained' = retained \cup {<<ids[1], PreparedGen(p)>>}
            /\ batches' = IF k = "batch" THEN Append(batches, ids) ELSE batches
            /\ batchStatus' = IF k = "batch" THEN [batchStatus EXCEPT ![ids[1]] = "queued"]
                              ELSE batchStatus
            /\ receipts' = [receipts EXCEPT ![<<k, api[p].req>>] =
                              [outcome |-> "accepted", command |-> api[p].command, runs |-> ids]]
            /\ (Answer(p, "accepted", ids) \/ Fail(p))
    /\ UNCHANGED <<day, head, gens, folders, deleted, cancels, reader, calls>>

(* _record_admission_rejection: under the request lock, unless a receipt   *)
(* appeared meanwhile, record the refusal.                                 *)
Reject(p) ==
    /\ api[p].step = "reject" /\ ~RequestLocked(api[p].command.kind, api[p].req)
    /\ IF NamesCancel(p) THEN Fail(p) /\ UNCHANGED receipts
       ELSE IF Receipt(p) # NoReceipt THEN Replay(p, Receipt(p)) /\ UNCHANGED receipts
       ELSE /\ receipts' = [receipts EXCEPT ![<<api[p].command.kind, api[p].req>>] =
                              [outcome |-> api[p].issue, command |-> api[p].command,
                               runs |-> <<>>]]
            /\ Answer(p, api[p].issue, <<>>)
    /\ UNCHANGED <<day, head, gens, retained, folders, runs, ownership, batches, batchStatus,
                   deleted, cancels, reader, calls>>

-----------------------------------------------------------------------------
(* The rest of the researcher's work on the same rows.                     *)

(* One transaction gives the runs of DOMAIN new their next status.         *)
SetStatuses(new) ==
    /\ runs' = [r \in 1..MaxRuns |-> IF r \in DOMAIN new THEN [runs[r] EXCEPT !.status = new[r]]
                                     ELSE runs[r]]
    /\ ownership' = [r \in DOMAIN ownership |->
                       IF r \in DOMAIN new THEN Settle(ownership[r], new[r]) ELSE ownership[r]]
SetStatus(rs, status) == SetStatuses([r \in rs |-> status])

(* pin_generation_in_transaction raises when the Generation is gone.       *)
PinUnchecked(g) == TRUE
Pinnable(g) == g \in gens

(* A worker claims an ordinary run: an attempt pin takes over from the     *)
(* retention, and a retry gives it back in the transaction that releases   *)
(* the pin.  A Generation that cannot be pinned rolls the claim back.      *)
ClaimRun(r) ==
    /\ r \in DOMAIN ownership /\ Live(r) /\ runs[r].kind = "run"
    /\ runs[r].status = "queued" /\ Pinnable(runs[r].gen)
    /\ SetStatus({r}, "running")
    /\ UNCHANGED <<day, head, gens, retained, folders, batches, batchStatus, deleted, receipts,
                   cancels, api, reader, answers, calls>>

(* The last attempt of an ordinary run ends, and its pin with it.          *)
FinishRun(r, status) ==
    /\ r \in DOMAIN ownership /\ Live(r) /\ runs[r].kind = "run"
    /\ runs[r].status \in {"running", "cancelling"}
    /\ status \in (IF runs[r].status = "running" THEN {"succeeded", "failed"} ELSE {"cancelled"})
    /\ SetStatus({r}, status)
    /\ retained' = retained \ {<<r, runs[r].gen>>}
    /\ UNCHANGED <<day, head, gens, folders, batches, batchStatus, deleted, receipts, cancels,
                   api, reader, answers, calls>>

(* ResearchRunService.cancel of an ordinary run: one that waits, queued or *)
(* between two attempts, is cancelled at once.                             *)
CancelRun(r) ==
    /\ r \in DOMAIN ownership /\ Live(r) /\ runs[r].kind = "run"
    /\ \/ /\ runs[r].status \in {"queued", "running"}
          /\ SetStatus({r}, "cancelled")
          /\ retained' = retained \ {<<r, runs[r].gen>>}
       \/ /\ runs[r].status = "running"
          /\ SetStatus({r}, "cancelling") /\ UNCHANGED retained
    /\ UNCHANGED <<day, head, gens, folders, batches, batchStatus, deleted, receipts, cancels,
                   api, reader, answers, calls>>

-----------------------------------------------------------------------------
(* Batches.  One is named by its first run, in batchStatus and retained.   *)

Batch(b) == batches[b][1]

(* Items of a batch without an outcome.                                    *)
Incomplete(b) == {r \in 1..MaxRuns : /\ \E i \in DOMAIN batches[b] : batches[b][i] = r
                                     /\ Live(r) /\ runs[r].status \notin Terminal}

SetBatch(b, status) == batchStatus' = [batchStatus EXCEPT ![Batch(b)] = status]
Unretain(b) == retained' = {x \in retained : x[1] # Batch(b)}

(* _claim_next: the attempt's pin takes over from the retention, if the    *)
(* batch still has it, and every incomplete run starts.  A Generation that *)
(* is gone cannot be pinned and rolls the claim back.                      *)
ClaimBatch(b) ==
    /\ b \in DOMAIN batches /\ batchStatus[Batch(b)] = "queued"
    /\ \E r \in Incomplete(b) : /\ Pinnable(runs[r].gen)
                                /\ retained' = retained \cup {<<Batch(b), runs[r].gen>>}
    /\ SetStatus(Incomplete(b), "running") /\ SetBatch(b, "running")
    /\ UNCHANGED <<day, head, gens, folders, batches, deleted, receipts, cancels,
                   api, reader, answers, calls>>

(* The attempt completes or fails one item.                                *)
FinishItem(b, r, status) ==
    /\ b \in DOMAIN batches /\ batchStatus[Batch(b)] = "running" /\ r \in Incomplete(b)
    /\ status \in {"succeeded", "failed"}
    /\ SetStatus({r}, status)
    /\ UNCHANGED <<day, head, gens, retained, folders, batches, batchStatus, deleted, receipts,
                   cancels, api, reader, answers, calls>>

(* The attempt or its starting claim is over: finished, interrupted or     *)
(* recovered after its lease.  Its pin is released.  The failure policy    *)
(* gives up some of the incomplete runs and queues the others again; the   *)
(* batch that goes back to the queue is retained by nothing.               *)
CloseBatch(b) ==
    /\ b \in DOMAIN batches /\ batchStatus[Batch(b)] = "running"
    /\ \E again \in SUBSET Incomplete(b) :
         /\ SetStatuses([r \in Incomplete(b) |-> IF r \in again THEN "queued" ELSE "failed"])
         /\ SetBatch(b, IF again = {} THEN "ended" ELSE "queued")
    /\ Unretain(b)
    /\ UNCHANGED <<day, head, gens, folders, batches, deleted, receipts, cancels,
                   api, reader, answers, calls>>

(* _finish_cancelled_batch_in_transaction                                  *)
CancelItems(b) ==
    SetStatus(Incomplete(b), "cancelled") /\ SetBatch(b, "ended") /\ Unretain(b)

(* ResearchBatchService._cancel_with_outcome: it shares the request lock   *)
(* with admission.  A batch that waits is cancelled at once, a running one *)
(* when its child is gone; both record the cancellation.                   *)
CancelBatch(b, req) ==
    /\ b \in DOMAIN batches /\ ~RequestLocked("batch", req)
    /\ receipts[<<"batch", req>>] = NoReceipt /\ req \notin cancels
    /\ \/ batchStatus[Batch(b)] = "queued" /\ CancelItems(b)
       \/ /\ batchStatus[Batch(b)] = "running" /\ SetBatch(b, "cancelling")
          /\ UNCHANGED <<runs, ownership, retained>>
    /\ cancels' = cancels \cup {req}
    /\ UNCHANGED <<day, head, gens, folders, batches, deleted, receipts, api, reader,
                   answers, calls>>

(* A cancelling batch is settled by its worker or by reconciliation.       *)
StopBatch(b) ==
    /\ b \in DOMAIN batches /\ batchStatus[Batch(b)] = "cancelling" /\ CancelItems(b)
    /\ UNCHANGED <<day, head, gens, folders, batches, deleted, receipts, cancels, api,
                   reader, answers, calls>>

-----------------------------------------------------------------------------
(* Deletion, folders, details and the data.                                *)

(* The items a detail has read are locked FOR SHARE until it is complete;  *)
(* preserve_deleted_run_history wants them FOR UPDATE.                     *)
ItemUnlocked(r) == FALSE
ItemLocked(r) == reader # Idle /\ r \in reader.items

(* ResearchRunService.delete: the run and its receipts go, its ownership   *)
(* row and its place in a batch stay.                                      *)
DeleteRun(r) ==
    /\ Deletes /\ r \in DOMAIN ownership /\ runs[r].status \in Terminal /\ ~ItemLocked(r)
    /\ runs' = [runs EXCEPT ![r] = NoRun]
    /\ receipts' = [k \in DOMAIN receipts |->
                      IF k[1] = "run" /\ receipts[k] # NoReceipt /\ receipts[k].runs = <<r>>
                      THEN NoReceipt ELSE receipts[k]]
    /\ deleted' = IF runs[r].kind = "batch" THEN deleted \cup {r} ELSE deleted
    /\ UNCHANGED <<day, head, gens, retained, folders, ownership, batches, batchStatus, cancels,
                   api, reader, answers, calls>>

(* organize: move a run to another folder.                                 *)
Organize(r, f) ==
    /\ r \in DOMAIN ownership /\ Live(r) /\ f \in folders /\ runs[r].folder # f
    /\ runs' = [runs EXCEPT ![r].folder = f]
    /\ UNCHANGED <<day, head, gens, retained, folders, ownership, batches, batchStatus, deleted,
                   receipts, cancels, api, reader, answers, calls>>

(* ResearchFolderService.create and delete.  Deletion waits for key-share  *)
(* locks and fails on a folder that still holds a run.                     *)
CreateFolder(f) ==
    /\ f \notin folders /\ folders' = folders \cup {f}
    /\ UNCHANGED <<day, head, gens, retained, runs, ownership, batches, batchStatus, deleted,
                   receipts, cancels, api, reader, answers, calls>>

DeleteFolder(f) ==
    /\ f \in folders /\ ~FolderShared(f)
    /\ \A r \in DOMAIN ownership : Live(r) => runs[r].folder # f
    /\ folders' = folders \ {f}
    /\ UNCHANGED <<day, head, gens, retained, runs, ownership, batches, batchStatus, deleted,
                   receipts, cancels, api, reader, answers, calls>>

(* _detail_in_transaction: the items FOR SHARE, then the runs' statuses in *)
(* a later statement; a missing one raises.                                *)
ReadItems(b) ==
    /\ reader = Idle /\ b \in DOMAIN batches
    /\ reader' = [step |-> "items", batch |-> b,
                  items |-> {batches[b][i] : i \in DOMAIN batches[b]} \ deleted]
    /\ UNCHANGED <<day, head, gens, retained, folders, runs, ownership, batches, batchStatus,
                   deleted, receipts, cancels, api, answers, calls>>

ProjectionIncomplete == reader # Idle /\ \E r \in reader.items : ~Live(r)

ReadStatuses ==
    /\ reader # Idle /\ ~ProjectionIncomplete
    /\ reader' = Idle
    /\ UNCHANGED <<day, head, gens, retained, folders, runs, ownership, batches, batchStatus,
                   deleted, receipts, cancels, api, answers, calls>>

(* The Data Operator publishes the next Generation.                        *)
PublishHead ==
    /\ head < Len(Generations) /\ head' = head + 1 /\ gens' = gens \cup {head + 1}
    /\ UNCHANGED <<day, retained, folders, runs, ownership, batches, batchStatus, deleted, receipts,
                   cancels, api, reader, answers, calls>>

(* The collector removes a Generation that nothing keeps.                  *)
Collect(g) ==
    /\ g \in gens \ {head} /\ \A x \in retained : x[2] # g
    /\ gens' = gens \ {g}
    /\ UNCHANGED <<day, head, retained, folders, runs, ownership, batches, batchStatus, deleted,
                   receipts, cancels, api, reader, answers, calls>>

NextDay ==
    /\ day < MaxDay /\ day' = day + 1
    /\ UNCHANGED <<head, gens, retained, folders, runs, ownership, batches, batchStatus, deleted,
                   receipts, cancels, api, reader, answers, calls>>

Init ==
    /\ day = 1 /\ head = 0 /\ gens = {} /\ retained = {} /\ folders = UserFolders
    /\ runs = [r \in 1..MaxRuns |-> NoRun] /\ ownership = <<>> /\ batches = <<>>
    /\ batchStatus = [r \in 1..MaxRuns |-> "none"]
    /\ deleted = {} /\ receipts = [k \in Kinds \X Requests |-> NoReceipt] /\ cancels = {}
    /\ api = [p \in Api |-> Idle] /\ reader = Idle /\ answers = {} /\ calls = 0

Step(p) == FirstReceipt(p) \/ Prepare(p) \/ BeginAdmit(p) \/ Count(p) \/ Insert(p) \/ Reject(p)

Next ==
    \/ \E p \in Api : Step(p) \/ Unavailable(p)
                      \/ \E req \in Requests, c \in Commands : Submit(p, req, c)
    \/ \E r \in 1..MaxRuns : \/ ClaimRun(r) \/ CancelRun(r) \/ DeleteRun(r)
                             \/ \E s \in Terminal : FinishRun(r, s)
                             \/ \E f \in UserFolders : Organize(r, f)
    \/ \E b \in 1..MaxRuns : \/ ClaimBatch(b) \/ CloseBatch(b) \/ StopBatch(b) \/ ReadItems(b)
                             \/ \E r \in 1..MaxRuns, s \in Terminal : FinishItem(b, r, s)
                             \/ \E req \in Requests : CancelBatch(b, req)
    \/ ReadStatuses \/ PublishHead \/ NextDay
    \/ \E g \in 1..Len(Generations) : Collect(g)
    \/ \E f \in UserFolders : CreateFolder(f) \/ DeleteFolder(f)

Spec == Init /\ [][Next]_vars

-----------------------------------------------------------------------------
(* Properties.                                                             *)

(* Shapes of the rows the transactions write.                              *)
TypeOK ==
    /\ day \in 1..MaxDay /\ head \in 0..Len(Generations) /\ gens \subseteq 1..head
    /\ retained \subseteq (1..MaxRuns) \X (1..Len(Generations))
    /\ folders \subseteq UserFolders /\ Len(ownership) <= MaxRuns
    /\ \A r \in DOMAIN ownership : /\ ownership[r].day \in 1..day
                                    /\ ownership[r].quota \in {"reserved", "consumed", "released"}
    /\ \A r \in 1..MaxRuns : Live(r) => r \in DOMAIN ownership /\ runs[r].owner \in 1..r
    /\ batchStatus \in [1..MaxRuns -> BatchStatuses]
    /\ deleted \subseteq DOMAIN ownership /\ cancels \subseteq Requests

(* A run uses its day's quota unless it failed or was cancelled before any *)
(* worker started it; deleting it gives nothing back.                      *)
Occupies(r) ==
    IF Live(r) THEN \/ runs[r].status \notin {"failed", "cancelled"}
                    \/ runs[r].status = "cancelled" /\ ownership[r].started
    ELSE ownership[r].quota # "released"

(* daily_run_count and the settle_run_quota trigger: whatever submissions, *)
(* retries, batches, cancellations and deletions interleave, the runs that *)
(* use a day's quota never exceed the researcher's limit.                  *)
QuotaHeld ==
    \A d \in 1..MaxDay :
        Cardinality({r \in DOMAIN ownership : ownership[r].day = d /\ Occupies(r)}) <= Limit

(* _admission_outcome: clients that sent one request id with one command,  *)
(* concurrently, late or again, were all told the same outcome and the     *)
(* same runs, as long as the run they were told of has not been deleted.   *)
AnswersAgree ==
    \A a, b \in answers :
        (a.kind = b.kind /\ a.req = b.req /\ a.command = b.command)
        => \/ a.outcome = b.outcome /\ a.runs = b.runs
           \/ \E x \in {a, b} : x.kind = "run" /\ x.outcome = "accepted" /\ ~Live(x.runs[1])

(* The claim of a batch has consumed its retention and the attempt that    *)
(* had the pin is over (README, 9).                                        *)
Interrupted(r) ==
    runs[r].kind = "batch" /\ runs[r].status = "queued" /\ ownership[r].started

(* retain, the claim's pin and what a retry or a closed attempt does with  *)
(* them: the Generation frozen into a run that runs, or that waits and is  *)
(* not part of an interrupted batch, still exists and is kept, so that     *)
(* neither a first claim nor the retry of an ordinary run rolls back for   *)
(* want of its data and nothing is collected under a calculation.          *)
AcceptedPinned ==
    \A r \in DOMAIN ownership : Live(r) /\ runs[r].status \notin Terminal /\ ~Interrupted(r) =>
        runs[r].gen \in gens /\ <<runs[r].owner, runs[r].gen>> \in retained

(* admit_with_outcome: although the Head moves between validation and      *)
(* admission, an accepted run's specification fits the Generation frozen   *)
(* with it: the period has sessions, the warm-up exists, and every field   *)
(* covers the period and as many sessions before it as the warm-up takes.  *)
FitsIn(spec, d) ==
    LET period == {s \in d.sessions : spec.start <= s /\ s <= spec.end}
        warmup == {s \in d.sessions : s < spec.start}
    IN  /\ period # {} /\ Cardinality(warmup) >= spec.lookback
        /\ \A f \in spec.fields :
             /\ f \in DOMAIN d.coverage
             /\ \A s \in period : d.coverage[f].start <= s /\ s <= d.coverage[f].end
             /\ Cardinality({s \in warmup : d.coverage[f].start <= s}) >= spec.lookback
FrozenGenerationFits ==
    \A r \in DOMAIN ownership : Live(r) => FitsIn(runs[r].spec, Generations[runs[r].gen])

(* The batch receipts: a request id never names both an admission and a    *)
(* cancellation, whichever of the two transactions comes first.            *)
RequestNamesOneAction == \A req \in cancels : receipts[<<"batch", req>>] = NoReceipt

(* _detail_in_transaction against preserve_deleted_run_history: a detail   *)
(* never finds a run gone whose item it read as not deleted.               *)
NoTornDetail == ~ProjectionIncomplete

(* What clients are told is true and stays true: equal requests get equal  *)
(* answers, a request id means one thing, a detail shows whole batches.    *)
AnswersSound == AnswersAgree /\ RequestNamesOneAction /\ NoTornDetail

(* What was accepted can be run as accepted: within the quota, on data it  *)
(* fits, which is kept for it until an attempt of its batch is interrupted.*)
AcceptedSound == QuotaHeld /\ FrozenGenerationFits /\ AcceptedPinned
=============================================================================
