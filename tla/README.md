# Verification of the ThesisTrace Core

TLA+ specifications of the parts of ThesisTrace in which several processes, a
database, an object store and a file system must agree although any of them can
stop at any moment, and of the calculations whose results must not depend on how
often they were interrupted. Paths below are relative to
`src/apps/core/src/thesistrace/` unless they start with `apps/`, `docs/` or `src/`.

1. The system · 2. Conventions · 3. Modules · 4. Model checking · 5. Bounds ·
6. Fairness · 7. Proofs · 8. Not modelled · 9. Where documents and code disagree ·
10. Plan

## 1. The system

ThesisTrace is a single-node research workspace. A FastAPI Core, several Worker
processes (ordinary Research, Batch Research, Tracking, Data Operator) and
maintenance jobs share one PostgreSQL database, one S3-compatible store (RustFS)
and one mounted directory of market data. An Agent and an Auth service (TypeScript)
have databases of their own. PostgreSQL is the only coordinator: processes exclude
each other by row locks, advisory locks, leases and fences, and nothing else.

| Component | State | Operations | Interacts with | What is hard |
|---|---|---|---|---|
| **Submission** `research_run/service.py`, `research_batch/service.py` (admission), `research_run/quota.py`, `research_folder/` | runs, batches, receipts, folders | submit, rerun, cancel, delete, move | Dataset Head, retention of Generations | the command is validated outside the transaction that admits it; requests are repeated; two kinds of submission share a quota |
| **ResearchRun** `research_run/service.py` | `runs`, `attempts`, `execution_checkpoints`, `progress`, `results` | recover, claim, execute chunk by chunk, publish, record failure, confirm cancellation; heartbeat thread | pins and retains a Generation, stages and records publications | a Worker whose lease is over goes on working; values read in one transaction are used in another |
| **Calculation children** `research_run/execution.py`, `supervised_child.py`, `entrypoints/*_child.py`, `research_batch/execution.py` | two processes, pipes, deadlines | compute, print, acknowledge, cancel, terminate | the Worker's transactions | either side dies, stalls or answers late; two tables of expected messages written apart |
| **Strategy account** `research_kernel/strategy.py`, `research_chunks.py` | cash, holdings, targets, metrics | mark, sell, buy, decide, checkpoint, resume | executed in a child | fees and lots at boundaries; a bounded continuation must replace the whole history |
| **Publication** `publication/` | objects, manifests, links, retention rows, deletion queue, S3 | stage, record, read, release, expire, collect, scan orphans | every product records in its own transaction | bytes outside the transaction, reuse of bytes about to be deleted, locks lost with a connection |
| **Data lifecycle** `data/lifecycle.py`, `refresh.py`, `head_store.py`, `collection.py` | Head entry and files on the mount; operations, candidates, pins, retentions, collections | submit, claim, materialize, switch the Head, reconcile, recover; retain, pin, release; collect | runs, batches and tracks retain Generations | a rename no rollback undoes, a durable plan resumed in another world, deletion without the lock |
| **Refresh kinds** `data/unified_refresh.py`, `industry_refresh.py`, `daily_financial_refresh.py`, `financial_refresh.py`, `financial_collection.py` | stage rows, receipts, report ledger, raw batches | prepare, collect, compose, publish, retry | one Head | several publishers of one Head; receipts that must stay true after a crash |
| **Stored data** `data/generation_store.py`, `financial_candidate.py`, `benchmark/snapshot.py` | content-addressed files, families, one benchmark file | build whole, streamed or refreshed; compose; project; read; replace | refreshes, readers | an incremental build must equal a whole one; crashes between files |
| **Research Batch** `research_batch/` | batches, tasks, items, attempts, private artifact | claim, activate, calculate, complete items, cancel, recover | one child per attempt, one pin | several runs decided by one attempt; a child that outlives its Worker |
| **DailyTrack** `daily_track/` | tracks, checkpoints, progress, queue, private cache | activate, advance, stop, retry, recover | Publication, Data lifecycle | stop against advance; caches of two Workers |
| Agent `apps/agent/src` | sessions, turns, model-call journal | turn ownership, steering, budget | Core MCP tools | not modelled |
| Auth `apps/auth/src` | accounts, billing events, operator proofs | sign-in codes, webhooks, proofs | Creem, Core | not modelled |

What makes each part correct:

* *Submission*: no day exceeds its quota; equal requests have equal answers; what was
  accepted fits the Generation it froze, and that Generation stays until the run ends
  or an attempt of its batch is interrupted.
* *ResearchRun*: one authority per run; the ledger of attempts agrees with the run;
  an input Generation is protected from admission to the end; a checkpoint chain
  that may be resumed is whole and readable; a Result is made of the chain that is
  committed; outcomes are final; every run is decided.
* *Calculation*: what is acknowledged is decided; a success is whole; both sides end;
  a resumed calculation equals an uninterrupted one; orders account for all cash.
* *Publication*: what a product row names can be read; what a publisher staged is
  not deleted under it; nothing unreferenced is forgotten; an admitted read
  completes; unreferenced bytes are reclaimed.
* *Data lifecycle and refreshes*: the Head and every candidate are whole; refreshes
  and collections exclude each other although their lock can be lost; no publication
  overwrites another; receipts tell what happened; the queue is first in, first out;
  nothing a root needs is deleted; every refresh settles.
* *Stored data*: one content, one name, however it was built; no look-ahead;
  published history only grows; a damaged file is reported.
* *Batch, track*: rows, children and contracts agree; a chain of checkpoints only
  goes forward; a stop is confirmed.

`PROJECT.json` lists every component with what is modelled of it, and every hazard
with the line where it bites and the properties that would catch it.

## 2. Conventions

**A database transaction is one action**, since each one takes the row or advisory
lock that serializes it before it reads what it decides on. Everything between two
transactions (S3, the mount, the child process, reads without a lock) lies between
actions, with the values read kept in the local state of the process. A process may
crash between any two actions. A condition that several operations use is an
operator of its own (`Current`, `Owned`, `CanCollect`, `RetentionRoots`). Failure
reasons are reduced to the classes the policy tells apart; digests are identities.
Definitions marked *mutant* are changed forms of the definition below them: putting
one in its place makes the property named in `PROJECT.json` fail.

A lease is *live*, *due* (where a heartbeat renews it) or *expired*, and a step of
time moves it on; time-outs never appear as numbers. Advisory sessions may be lost
without their process noticing.

## 3. Modules

| Module | Content |
|---|---|
| `ResearchRun` | execution of ordinary runs: Workers, heartbeats, leases, fences, checkpoints, cancellation, loss recovery, deletion |
| `RunContract` | what a run promises its researcher; `ResearchRun` implements it (checked and proved) |
| `SupervisedChild` | the child of a single run or track, its supervisor, watch threads and deadlines |
| `Admission` | submissions of runs, reruns and batches: receipts, quota, folders, frozen Generations |
| `Publication` | staging sessions, records, references, idle expiry, reads, deletion queue, orphan scan |
| `DataLifecycle` | Head, refresh queue, candidates, retentions and pins, garbage collection |
| `UnifiedRefresh` | the dataset kind of Refresh: four stages, preparation, Retry lineages, recorded failures, the switch of Head and benchmark |
| `IndustryRefresh` | industry operations, their receipts and the compare-and-switch of the Head |
| `DailyFinancialRefresh` | discovery, plan, collection, candidate and publication of daily financial operations, report ledger |
| `FinancialRefresh` | the operator's complete-history commands, keyed by idempotency |
| `FinancialCandidate` | the point-in-time financial family: projection, deltas, readers |
| `GenerationStore` | content-addressed builds, compositions, validation, reads, closure, faults |
| `BenchmarkSnapshot` | the benchmark file through failed calls and machine crashes |
| `ResearchBatch`, `BatchContract` | execution of batches; what a batch promises, implemented by the former |
| `BatchChild` | the message loop between a batch Worker and its child |
| `StrategyAccount` | orders, fees, marks, metrics and continuations of a simulated account |
| `DailyTrack`, `TrackContract` | progression of tracks; what a track promises, implemented by the former |
| `ResearchRunProofs`, `ResearchRunLedgerProofs`, `PublicationProofs`, `DataLifecycleProofs`, `DailyTrackProofs`, `ResearchBatchProofs`, `AdmissionProofs`, `IndustryRefreshProofs` | theorems and proofs |
| `MC...` | constants, scenarios, symmetry and composed properties for TLC |

### ResearchRun

`status`, `fence` and `attempts` are the rows of `runs` and `attempts`;
`checkpoints[r]` is the sequence of checkpoint rows, each given by the ordinal of the
attempt that wrote it, and `committed` the count in `progress`. `manifests` are the
checkpoint manifests Publication still holds, `retained` the queued-run retention,
`result[r]` the evidence the published Result was assembled from. A Worker has a
program counter and a claim (`ResearchRunExecutionClaim` with the locals of
`process_next`). `_claim_next` is `ClaimNext`, `ClaimExhausted` or `ClaimNothing`;
`_validated_resume_checkpoint` is `ReadCheckpoints` followed by `VerifyCheckpoints`,
because the manifests are read after the transaction; `_commit_execution_chunk` is
`StageChunk` and `CommitChunk`; `_prepare_execution_result` is `ReadResultEvidence`
and `PrepareResult`; `_publish_success` may commit and lose the answer, in which case
the Worker goes on to `_record_failure`. The claim may take any claimable run: the
fair order among researchers is left out.

### SupervisedChild, BatchChild

Both model two programs that were written apart: a child that prints one message and
waits for exactly the command the message expects, and a process that reads, makes
durable and answers. In `SupervisedChild` the child has a main thread, a thread that
watches its input and a watchdog, and the supervisor has cancellation deadlines and a
memory limit; calculation may take for ever. In `BatchChild` numbers are left out: a
continuation is the count of sessions absorbed; the private artifact of a Strategy
Sweep is written part by part and read again by a later attempt. A chunk of a Factor or
Alpha item is counted without comparison (`Counted`); the continuation of an account is
refused unless its counts are those of its Alpha (`ContinuationAgrees`). A child whose
input ends exits with 74, whatever it was doing.

### Admission

`admit_with_outcome` is three transactions with validation against the Head between
them. Advisory locks that live to the end of the transaction are operators that say
who holds them. Deletion and collection run beside them, and of the execution just what
the accepted rows depend on: claims, ends of runs, items and attempts, and cancellations.
`retained` is what keeps a Generation for an owner, be it the retention of one who waits or
the pin of one who runs. A run's claim and its retry exchange them within one transaction,
so a run between two attempts still counts as running here. The claim of a batch (`ClaimBatch`)
starts all its unfinished items; an attempt that is interrupted (`CloseBatch`) gives the
pin up, sets these items back to *queued* and retains nothing, after which a collection
may take the Generation and the next claim rolls back. A batch is cancelled while it waits
(`CancelBatch`) or asked to stop while it runs (`StopBatch` is the end of that); both
record a receipt. `docs/architecture/core.md` (531) says that a rejection creates no
receipt; the code records rejection receipts and the model follows the code.

### Publication

`stored` gives for each digest whether its bytes are in S3, and whether they were
there when the current sweep of the orphan scan began; `Digest` maps the payload
names of a manifest to objects, so that two manifests may share one. The mutation
lock is held for one step, except by a collector, which performs an S3 DELETE inside
its transaction: `MutationFree` says that none does. The staging lock is held by a
publisher's session and may be lost with its connection; `_require_staging_session`
checks it before the upload, so that an upload may follow a loss. Deletion is three
steps (decide, DELETE, commit) and may fail between them. `ActivateCheckpoint` is the
one publication without a staging session. The hour of grace of the orphan scan is
left out, which makes collection more eager than the code.

### DataLifecycle

`FilesOf[g]` are the files a Generation references and `Root[g]` its manifest;
`files` is the inventory of the mount. A refresh passes through the phases of
`_process_claim`: the mount lock is taken, a pending completion reconciled, expired
claims recovered, an operation claimed, the expected Head recorded, files written
with the root last, the candidate protected, the Head switched and the completion
recorded. The owner token of a claim is the attempt number. The rename of the Head is
part of the transaction `MoveHead`, whose second alternative is the lost commit. An
owner stands for a run, batch or track attempt. A collection takes a snapshot of the
roots, inspects the mount, makes or resumes its plan, then claims, deletes and
completes one target after another. The market kind of Refresh is modelled here.

### UnifiedRefresh, IndustryRefresh, DailyFinancialRefresh, FinancialRefresh

Each models one kind of publisher of the Head with its own durable receipt, and
treats the others as publications that may happen at any time (`MaxOutside`).

* `UnifiedRefresh`: a Generation is the set of family updates it contains and a
  benchmark snapshot the set of market updates it covers; a Retry is a new operation with
  a copy of the preparation of the one it retries, and rows become visible in any order of
  creation. `_reconcile_pending_completion` is `ReadPointer`, `ReadPending` and
  `ReconcileApply`, since the Head, the rows that name it and the completion belong to
  three steps; `ReadHead` and `RecordExpected` fix what the attempt starts from. Each
  stage is built, then saved in the preparation; the financial stage holds a session lock
  of its own (`LockFinancial`). Whatever raises passes through `Fails` or `StageFails`,
  asks whether a completion is pending (`AskPending`) and only then records the failure.
* `IndustryRefresh`: a receipt names the Generation composed last; a crash between
  the replacement of the Head file and the commit is found by the next attempt. A
  reconciliation reads the pointer, then the receipt, then the rows, and any of them may
  be old when it settles; the session lock of a key may be lost while its Worker works on.
* `DailyFinancialRefresh`: the report ledger outlives operations and is rewritten by
  candidates that are never published, so every plan starts from the published
  inventory. With a lost lock session a paused Worker can overwrite the receipt of its
  successor (section 9).
* `FinancialRefresh`: commands are given again under the same key after an
  interruption. A publication whose lock session was lost can leave a receipt of a
  composition that never became the Head; the receipts property is therefore checked
  without lost sessions. A key whose composed Generation was collected stays stuck,
  and a late completion rewrites the ledger without harm.

### FinancialCandidate, GenerationStore, BenchmarkSnapshot

In `GenerationStore` a file is its content and a manifest holds the files it names.
The seven session tables of the core families are one table (`universe`), row blocks
below a partition are abstracted, the inputs of a refresh never drop a collected
session, a complete candidate on a root with a financial family is refused as in the
code, builders and the collector exclude each other, and the mount is damaged only
while nobody builds; partitions that are reused are not read again. What a build checks
before it returns is checked at `HandBack`; a build that is refused half way is a `Crash`,
as both leave the files written so far and hand nothing over. A financial family comes
into a Generation in the code's three ways: validated whole (`ValidatePit`), validated as
stored (`ValidateStoredPit`) or opened again against another calendar (`ReopensAgainst`);
an indicator family is composed whole or on its predecessor (`IndicatorAccepted`).
`FinancialCandidate` takes one statement endpoint for three (they never mix), lets the
source change once a day at most, orders versions of one session by update mark before
observation, and checks the newest family; when operations may be abandoned and the
source may return to an earlier answer at once, an intermediate restatement is lost
(that combination is left out of the runs). `BenchmarkSnapshot` keeps the directory as
seen, as durable, and the operations between the two.

### ResearchBatch, DailyTrack

`ResearchBatch` keeps the rows of a batch in one record; a child is a process of its
own with the control pipe that ends it. `DailyTrack` has the queue, owner locks and
the Working Cache that each Worker keeps privately; checkpoint content is an identity.
A poll goes over the pins it read one by one (`ReadPins`, then `SkipPin` or
`RecoverStoppingAttempt`), recovers one expired attempt (`ReadExpired`,
`RecoverExpired`), and claims. An advance tests coverage, loads the cache, calculates,
records progress and publishes (`PublishCheckpoint`, or `PublicationRefused` when the
track moved on). What ends one otherwise is settled in order: a stop is observed and
confirmed (`ObserveStop`, `ConfirmStopped`), else the failure is recorded, else a
cancelled pin is released. Confirming and recording test the fence, so that a Worker that
comes late settles nothing.

### StrategyAccount

Money is in whole units and rounding is integer division. A sale below the minimum
commission can raise "Net Cash became negative", as in the code. Buys follow the order
of the decision, which need not be that of the stocks' names. An order in a stock that
trades without a price limit fails the run. Market and decisions
are chosen once per session and are the same in every execution of the run.

## 4. Model checking

Eleven runs pass and one expects a violation. Modules that ask related questions share a
run: the MC module declares a variable (`scenario`, `scene`, `crew`, `submits`) that is
chosen in the initial state and never changes, instantiates each module with constants of
its own, and freezes the variables of the others. A property of such a run is a conjunction
over scenarios of the named properties of the modules; the comment above it says what it
promises.

| Run | Scenarios and instances | Distinct states | Shows |
|---|---|---|---|
| `research_run` | 1 run, 2 Workers, 3 attempts, 2 chunks | 468,441 | `LedgerAgrees`, `OneAuthority`, `GenerationProtected`, `ChainIntact`, `NoFalseIntegrityFailure`, `AttemptsBounded`, `ImplementsContract` |
| `publication` | 2 manifests that share an object, 2 publishers | 1.03 million | `PublishedReadable`, `StagedBytesSurvive`, `UnlinkedIsQueued`, `AdmittedReadSucceeds` |
| `data_lifecycle` | 2 Generations that share a file, 1 collection key; either 2 workers contend for 1 refresh, or 1 worker serves 2 refreshes beside 1 owner | 1.59 million | `PublishedDataIntact`, `PlannedRootsIntact`, `WorkExcludesCollection`, `NoLeakedCandidate`, `FifoOrder`, `NoRetainedTarget` |
| `daily_track` | `retries`, `advances`, `caches`: 1 track, 2 Workers | 1.40 million | `PinsAgree`, `RowsAgree`, `HistorySound`, `ImplementsContract` |
| `research_batch` | a batch of 2 items: Independent Strategies under 2 Workers and a Head that moves on, 1 attempt of each task; or a Factor Evaluation or Strategy Sweep, 1 Worker that may die, 2 attempts, files of 1 attempt (`MaxScratch`) | 905,331 | `RowsAgree`, `ImplementsContract` |
| `dataset_refresh` | `requests`: 2 operations, 1 worker that may die, 1 outside publication; `overlap`: 1 operation, 2 workers, one paused past its lease, with an outside publication or a death; `retries`: 1 request and its Retries, no faults | 2.77 million | `RefreshesConsistent`, `SwitchesSound` |
| `industry_refresh` | 1 operation, 2 workers, 2 attempts, a death, a pause, a lost session, outside publications; or 2 operations without faults | 2.10 million | `OperationsSound`, `NoLeakedCandidate`, `SwitchesExtend` |
| `financial_refresh` | `race`, `crash`, `staged` (daily); `crace`, `cfaults`, `clost` (commands) | 1.65 million | `ReceiptsSound`, `PublicationsSound` |
| `stored_data` | `build`, `compose`, `overwrite`, `collect`, `faults` (Generations); `restated`, `conflict`, `retry` (financial family); `file` (benchmark); `orders`, `resume`, `metrics` (accounts); `dialogue`, `solo` (children) | 836,556 | `BuildsAgree`, `FilesIntact`, `FamilyExact`, `PublishedOnlyGrows`, `AccountExact`, `DialogueSound` |
| `admission` | 2 API workers and a Head that moves; either runs and reruns over 2 quota days, or batches of 1 and 2 runs under 2 request ids on 1 day; 2 runs a day; claims, retries, interruptions and ends | 1.30 million | `AnswersSound`, `AcceptedSound` |
| `settling` | `batch`, `industry`, `run`, `tracks`, `retries`, `command`, `data`, `objects`, `bchild`, `schild` | 200,795 | `OutcomeTruthful`, `WorkSettles` |
| `data_retained` | 1 refresh, 1 worker, 1 owner, 1 collection key | stops early | violation of `RetainedIntact` (section 9) |

What the composed properties contain:

* `HistorySound`: `ChainAdvances`, `OnlyCovered`, `ContinuationMatches`,
  `CyclesRequested`.
* `RowsAgree` of a batch: `RowFollowsStatus` (a running batch has one open claim or
  attempt with its pin), `WorkingChildOwnsRow` (a child that calculates owns that attempt),
  `ItemsAgree`, `ArtifactAgrees` and `AttemptsBounded`.
* `AnswersSound`: `AnswersAgree` (equal requests are told equal things),
  `RequestNamesOneAction`, `NoTornDetail`. `AcceptedSound`: `QuotaHeld`,
  `FrozenGenerationFits`, `AcceptedPinned` (what keeps the Generation of a run that runs,
  or that waits outside an interrupted batch, is there; section 9 says what happens to an
  interrupted batch).
* `RefreshesConsistent`: the benchmark covers the Head's market data, no stage row stays
  *running* after its work, a lineage of Retries has one operation that waits, runs or has
  succeeded (`OneOfLineage`). `SwitchesSound` (action property): no switch overwrites
  another, however two workers overlap, and an operation reported as published was
  published.
* `OperationsSound`: `OneRunning` and `ReceiptHonest`. `SwitchesExtend` (action property):
  only the running attempt publishes (`PublishStep`), a switch extends exactly the
  Generation it replaces (`SwitchStep`), and what becomes *succeeded* shows the Head its
  receipt names (`SuccessStep`).
* `DialogueSound`: no message meets a reader that cannot take it, what is acknowledged
  is decided, a success is whole, accounts stand where their Alpha stands, nobody reads
  a torn artifact, nothing is reported cancelled that nobody cancelled.
* `AccountExact`: fills account for every unit of cash, the quantity bought is the
  largest affordable one, no buying session ends overdrawn, child orders are legal (between the minimum and the
  maximum and in whole lots on the main board, unless a whole holding is sold); a
  session has the same observation however the run is cut, interrupted or repeated;
  carried metrics are those of the whole history.
* `ReceiptsSound`: disclosed reports are in the ledger, a receipt names a Generation
  that was the Head, what is the Head's is not reported failed, evidence of finished
  work is kept, a shard is checkpointed once. `PublicationsSound` (action property):
  published reports only grow, *ready* is complete, pending gaps are reported, plans
  start from what is unpublished, no update is lost.
* `BuildsAgree`: builds of the same data have the same manifests; cheap validation
  accepts only what the audit accepts and no honest candidate is refused; statistics and
  readers agree. `FilesIntact`: collections and crashes leave every needed file, reads
  are exact or say what is missing. `FamilyExact`: a family extended by deltas equals one
  rebuilt, without look-ahead. `PublishedOnlyGrows` (action property): no publication
  takes back what could be read.
* `WorkSettles`: the liveness properties of ten modules (section 6).
  `OutcomeTruthful` (action property): a published refresh is never retried or failed.

Every property has mutants in `PROJECT.json`: changed forms of a definition, in the way
the code could plausibly be wrong, under which the run's property fails.

Deadlock is checked in `research_run`, `publication`, `dataset_refresh` and
`industry_refresh`. In the other runs the system
rests when everything submitted is settled and the bounds are used up.

## 5. Bounds

* *Rows that do not meet.* Runs, batches and tracks share no rows among themselves, and
  a claim takes any of them, so one of each with two Workers gives every interleaving on
  it. Submissions compete: `admission` has three runs over two quota days, and as many runs
  in batches on one day, with room for two a day. `settling` has two tracks, because the queue orders them.
* *Attempts.* Three attempts are the budget of a run (`failure_policy.py`). Two chunks
  give a chain that can be extended, resumed half-way and finished by another attempt.
  Where the budget is a parameter, two attempts are enough for a retry and an exhausted
  budget, and the scenarios that need only a takeover use one.
* *Sharing.* One of two manifests holds, as its expiring payload, the object that is the
  only payload of the other: bytes queued for deletion are used again, one of two
  references is released, a shared object expires. The two Generations share one file and
  have one of their own beside their root.
* *Keys.* A collection key may be used again, which is how a plan is resumed. The market
  refresh runs with two operations for the order of the queue, industry with two for one
  running at a time, the dataset Refresh with up to three for lineages; their keys are
  used in order, which loses nothing as they are interchangeable.
* *Faults.* `Limits` of the dataset and industry kinds (sets of allowed combinations), and
  `MaxOutside`, `MaxPauses`, `MaxDeaths`, `MaxErrors`, `MaxGaps`, `MaxCrashes`, `MaxLost`,
  `MaxRefused`, `MaxLapses`, `MaxGc` and `MaxFaults` of the others, count
  deaths, pauses past a lease, lost lock sessions, publications by others, and so on.
  Each is 1 where it occurs (2 crashes of a command in `settling`, 2 dataset Refreshes
  in a story of `industry_refresh`): a scenario tells one
  story of each kind beside every interleaving of the rest. `ResearchRun`,
  `Publication`, `DataLifecycle` and `DailyTrack` need no such counter.
* *Scratch.* `MaxScratch` (`MCResearchBatch`) lets the lone Worker of a batch write files
  only when those of its dead attempts are gone; no step on the rows of a batch reads
  them. The batch of `settling` has files of several attempts side by side.
* *Data.* Calendars of three to seven sessions with blocks of two give a full block, a
  half-full one, a window that starts inside a block and one that appends; reports have a
  value, a marked restatement and a return; the account has two boards, lots of two and
  prices chosen so that fees, limits, suspensions and a split matter.

Two scopes of `data_lifecycle` are cut out of one instance by the constraint `Scope`:
`Fencing` (no second refresh, owners idle) and `Retaining` (one worker at a time,
sessions kept, one attempt). Symmetry is used in runs without liveness properties only.

Properties that need the one documented Data Operator Worker (ADR 0240) are checked with
one: `NoStageLeftRunning`, `SucceededMeansPublished`, `OutcomeTruthful`. A worker that
pauses for a whole lease between reconciliation and recovery, while a second one publishes,
would retry a refresh that is published; what can be promised of two workers is that no
switch loses anything (`NothingOverwritten`), and what cannot is told in section 9.

## 6. Fairness

Liveness is checked in `settling`; "P leads to not P" is written `[]<>~P`. The scenarios
share fairness conditions, as only one of the actions a condition names is ever enabled.
The children have two items or chunks there, which is the least that has an order.

* *Weak fairness* of what the process does by itself while it lives: the steps of a
  Worker on its claim, a child that calculates, watch threads and deadlines, the lapse of
  a lease that nobody renews, a retry that falls due, a page of the orphan scan, a
  collection that was begun.
* *Strong fairness* of steps that others may disable again and again but that the poll
  loop offers in each round: `FinishExhaustedWorkerLoss` of a run (a crash may recur but
  not always at this point), `Again` of an interrupted command, `Poll` of batches,
  `OpenWork`, `ReadPending`, `Claim`, `ReconcilePendingCompletion` and
  `RecoverExpiredClaims` of the Data Operator, `InspectPins`, `ReadExpired`, `RecoverExpired`, `ReadHead` and `TakeWork` of tracks, `CollectQueued`, `RemoveOrphan`, `EraseBytes` and
  `FinishDeletion` of Publication: `run_once` serves jobs by due time, the queue by age
  and the listing in key order, so each object has its turn.
  In the scenario of two tracks the Worker crashes only while it holds a claim: its poll
  loop is then never disabled, and weak fairness of the loop is enough; with one track
  (`retries`) it crashes anywhere.
* *None* of heartbeats, failures, crashes, lost sessions and commands.

The refresh of `data` has the premise that no collection stays *running*: refreshes are not
claimed beside one, and only the next `collect` reconciles a collection that crashed.
The bytes of `objects` have the premise that publishers become quiet. That an accepted
cancellation is completed follows from the run being decided and the contract.

## 7. Proofs

Checked by TLAPS for every value of the constants, from the assumptions that the
modules name (plan and budget positive, roots among the files of their Generation, and
the like), which TLC evaluates in the runs.

**ResearchRunProofs.** `TypeCorrect` is `Spec => []TypeOK`; `AuthorityIsUnique` is
`Spec => []OneAuthority`. That two accepted claims belong to one Worker depends on where
the fences in the claims came from. The inductive invariant `FenceInv` adds that a
Worker beyond *idle*, *claiming* and *exhausted* has a claim of a real run
(`ClaimShape`), and that claims of one run carry fences which are pairwise distinct and
never above the run's (`ClaimsDistinct`): a claim takes the run's fence plus one in the
transaction that stores it, and no action lowers a fence.

**ResearchRunLedgerProofs.** The rows of a run are inductive only together with what the
Workers still know of them. `RunInv` is `FenceInv`, `RunAt(r)` for every run (the ledger,
the protection, the chain, the budget) and `FactsAt(w)` for every Worker: the checkpoints
it read in an earlier transaction are still the rows while `Owned` would accept its claim,
and an integrity failure on its way to be recorded is never accepted. Every action has
one of nine *effects* on the rows of one run (`Admitted`, `Withdrawn`, ...) and leaves the
others alone; the invariant is shown once for each effect and each action is shown to
have its effect. Hence `LedgerSafety`, `ProtectionSafety`, `ChainSafety`,
`IntegrityFailureSafety`, `BudgetSafety`, the action properties `OutcomeSafety` and
`ResultSafety`, and `ContractRefinement`: each effect maps to a step of `RunContract` or
to a stutter, so `Spec => ImplementsContract`.

**PublicationProofs.** `PublicationInvariant` proves the inductive invariant `PubInv`,
from which `PublicationTypes`, `PublishedStaysReadable`, `StagingIsSafe`,
`NothingForgotten` and `ReadsComplete` follow. It adds `CollectorFenced` (while a
collector deletes an object no publisher holds a session and nothing links the object),
`RetentionAgrees` (a retention row agrees with the links and tombstones of its manifest)
and `SessionsOpen` (a session is held only inside a staging scope). The delicate steps
are `EraseBytes`, where the erased bytes must be nobody's, and `Release` and
`ExpirePayloads`, where an object leaves `links` and must enter the queue unless another
manifest links it.

**DataLifecycleProofs.** `DataInvariance` proves `DataInv`: beside the types and the
checked properties it says that live claims carry different tokens (`TokensDiffer`), that
the phase of a worker agrees with the row it claimed (`ClaimsHonest`), that at most one
collection is unfinished (`OneCollection`), that the plan of a collection is disjoint
from the closure of its roots (`PlansDisjoint`), that what an inspection found was there
(`InspectedPresent`) and that the target claimed for deletion is needed by nobody
(`TargetFree`). From it follow `DataTypes`, `PublishedDataSafety`,
`PlannedRootsSafety`, `WorkExclusion`, `CandidatesOwned`, `FifoSafety` and
`TargetSafety`. Each action is first reduced to what it changes of the rows, so that a
part of the invariant is disturbed by few of them.

**DailyTrackProofs.** `TrackInvariance` proves `TrackInv`. Per track it adds to
`RowsOf` and `HistoryOf` (the parts of `RowsAgree` and `HistorySound`) that an unresolved
target was frozen at the current checkpoint and lies beyond it (`PlanOf`), that a
progression whose attempt is over still has budget (`BudgetOf`) and that no published
attempt is as late as the running one (`FencesOf`); per Worker that its claim's fence was
issued, that the claim counts the attempt as the row does and that what it calculated
continues nothing or the checkpoint it claimed (`ClaimAt`); and that the queue holds a
track once (`QueueSound`). `FencesOf` is what makes a new checkpoint later than every
older one, `PlanOf` what makes it reach further, and the queue matters because leaving it
removes one entry. Every transaction has one of ten effects (`Activated`, `Started`,
`Published`, ...) on the rows of one track, `EffectOnRow` shows that each preserves the
invariant, and `Forward` is all that a Worker's claim needs to know of the effect. A
Worker's own record is compared field by field once (`RecordMoves`, `SameClaim`), and the
receipts of a track's Retry requests are counted per track (`CyclesOf`). Hence
`TrackTypes`, `PinSafety`, `RowSafety` and `HistorySafety`, and `TrackRefinement`: seen
as phase and last session, each effect is a step of `TrackContract` or a stutter, so
`Spec => ImplementsContract`.

**ResearchBatchProofs.** `BatchInvariance` proves `BatchInv`: beside the types, the three
properties of rows (`RowOf`, `ItemsOf` and `ArtifactOf` are their parts for one batch) and
`WorkingChildOwnsRow`, it says that only a sweep has a shared task and that an open task
was counted (`TasksOf`), and that the fence of a batch is paid for (`SpentOf`): beyond the
first MAX_TASK_ATTEMPTS, each claim follows an attempt that used up one attempt of a task
(`Spent`), of which there are finitely many. A step changes the rows of each batch in one
of seven ways (`Admits`, `Asks`, `Works`, `Ends`, `Gives`, `Starts`, or not at all), and
one that gives a row up finds no calculating child of that batch (`Free`); `NextSteps`
shows this of every action for all batches at once, since one claim transaction may settle
several lost batches. Everything else is shown of the ways: `StepSpent`, `OwnersKept` and
`StepSeen`. Hence `BatchTypes`, `BatchRowsFollow`, `BatchItemsAgree`,
`BatchArtifactAgrees`, `BatchChildren` and `BatchAttempts`, together `BatchRowsAgree`
(`Spec => []RowsAgree`), and `BatchRefinement` (`Spec => ImplementsContract`).

The proof corrected two statements that the small instances did not contradict. The bound
of `AttemptsBounded` was one budget too small: with the code's three attempts per task,
claims lost before a task was opened, retries of both tasks of a one-item sweep and a
last cancellation bring the fence to 8 where the bound was 7, and TLC finds that history. And `BatchContract` let only one
batch move in a step, which the claim that settles several lost batches does not respect;
it is now a condition on every batch, and TLC agrees on an instance with two batches and
two Workers.

**AdmissionProofs.** `AdmissionInvariant` proves `AdmissionInv`, three parts that need each
other. `RowsInv` is about what the transactions have written: runs kept alive by one owner
belong to one admission (`OwnersApart`), a batch keeps its list of runs and what is gone of
it was deleted (`BatchesHold`), the runs of a batch that have no outcome all run while it
runs and all wait while it waits (`BatchesAgree`), a run that runs was claimed
(`StartedRuns`), every quota row that counts is not released and no day
counts more than the limit (`CountsKept`), and an accepted specification fits its Generation
(`RunsFit`). `ApiInv` is about what an API worker read in one transaction and uses in a
later one: the count it took still leaves room when it inserts (`InsertsCounted`, because
the quota lock is held until then), nothing was recorded under its request id meanwhile
(`RequestHeld`), and what it prepared fits the Generation it prepared it for, wherever the
Head has gone (`PreparedFit`). `RecordsInv` says that every answer given is still the
receipt's, unless the run it names was deleted (`AnswersStand`). That a deletion gives its
place in the quota back or keeps it, and that an insertion adds as many as were counted, is
arithmetic on cardinalities (`FS_...` of the library); the operators that choose a least
element need a well-founded minimum. `RunsKeepTheirGeneration` leaves out the items of
a batch that was claimed and waits again, and nothing else: that an attempt's end takes the
pin from no other run is what `OwnersApart` and `BatchesAgree` are for. Assumed: bounds are
numbers (`AdmissionAssumption`), commands have the shapes the API's request models let through (`CommandsAssumption`),
sessions are finite and fields cover ranges (`GenerationsAssumption`). Hence
`AdmissionTypes`, `QuotaHolds`, `EqualRequestsEqualAnswers`, `AcceptedRunsFit`,
`RunsKeepTheirGeneration`, `RequestsNameOneAction`, `DetailsAreWhole`, and the two
properties of the run, `AnswersAreSound` and `AcceptedRunsAreSound`.

**IndustryRefreshProofs.** `IndustryInvariant` proves `IndustryInv`. `WorksInv` says what a
Worker holds at each of its steps, `RecsInv` what a receipt says by itself, and `LocksInv`
what the holder of a key's lock may rely on while no lock session was lost: nobody else
writes the receipt's state, candidate, prior data and composed Generation, and the Head
never carries the key's coordinate without the receipt's candidate. `OneRunning` is
inductive only with the queue's locks, `ReceiptHonest` only with `LocksInv`. A step of one
Worker is compared with what the others hold once for all steps, by a relation on receipts:
`RecStep` is what any step does to a receipt (a publication once named stays), `Soft` what a
step without the key's lock does, as a publication by others or a recovery. The statements
that need the lock are guarded by `faults["lost"] = 0`, as in the checked properties: with
a lost session the code promises less, and the rest is proved with lost sessions too. Hence
`IndustryTypes`, `OneRunsAtATime`, `ReceiptsAreHonest` (together `OperationsAreSound`) and
the action properties `OnlyRunningAttemptsPublish`, `SwitchesExtendTheHead`,
`SuccessShowsTheHead` (together `SwitchesAreSound`), for any number of operations, Workers,
attempts, tries of the Head and faults.

**Only model-checked.**

* Liveness and statements about `ENABLED`, which are out of the prover's reach:
  `WorkSettles`.
* What recursive definitions compute, since induction over data is not available: the
  account (`AccountExact`), builds and readers (`BuildsAgree`, `FilesIntact`), the financial
  family (`FamilyExact`, `PublishedOnlyGrows`).
* `NoLeakedCandidate` of industry operations, whose candidate rows are named by attempt and
  try, and `OutcomeTruthful` of the single Data Operator.
* The children (`DialogueSound`): the invariant is the product of two programs' positions,
  which the model checker covers completely for the sizes that matter.
* The dataset kind (`RefreshesConsistent`, `SwitchesSound`) and the financial kinds
  (`ReceiptsSound`, `PublicationsSound`): stories with bounded faults.

## 8. Not modelled

* Agent, Auth and Web console; HTTP routing, parsing and process set-up.
* Alpha compilation and evaluation, the Python strategy runtime, numerical content of
  evidence and messages; adapters of data sources; digests (an object is its digest).
* The order in which one transaction takes its locks: transactions are one step, and
  deadlocks between them do not show. `lock_publication_mutation` asks to be taken before
  product rows, and not every caller does so.
* A DELETE request that outlives the session of its collector.
* The fair order of claims among researchers, and a claim transaction that rolls back
  because the Generation cannot be pinned.
* Holding retention (its expiry goes through `Release` of `Publication`), pin leases
  (collection does not look at them), the lease of the Data Operator, bootstrap and
  publish-only operator commands, retained outputs of financial and industry operations
  in a collection plan, a second collector process.
* Daily tables other than `universe` and daily basics, row blocks, the projection cache
  of market history; rules of single financial fields; endpoint capability probes.
* Measurements, paging and projections of the read side.

## 9. Where documents and code disagree

* *Run `data_retained`.* `docs/architecture/core.md` (493) says that garbage collection
  retains the Head, live candidates and active pins, and ADR 0154 that a Generation may
  be collected after all its retentions ended. `retain_generation_in_transaction`
  (`data/lifecycle.py:238`) looks at the root manifest only, and a target is deleted
  after the lifecycle lock was given up. An admission that froze the previous Head can
  retain its Generation while a collection that planned without it deletes another of
  its files.
* `docs/adr/0240-run-data-refresh-through-one-durable-operator-worker.md` (3) says that
  "fenced recovery reconciles prior publication". `_reconcile_pending_completion`
  (`data/refresh.py:2129`) reads the Head and the running rows that name it in one
  transaction and completes them in a later one, which compares the manifest, the phase and
  the benchmark, but neither owner token, attempt nor the row's present Generation. The
  worker lease is checked around `process_next` only (`entrypoints/data_operator.py:398` and
  424). A reconciler paused in between can therefore complete a later attempt of the same
  operation, whose own candidate never was the Head: its update is reported and lost. This
  takes two Data Operators at work, which the lease is there to prevent.
* ADR 0195 says that "terminal outcomes make all private recovery state collectible".
  `_cancel` of a run that waits for its retry (`research_run/service.py:1969`) ends it
  without `_release_execution_checkpoints`, and `delete` (1841) removes the rows without
  releasing their manifests; the links keep the bytes (`RecoveryStateCollectible` of
  `ResearchRun`).
* ADR 0154 again: "active Research pins exact Generations". The claim of a batch
  exchanges its retention for the pin of the attempt, and an attempt that ends
  interrupted releases that pin (`research_batch/service.py:3482`): between two attempts
  nothing keeps the Generation of the batch, and the next claim may fail for want
  of it (`AcceptedInputKept` of `ResearchBatch`). `Admission` has this step too, and
  `AcceptedPinned` promises nothing to such a batch (`Interrupted`).
* `docs/architecture/core.md` (531) says that a rejection creates no receipt; rejection
  receipts are recorded, and `Admission` follows the code.
* `reconcile_daily_financial_publication` is to finish the receipt "after its
  Generation became Head" (`data/daily_financial_refresh.py:1957`); but when the lock
  session is lost, a paused Worker can overwrite the composed Generation that its
  successor recorded (829), and the receipt names one that never was the Head.
* `MetricsAlwaysAgree` of `StrategyAccount` fails for a history in which no target was
  executed, as a test of the kernel expects.

Only the first has a run of its own, which ends in the violation.

## 10. Plan

Done: the modules of section 3, the runs of section 4, the theorems of section 7. Next:

1. Proofs for `UnifiedRefresh` and for the receipts of the financial kinds, whose argument
   is that of `IndustryRefresh` (what a receipt names was true when it was written and
   nothing takes it back).
2. A composition of run, publication and data lifecycle that shares pins and manifests
   instead of abstracting each side.
3. Lock order of the transactions that touch Publication, runs and data.
4. The fair claim of the ordinary Worker pool; the lease of the Data Operator.
5. Agent model budget and turn ownership; Auth operator proofs and billing events.
