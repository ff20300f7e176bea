--------------------------- MODULE FinancialRefresh ---------------------------
(***************************************************************************)
(* The complete-history financial commands: collect-financial,             *)
(* bootstrap-financial and reproject-financial                             *)
(* (data/financial_collection.py, data/financial_refresh.py).  A command   *)
(* collects raw batches shard by shard with a durable checkpoint each,     *)
(* builds a candidate of the financial family from them (or replays the    *)
(* retained receipts), composes it with the families of the current Head   *)
(* and moves the Head.  Everything is keyed by an idempotency key: a       *)
(* command that was interrupted is given again and goes on.                *)
(*                                                                         *)
(* A Generation is [m, f, at]: the market version, the key whose candidate *)
(* is its financial family (also its publication coordinate) and the time  *)
(* it was composed, which only tells manifests apart.                      *)
(***************************************************************************)
EXTENDS Integers, FiniteSets, FiniteSetsExt

CONSTANTS
    Keys,        \* idempotency keys
    Kind,        \* key -> "publish" or "reproject"
    Procs,       \* operator processes
    Shards,      \* shards of a collection
    Tries,       \* publication attempts of one command
    MaxMarket,   \* bound: Head moves by a market publication
    MaxDaily,    \* bound: Head moves by a daily financial publication
    MaxCrashes,  \* bound: processes that die or raise
    MaxLost,     \* bound: lock sessions dropped under a process
    MaxRefused,  \* bound: requests or validations that fail
    MaxLapses,   \* bound: candidate leases that run out
    MaxGc,       \* bound: garbage collections
    None

RefreshAssumption ==
    /\ Kind \in [Keys -> {"publish", "reproject"}] /\ None \notin Keys
    /\ IsFiniteSet(Shards)
    /\ {MaxMarket, MaxDaily, MaxCrashes, MaxLost, MaxRefused, MaxLapses, MaxGc} \subseteq Nat
    /\ Tries \in Nat \ {0}

VARIABLES
    head, seen,  \* the Head and all it ever named
    op,          \* data.financial_refresh_operations
    col,         \* data.financial_collection_operations and their shards
    prot,        \* data.generation_candidates: <<key, attempt>> -> [gen, st]
    files,       \* batches, candidates and Generations that exist
    ledger,      \* the candidate that last rewrote data.financial_report_targets
    lock,        \* session advisory locks -> holder
    proc,        \* the processes
    budget

vars == <<head, seen, op, col, prot, files, ledger, lock, proc, budget>>

NoOp == [st |-> "none", fp |-> None, src |-> None, prior |-> None, cand |-> FALSE,
         comp |-> None, moved |-> FALSE, pub |-> None, released |-> FALSE]
NoCol == [st |-> "none", src |-> None, done |-> {}, count |-> 0, released |-> FALSE]
Idle == [pc |-> "idle", k |-> None, src |-> None, prior |-> None, only |-> FALSE,
         shard |-> None, i |-> 0, comp |-> None, cur |-> None, rec |-> FALSE]
NoRow == [gen |-> None, st |-> "none"]
Attempts == 0..(Tries - 1)
First == [m |-> 0, f |-> None, at |-> 0]

Batch(k, s) == <<"batch", k, s>>
Cand(k) == <<"cand", k>>
Gen(g) == <<"gen", g>>
Batches(k) == {Batch(k, s) : s \in Shards}

PubLock == <<"publication", None>>
Locks == {PubLock} \cup ({"refresh", "collection"} \X Keys)

Init ==
    /\ head = First /\ seen = {First}
    /\ op = [k \in Keys |-> NoOp] /\ col = [k \in Keys |-> NoCol]
    /\ prot = [x \in Keys \X Attempts |-> NoRow]
    /\ files = {Gen(First)} /\ ledger = None
    /\ lock = [l \in Locks |-> None] /\ proc = [p \in Procs |-> Idle]
    /\ budget = [market |-> MaxMarket, daily |-> MaxDaily, crashes |-> MaxCrashes,
                 lost |-> MaxLost, refused |-> MaxRefused, lapses |-> MaxLapses, gc |-> MaxGc]

-----------------------------------------------------------------------------
At(p, l) == proc[p].pc = l
To(p, l) == proc' = [proc EXCEPT ![p].pc = l]
K(p) == proc[p].k
Op(p) == op[K(p)]
Fingerprint(p) == <<K(p), proc[p].src, proc[p].prior>>

\* Leaving a command frees every lock of its process.
Free(p) == [l \in Locks |-> IF lock[l] = p THEN None ELSE lock[l]]
Leave(p) == proc' = [proc EXCEPT ![p] = Idle] /\ lock' = Free(p)
Spend(what) == budget[what] > 0 /\ budget' = [budget EXCEPT ![what] = @ - 1]

\* A failure the operation records: only a running one takes it.
Fail(p) ==
    op' = [op EXCEPT ![K(p)].st = IF @ = "running" THEN "failed" ELSE @]
MarkFailed(p) ==
    col' = [col EXCEPT ![K(p)].st = IF @ = "running" THEN "failed" ELSE @]

\* A command names a Generation and the financial family it expects there.
Call(p, k, g, prior, only) ==
    /\ At(p, "idle") /\ g \in seen /\ prior \in {None, g.f}
    /\ only => Kind[k] = "publish"
    /\ Kind[k] = "reproject" => prior = g.f
    /\ proc' = [proc EXCEPT ![p] = [Idle EXCEPT !.pc = IF only THEN "collect" ELSE "start",
                                      !.k = k, !.src = g, !.prior = prior, !.only = only]]
    /\ UNCHANGED <<head, seen, op, col, prot, files, ledger, lock, budget>>

Published(p) == Op(p).st = "succeeded" /\ (Op(p).fp # Fingerprint(p) \/ Op(p).pub # None)

Inherits(g, k) == head = g \/ head.f = k

ReprojectionStarts(p) == proc[p].prior # None /\ Inherits(proc[p].src, K(p))

\* The early checks: published before (or the key reused), the prior family of the
\* named Generation, and for a reprojection that the Head is still the expected one.
Start(p) ==
    /\ At(p, "start")
    /\ IF \/ Published(p)
          \/ Gen(proc[p].src) \notin files
          \/ proc[p].src.f # proc[p].prior
          \/ Kind[K(p)] = "reproject" /\ ~ReprojectionStarts(p)
       THEN Leave(p)
       ELSE To(p, IF Kind[K(p)] = "publish" THEN "claim" ELSE "enter") /\ UNCHANGED lock
    /\ UNCHANGED <<head, seen, op, col, prot, files, ledger, budget>>

Created(p) ==
    IF Op(p).st # "none" THEN op
    ELSE [op EXCEPT ![K(p)] = [NoOp EXCEPT !.st = "running", !.fp = Fingerprint(p),
                                           !.src = proc[p].src, !.prior = proc[p].prior]]

\* _initialize: a reused key or a failed operation ends the command, a running one is
\* worked on, a succeeded one goes to publication.
Initialize(p, table, next) ==
    LET o == table[K(p)] IN
    IF o.fp # Fingerprint(p) \/ o.st = "failed" THEN Leave(p)
    ELSE /\ To(p, IF o.st = "running" THEN next ELSE "publish")
         /\ lock' = Free(p)

Claim(p) ==
    /\ At(p, "claim")
    /\ op' = Created(p)
    /\ Initialize(p, op', "enter")
    /\ UNCHANGED <<head, seen, col, prot, files, ledger, budget>>

\* Under the lock of the key; a reprojection creates its operation only here.
Enter(p) ==
    /\ At(p, "enter") /\ lock[<<"refresh", K(p)>>] = None
    /\ op' = IF Kind[K(p)] = "reproject" THEN Created(p) ELSE op
    /\ LET o == op'[K(p)] IN
       IF o.fp = Fingerprint(p) /\ o.st = "running"
       THEN /\ To(p, IF Kind[K(p)] = "publish" THEN "collect" ELSE "build")
            /\ lock' = [lock EXCEPT ![<<"refresh", K(p)>>] = p]
       ELSE Initialize(p, op', "enter")
    /\ UNCHANGED <<head, seen, col, prot, files, ledger, budget>>

\* The prior candidate does not fit the request.
PreflightFails(p) ==
    /\ At(p, "collect") /\ ~proc[p].only /\ proc[p].prior # None
    /\ Spend("refused") /\ Fail(p) /\ Leave(p)
    /\ UNCHANGED <<head, seen, col, prot, files, ledger>>

-----------------------------------------------------------------------------
(* The collection. *)

\* A failure inside collect() reaches the refresh that called it.
CollectionRaises(p) == IF proc[p].only THEN UNCHANGED op ELSE Fail(p)

CollectionCreated(p) ==
    IF col[K(p)].st # "none" THEN col
    ELSE [col EXCEPT ![K(p)] = [NoCol EXCEPT !.st = "running", !.src = proc[p].src]]

\* The first _initialize_operation, under the mutation lock.
CollectionClaim(p) ==
    /\ At(p, "collect")
    /\ IF Gen(proc[p].src) \notin files
       THEN CollectionRaises(p) /\ Leave(p) /\ UNCHANGED col
       ELSE /\ col' = CollectionCreated(p)
            /\ IF col'[K(p)].src # proc[p].src THEN CollectionRaises(p) /\ Leave(p)
               ELSE To(p, "clock") /\ UNCHANGED <<op, lock>>
    /\ UNCHANGED <<head, seen, prot, files, ledger, budget>>

\* After collect(): the snapshot for the candidate, or the end of collect-financial.
AfterCollection(p) ==
    IF proc[p].only THEN Leave(p)
    ELSE /\ To(p, "build")
         /\ lock' = [lock EXCEPT ![<<"collection", K(p)>>] = IF @ = p THEN None ELSE @]

\* The second, under the lock of the collection.
CollectionEnter(p) ==
    /\ At(p, "clock") /\ lock[<<"collection", K(p)>>] = None
    /\ CASE col[K(p)].st = "succeeded" -> AfterCollection(p) /\ UNCHANGED op
         [] col[K(p)].st = "failed" -> CollectionRaises(p) /\ Leave(p)
         [] OTHER -> /\ To(p, "shard") /\ UNCHANGED op
                     /\ lock' = [lock EXCEPT ![<<"collection", K(p)>>] = p]
    /\ UNCHANGED <<head, seen, col, prot, files, ledger, budget>>

Pending(k) == Shards \ col[k].done
NextPending(k) == Min(Pending(k))

\* One request; its answer passes _raw_batch_content and is stored under its digest.
Query(p) ==
    /\ At(p, "shard") /\ Pending(K(p)) # {}
    /\ proc' = [proc EXCEPT ![p].pc = "stored", ![p].shard = NextPending(K(p))]
    /\ files' = files \cup {Batch(K(p), NextPending(K(p)))}
    /\ UNCHANGED <<head, seen, op, col, prot, ledger, lock, budget>>

\* The source fails, or its answer drifted, is malformed, foreign or truncated.
QueryRefused(p) ==
    /\ At(p, "shard") /\ Pending(K(p)) # {}
    /\ Spend("refused") /\ MarkFailed(p) /\ CollectionRaises(p) /\ Leave(p)
    /\ UNCHANGED <<head, seen, prot, files, ledger>>

\* The checkpoint: the shard must still be pending and the collection running.
CompleteShard(p) ==
    /\ At(p, "stored")
    /\ IF proc[p].shard \in Pending(K(p)) /\ col[K(p)].st = "running"
       THEN /\ col' = [col EXCEPT ![K(p)].done = @ \cup {proc[p].shard}, ![K(p)].count = @ + 1]
            /\ To(p, "shard") /\ UNCHANGED <<op, lock>>
       ELSE MarkFailed(p) /\ CollectionRaises(p) /\ Leave(p)
    /\ UNCHANGED <<head, seen, prot, files, ledger, budget>>

Finish(p) ==
    /\ At(p, "shard") /\ Pending(K(p)) = {}
    /\ IF col[K(p)].st = "running" /\ col[K(p)].count = Cardinality(Shards)
       THEN /\ col' = [col EXCEPT ![K(p)].st = "succeeded"]
            /\ AfterCollection(p) /\ UNCHANGED op
       ELSE CollectionRaises(p) /\ Leave(p) /\ UNCHANGED col
    /\ UNCHANGED <<head, seen, prot, files, ledger, budget>>

-----------------------------------------------------------------------------
(* The candidate. *)

\* A candidate is built from a complete snapshot and readable batches, or replays the
\* receipts and the discovery its prior candidate retains.
Replayable(p) == Cand(proc[p].prior) \in files
Buildable(p) ==
    IF Kind[K(p)] = "reproject" THEN Replayable(p)
    ELSE col[K(p)].st = "succeeded" /\ Pending(K(p)) = {} /\ Batches(K(p)) \subseteq files

Build(p) ==
    /\ At(p, "build") /\ Buildable(p)
    /\ files' = files \cup {Cand(K(p))}
    /\ To(p, "complete")
    /\ UNCHANGED <<head, seen, op, col, prot, ledger, lock, budget>>

\* Validation rejects it, or something it needs is not there.
BuildFails(p) ==
    /\ At(p, "build")
    /\ Buildable(p) => budget.refused > 0
    /\ IF Buildable(p) THEN Spend("refused") ELSE UNCHANGED budget
    /\ Fail(p) /\ Leave(p)
    /\ UNCHANGED <<head, seen, col, prot, files, ledger>>

\* _complete: success of the operation releases the batches to its candidate.
Complete(p) ==
    /\ At(p, "complete")
    /\ IF Op(p).st = "running"
       THEN /\ op' = [op EXCEPT ![K(p)].st = "succeeded", ![K(p)].cand = TRUE]
            /\ col' = [col EXCEPT ![K(p)].released = @ \/ col[K(p)].st = "succeeded"]
            /\ To(p, "publish") /\ lock' = Free(p)
       ELSE Leave(p) /\ UNCHANGED <<op, col>>
    /\ UNCHANGED <<head, seen, prot, files, ledger, budget>>

-----------------------------------------------------------------------------
(* The publication. *)

\* The lifecycle lock is held from the comparison to the commit.
Switching == \E p \in Procs : At(p, "commit")

EnterPublication(p) ==
    /\ At(p, "publish") /\ lock[PubLock] = None
    /\ lock' = [lock EXCEPT ![PubLock] = p]
    /\ To(p, "inherit")
    /\ UNCHANGED <<head, seen, op, col, prot, files, ledger, budget>>

Released(k) ==
    [x \in Keys \X Attempts |->
        IF x[1] = k /\ prot[x].st = "live" THEN [prot[x] EXCEPT !.st = "released"] ELSE prot[x]]
ReleasedRow(x) == [prot EXCEPT ![x].st = IF @ = "live" THEN "released" ELSE @]

\* _complete_publication: receipt, report ledger, end of retention.
CompletePublication(k, g) ==
    /\ op[k].comp = g /\ op[k].pub = None
    /\ op' = [op EXCEPT ![k].pub = g, ![k].released = TRUE]
    /\ ledger' = k

\* Operations the Head's coordinate shows to be published although they do not say so.
Inherited == {k \in Keys : op[k].st = "succeeded" /\ op[k].pub = None
                           /\ op[k].comp # None /\ head.f = k}

ReconcileInherited(p) ==
    /\ At(p, "inherit")
    /\ \/ \E k \in Inherited :
             \/ /\ ~op[k].moved /\ ~Switching
                /\ prot' = Released(k) /\ op' = [op EXCEPT ![k].moved = TRUE]
                /\ UNCHANGED <<ledger, lock, proc>>
             \/ /\ op[k].moved
                /\ CompletePublication(k, op[k].comp)
                /\ UNCHANGED <<prot, lock, proc>>
       \/ /\ Inherited = {}
          /\ IF Published(p) THEN Leave(p) ELSE To(p, "reconcile") /\ UNCHANGED lock
          /\ UNCHANGED <<op, prot, ledger>>
    /\ UNCHANGED <<head, seen, col, files, budget>>

\* The row of an attempt can be taken: new, or this same live candidate.
MayProtect(k, i, g) == prot[<<k, i>>] \in {NoRow, [gen |-> g, st |-> "live"]}

\* _reconcile_publication: what a recorded composition of an earlier command became.
\* The Head it was made for is still there: verify it and switch; the Head moved on:
\* compose again.
Recover(p) ==
    LET k == K(p)
        usable == {i \in Attempts : MayProtect(k, i, Op(p).comp)} IN
    IF {Gen(Op(p).comp), Cand(k)} \subseteq files /\ usable # {}
    THEN /\ prot' = [prot EXCEPT ![<<k, Min(usable)>>] = [gen |-> Op(p).comp, st |-> "live"]]
         /\ proc' = [proc EXCEPT ![p].pc = "switch", ![p].i = Min(usable),
                                 ![p].comp = Op(p).comp, ![p].cur = head, ![p].rec = TRUE]
         /\ UNCHANGED <<op, lock>>
    ELSE Leave(p) /\ UNCHANGED <<op, prot>>

Reconcile(p) ==
    /\ At(p, "reconcile") /\ ~Switching
    /\ CASE Op(p).comp = None -> To(p, "try") /\ UNCHANGED <<op, prot, lock>>
         [] Op(p).comp # None /\ Op(p).moved ->
               /\ proc' = [proc EXCEPT ![p].pc = "finish", ![p].comp = Op(p).comp]
               /\ UNCHANGED <<op, prot, lock>>
         [] Op(p).comp # None /\ ~Op(p).moved /\ Inherits(Op(p).comp, K(p)) ->
               /\ prot' = Released(K(p)) /\ op' = [op EXCEPT ![K(p)].moved = TRUE]
               /\ proc' = [proc EXCEPT ![p].pc = "finish", ![p].comp = Op(p).comp]
               /\ UNCHANGED lock
         [] OTHER -> IF head # Op(p).src THEN To(p, "try") /\ UNCHANGED <<op, prot, lock>>
                     ELSE Recover(p)
    /\ UNCHANGED <<head, seen, col, files, ledger, budget>>

\* A manifest composed now has a name no earlier one has.
Composed(base, k) ==
    LET named == seen \cup {prot[x].gen : x \in Keys \X Attempts} \cup {op[j].comp : j \in Keys}
        used == {0} \cup {g.at : g \in named \ {None}}
    IN  [m |-> base.m, f |-> k, at |-> Min((0..(Cardinality(used))) \ used)]

\* The Head may have moved on by other families; a reprojection allows none.
ReprojectionCurrent(p) == head = proc[p].src
TargetCurrent(p) ==
    IF Kind[K(p)] = "publish" THEN head.f = proc[p].src.f ELSE ReprojectionCurrent(p)

\* Compose against the current Head and record what is about to be published.
Try(p) ==
    /\ At(p, "try")
    /\ LET g == Composed(head, K(p)) IN
       IF /\ TargetCurrent(p) /\ Cand(K(p)) \in files
          /\ Op(p).st = "succeeded" /\ Op(p).pub = None
       THEN /\ files' = files \cup {Gen(g)}
            /\ op' = [op EXCEPT ![K(p)].comp = g]
            /\ proc' = [proc EXCEPT ![p].pc = "protect", ![p].comp = g, ![p].cur = head,
                                    ![p].rec = FALSE]
            /\ UNCHANGED lock
       ELSE Leave(p) /\ UNCHANGED <<files, op>>
    /\ UNCHANGED <<head, seen, col, prot, ledger, budget>>

Row(p) == <<K(p), proc[p].i>>

Protect(p) ==
    /\ At(p, "protect") /\ ~Switching
    /\ IF MayProtect(K(p), proc[p].i, proc[p].comp)
       THEN /\ prot' = [prot EXCEPT ![Row(p)] = [gen |-> proc[p].comp, st |-> "live"]]
            /\ To(p, "switch") /\ UNCHANGED lock
       ELSE Leave(p) /\ UNCHANGED prot
    /\ UNCHANGED <<head, seen, op, col, files, ledger, budget>>

LiveRow(p) == prot[Row(p)] = [gen |-> proc[p].comp, st |-> "live"]

\* Mutant: the switch does not compare.
ExpectedAny(p) == TRUE
Expected(p) == head = proc[p].cur

Switch(p) ==
    /\ At(p, "switch") /\ ~Switching /\ LiveRow(p) /\ Expected(p)
    /\ head' = proc[p].comp /\ seen' = seen \cup {head'}
    /\ To(p, "commit")
    /\ UNCHANGED <<op, col, prot, files, ledger, lock, budget>>

TriesAgain(p) == Kind[K(p)] = "publish" /\ proc[p].i + 1 \in Attempts

\* Another Head: a publication tries again with its next attempt, a reprojection gives
\* up, a recovery goes back to composing.
Conflict(p) ==
    /\ At(p, "switch") /\ ~Switching /\ LiveRow(p) /\ ~Expected(p)
    /\ prot' = ReleasedRow(Row(p))
    /\ CASE proc[p].rec ->
               proc' = [proc EXCEPT ![p].pc = "try", ![p].i = 0] /\ UNCHANGED lock
         [] ~proc[p].rec /\ TriesAgain(p) ->
               proc' = [proc EXCEPT ![p].pc = "try", ![p].i = @ + 1] /\ UNCHANGED lock
         [] OTHER -> Leave(p)
    /\ UNCHANGED <<head, seen, op, col, files, ledger, budget>>

\* Any other exception before the switch: the candidate is released (outside recovery).
SwitchRaises(p) ==
    /\ At(p, "switch") /\ ~Switching
    /\ \/ LiveRow(p) /\ Spend("crashes")
       \/ ~LiveRow(p) /\ UNCHANGED budget
    /\ prot' = IF proc[p].rec \/ head = proc[p].comp THEN prot ELSE ReleasedRow(Row(p))
    /\ Leave(p)
    /\ UNCHANGED <<head, seen, op, col, files, ledger>>

\* The receipt of the switch commits in the same transaction.
Commit(p) ==
    /\ At(p, "commit")
    /\ IF Op(p).st = "succeeded" /\ Op(p).comp = proc[p].comp /\ ~Op(p).moved
       THEN /\ op' = [op EXCEPT ![K(p)].moved = TRUE]
            /\ prot' = ReleasedRow(Row(p))
            /\ To(p, "finish") /\ UNCHANGED lock
       ELSE Leave(p) /\ UNCHANGED <<op, prot>>
    /\ UNCHANGED <<head, seen, col, files, ledger, budget>>

FinishPublication(p) ==
    /\ At(p, "finish")
    /\ \/ CompletePublication(K(p), proc[p].comp)
       \/ /\ ~(Op(p).comp = proc[p].comp /\ Op(p).pub = None)
          /\ UNCHANGED <<op, ledger>>
    /\ Leave(p)
    /\ UNCHANGED <<head, seen, col, prot, files, budget>>

-----------------------------------------------------------------------------
(* The world. *)

MarketPublishes ==
    /\ ~Switching /\ Spend("market")
    /\ head' = [head EXCEPT !.m = @ + 1]
    /\ seen' = seen \cup {head'} /\ files' = files \cup {Gen(head')}
    /\ UNCHANGED <<op, col, prot, ledger, lock, proc>>

\* A daily financial Refresh continues the family under its own coordinate.
DailyPublishes ==
    /\ ~Switching /\ Spend("daily")
    /\ head' = [head EXCEPT !.f = "daily"]
    /\ seen' = seen \cup {head'} /\ files' = files \cup {Gen(head'), Cand("daily")}
    /\ ledger' = "daily"
    /\ UNCHANGED <<op, col, prot, lock, proc>>

\* release(): only once it succeeded.
Release(k) ==
    /\ \/ op[k].st = "succeeded" /\ ~op[k].released
          /\ op' = [op EXCEPT ![k].released = TRUE] /\ UNCHANGED col
       \/ col[k].st = "succeeded" /\ ~col[k].released
          /\ col' = [col EXCEPT ![k].released = TRUE] /\ UNCHANGED op
    /\ UNCHANGED <<head, seen, prot, files, ledger, lock, proc, budget>>

Lapses(x) ==
    /\ prot[x].st = "live" /\ Spend("lapses")
    /\ prot' = [prot EXCEPT ![x].st = "expired"]
    /\ UNCHANGED <<head, seen, op, col, files, ledger, lock, proc>>

\* What the collector keeps.
Roots == {head} \cup {prot[x].gen : x \in {y \in Keys \X Attempts : prot[y].st = "live"}}
RetainedCands ==
    {g.f : g \in Roots} \cup {k \in Keys : op[k].st = "succeeded" /\ ~op[k].released}
RetainedFiles ==
    {Gen(g) : g \in Roots} \cup {Cand(c) : c \in RetainedCands}
    \cup UNION {Batches(k) : k \in Keys \cap RetainedCands}
    \cup UNION {{Batch(k, s) : s \in col[k].done} :
                   k \in {j \in Keys : col[j].st = "succeeded" /\ ~col[j].released}}

\* Mutant: the collector looks at refresh operations only.
RefreshActive == \E k \in Keys : op[k].st = "running"
WorkActive == \E k \in Keys : op[k].st = "running" \/ col[k].st = "running"
Mutating == \E p \in Procs : proc[p].pc \in {"protect", "switch", "commit"}

Collect ==
    /\ ~WorkActive /\ ~Mutating /\ Spend("gc")
    /\ files' = files \cap RetainedFiles
    /\ UNCHANGED <<head, seen, op, col, prot, ledger, lock, proc>>

\* A process dies, or an exception nobody records ends its command.
Crash(p) ==
    /\ ~At(p, "idle") /\ Spend("crashes") /\ Leave(p)
    /\ UNCHANGED <<head, seen, op, col, prot, files, ledger>>

SessionLost(l) ==
    /\ lock[l] # None /\ Spend("lost")
    /\ lock' = [lock EXCEPT ![l] = None]
    /\ UNCHANGED <<head, seen, op, col, prot, files, ledger, proc>>

-----------------------------------------------------------------------------
Works(p) ==
    \/ Start(p) \/ Claim(p) \/ Enter(p) \/ CollectionClaim(p) \/ CollectionEnter(p)
    \/ Query(p) \/ CompleteShard(p) \/ Finish(p) \/ Build(p) \/ BuildFails(p) \/ Complete(p)
    \/ EnterPublication(p) \/ ReconcileInherited(p) \/ Reconcile(p) \/ Try(p) \/ Protect(p)
    \/ Switch(p) \/ Conflict(p) \/ SwitchRaises(p) \/ Commit(p) \/ FinishPublication(p)

Calls(p) ==
    \E k \in Keys, g \in seen, prior \in {None} \cup {h.f : h \in seen}, only \in BOOLEAN :
        Call(p, k, g, prior, only)

Next ==
    \/ \E p \in Procs : Works(p) \/ Calls(p) \/ PreflightFails(p) \/ QueryRefused(p) \/ Crash(p)
    \/ MarketPublishes \/ DailyPublishes \/ Collect
    \/ \E k \in Keys : Release(k)
    \/ \E x \in Keys \X Attempts : Lapses(x)
    \/ \E l \in Locks : SessionLost(l)

Spec == Init /\ [][Next]_vars

\* The operator gives an interrupted command again, unchanged.
Again(p, k) ==
    /\ op[k].st \in {"running", "succeeded"} /\ op[k].pub = None
    /\ Call(p, k, op[k].src, op[k].prior, FALSE)

Fairness ==
    \A p \in Procs : WF_vars(Works(p)) /\ \A k \in Keys : SF_vars(Again(p, k))

FairSpec == Spec /\ Fairness

-----------------------------------------------------------------------------
(* Properties. *)

\* A collection counts exactly the shards it completed, and an operation that succeeded
\* has its candidate; a composition is recorded only for one.
TypeOK ==
    /\ \A k \in Keys :
          /\ col[k].done \subseteq Shards /\ col[k].count = Cardinality(col[k].done)
          /\ op[k].st = "succeeded" <=> op[k].cand
          /\ op[k].comp # None \/ op[k].moved => op[k].cand
    /\ head \in seen
    /\ \A p \in Procs : proc[p].i \in Attempts

\* Evidence survives the collector until it is published or released: batches of a
\* finished collection, the candidate of a finished operation, the Head's family.
EvidenceRetained ==
    /\ \A k \in Keys :
          /\ col[k].st \in {"running", "succeeded"} /\ ~col[k].released =>
                {Batch(k, s) : s \in col[k].done} \subseteq files
          /\ op[k].st = "succeeded" /\ ~op[k].released => Cand(k) \in files
    /\ Gen(head) \in files
    /\ head.f # None => Cand(head.f) \in files

\* A receipt names a Generation the Head really had, with the receipt's own family.
ReceiptNamesHead ==
    \A k \in Keys : op[k].pub # None => op[k].pub \in seen /\ op[k].pub.f = k

\* The Head takes a family only in place of the one it was built on, never takes back
\* one it had before, and never loses a market publication.
NoLostUpdate ==
    /\ head'.m >= head.m
    /\ head'.f # head.f /\ head'.f \in Keys =>
          head.f = op[head'.f].prior /\ \A g \in seen : g.f # head'.f

\* A command that has its candidate is published, unless it failed for good or another
\* financial publication overtook it.
Recomposed(k) ==
    op[k].st = "succeeded" =>
        op[k].pub # None \/ head.f \notin {op[k].prior, k} \/ op[k].released
=============================================================================
