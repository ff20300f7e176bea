------------------------ MODULE DailyFinancialRefresh ------------------------
(***************************************************************************)
(* The daily financial Refresh (data/daily_financial_refresh.py, its       *)
(* report ledger in financial_report_progress.py, the indicator dispatch   *)
(* of financial_indicator_collection.py and the financial half of          *)
(* data/refresh.py).  An operation discovers which reports were disclosed, *)
(* plans which instruments to collect, collects them one at a time with a  *)
(* durable attempt each, builds a candidate from what it received and      *)
(* publishes it; or, as a stage of a dataset operation, only prepares it.  *)
(*                                                                         *)
(* The ledger of expected reports is shared by all operations and outlives *)
(* them.  It is rewritten by candidates that may never be published, so    *)
(* every plan starts again from the published inventory.                   *)
(*                                                                         *)
(* A report has the three statement endpoints as one side and the          *)
(* indicator endpoint as the other.  A Generation names its financial      *)
(* family (publisher, reports, how far discovery is complete, readiness)   *)
(* and its indicator family (publisher, reports).                          *)
(***************************************************************************)
EXTENDS Integers, FiniteSets, FiniteSetsExt

CONSTANTS
    Reports,        \* disclosed reports
    Inst,           \* report -> instrument
    Day,            \* report -> actual disclosure day
    Insts,          \* instruments of the historical identities
    Keys,           \* operations
    Target,         \* key -> target session
    Mode,           \* key -> "financial" (publishes) or "dataset" (prepares)
    Workers,        \* Data Operator processes that may overlap
    Overlap,        \* days discovery looks back behind the complete session
    RecheckLimit,   \* instruments rechecked by rotation in one operation
    LastDay,        \* bound: calendar days
    HeadTries, MaxAttempts,
    MaxOutside,     \* bound: Head moves by publications of other families
    MaxPauses,      \* bound: leases that lapse under a worker still running
    MaxDeaths,      \* bound: workers that die
    MaxLost,        \* bound: lock sessions dropped under a worker
    MaxErrors,      \* bound: steps of a worker that raise
    MaxGaps,        \* bound: discoveries and requests that the source refuses
    None

ASSUME BoundsAssumption ==
    /\ {HeadTries, MaxAttempts, RecheckLimit} \subseteq Nat \ {0}
    /\ {Overlap, LastDay, MaxOutside, MaxPauses, MaxDeaths, MaxLost, MaxErrors, MaxGaps}
          \subseteq Nat
    /\ Inst \in [Reports -> Insts] /\ Day \in [Reports -> 1..LastDay]
    /\ Target \in [Keys -> 1..LastDay] /\ Mode \in [Keys -> {"financial", "dataset"}]

VARIABLES
    day,        \* today
    listed,     \* reports the disclosure calendar lists
    held,       \* reports the source can return
    head,       \* the Generation the Head names
    op,         \* data.refresh_operations
    rec,        \* data.financial_daily_refresh_operations and the attempts
    ledger,     \* data.financial_report_targets: expected, statement and indicator resolved;
                \* data.financial_indicator_collections: <<report, checked through>>
    checks,     \* data.financial_report_rechecks per side: order of the last check, failed
    live,       \* protected Head candidates: <<key, attempt, try>>
    lock,       \* holder of the session lock financial-daily-refresh
    lifecycle,  \* holder of the data lifecycle lock across the Head switch
    worker,     \* the processes
    budget      \* what is left of the bounds

world == <<day, listed, held>>
vars == <<day, listed, held, head, op, rec, ledger, checks, live, lock, lifecycle, worker, budget>>

Upto(d) == {r \in Reports : Day[r] <= d}
Of(is) == {r \in Reports : Inst[r] \in is}
\* The reports of the ledger that an operation's target makes due.
Expected(k) == {r \in ledger.known : Day[r] <= Target[k]}
InstsOf(rs) == {Inst[r] : r \in rs}

NoOp == [st |-> "none", att |-> 0, live |-> FALSE, ord |-> 0]
NoRec == [st |-> "none", src |-> None, gaps |-> None, plan |-> None,
          tried |-> {}, failed |-> {}, got |-> {},
          iplan |-> None, idone |-> {}, ifailed |-> None, ipend |-> {},
          icand |-> None, cand |-> None, comp |-> None, moved |-> FALSE,
          pub |-> None, pending |-> None]
Idle == [pc |-> "idle", key |-> None, att |-> 0, i |-> 1, cur |-> None, ifails |-> {},
         found |-> {}]

Init ==
    /\ day = 1 /\ listed = {} /\ held = {}
    /\ head = [n |-> 0, by |-> None,
               fin |-> [by |-> None, reps |-> {}, complete |-> 0, through |-> 0, ready |-> "ready"],
               ind |-> [by |-> None, reps |-> {}]]
    /\ op = [k \in Keys |-> NoOp]
    /\ rec = [k \in Keys |-> NoRec]
    /\ ledger = [known |-> {}, st |-> {}, in |-> {}, seen |-> {}]
    /\ checks = [s \in {"st", "in"} |-> [at |-> [i \in Insts |-> 0], failed |-> {}]]
    /\ live = {} /\ lock = None /\ lifecycle = None
    /\ worker = [w \in Workers |-> Idle]
    /\ budget = [outside |-> MaxOutside, pauses |-> MaxPauses, deaths |-> MaxDeaths,
                 lost |-> MaxLost, errors |-> MaxErrors, gaps |-> MaxGaps]

Unlocked == lifecycle = None
At(w, l) == worker[w].pc = l
To(w, l) == worker' = [worker EXCEPT ![w].pc = l]
Key(w) == worker[w].key
Rec(w) == rec[worker[w].key]
Owned(w) == op[Key(w)].st = "running" /\ op[Key(w)].att = worker[w].att /\ op[Key(w)].live

Leave(w) ==
    /\ worker' = [worker EXCEPT ![w] = Idle]
    /\ lock' = IF lock = w THEN None ELSE lock

(***************************************************************************)
(* The queue.                                                              *)
(***************************************************************************)
Submit(k) ==
    /\ op[k].st = "none" /\ Target[k] <= day
    /\ op' = [op EXCEPT ![k].st = "accepted",
                        ![k].ord = Cardinality({j \in Keys : op[j].st # "none"})]
    /\ UNCHANGED <<world, head, rec, ledger, checks, live, lock, lifecycle, worker, budget>>

Receipt(k) == IF rec[k].pub # None THEN rec[k].pub ELSE rec[k].comp

\* What a reconciliation must find: the Head switch recorded, or the Head's
\* financial coordinate.
Pending(k) ==
    /\ op[k].st = "running" /\ Mode[k] = "financial" /\ rec[k].comp # None
    /\ rec[k].moved \/ head.fin.by = k

ReconcileScan(w) ==
    /\ At(w, "idle")
    /\ worker' = [worker EXCEPT ![w].pc = "scanned",
                    ![w].found = {<<k, Receipt(k)>> : k \in {j \in Keys : Pending(j)}}]
    /\ UNCHANGED <<world, head, op, rec, ledger, checks, live, lock, lifecycle, budget>>

\* Instruments with an expected report of either side that is not resolved,
\* with a failed attempt, or whose indicator request failed or is pending.
Unresolved(k) ==
    InstsOf(Expected(k) \ (ledger.st \cap ledger.in))
    \cup rec[k].failed
    \cup rec[k].ifailed
    \cup IF rec[k].icand = None THEN rec[k].ipend ELSE {}

\* complete_publication: the receipt with its status and pending instruments.
CompletePublication(k, g) ==
    [rec[k] EXCEPT !.pub = g, !.moved = TRUE, !.pending = Unresolved(k),
        !.st = CASE rec[k].gaps -> "succeeded_with_gaps"
                 [] ~rec[k].gaps /\ Unresolved(k) # {} -> "succeeded_with_pending"
                 [] OTHER -> "succeeded"]

Succeeded == {"succeeded", "succeeded_with_pending", "succeeded_with_gaps"}

\* reconcile_daily_financial_publication: what it accepts.
Settleable(k, g) ==
    /\ rec[k].cand # None /\ g \in {rec[k].comp, rec[k].pub}
    /\ g.fin = rec[k].cand
    /\ rec[k].icand # None => g.ind = rec[k].icand
    /\ \/ rec[k].st = "running" /\ rec[k].pub = None
       \/ rec[k].st \in Succeeded /\ rec[k].pub = g

Settle(k, g) == IF rec[k].st = "running" THEN CompletePublication(k, g) ELSE rec[k]

ReconcileReceipts(w) ==
    /\ At(w, "scanned")
    /\ IF \A f \in worker[w].found : Settleable(f[1], f[2])
       THEN /\ rec' = [k \in Keys |->
                         IF \E f \in worker[w].found : f[1] = k
                         THEN Settle(k, (CHOOSE f \in worker[w].found : f[1] = k)[2])
                         ELSE rec[k]]
            /\ To(w, "received") /\ UNCHANGED lock
       ELSE Leave(w) /\ UNCHANGED rec
    /\ UNCHANGED <<world, head, op, ledger, checks, live, lifecycle, budget>>

Release(k, att) == {c \in live : ~(c[1] = k /\ c[2] = att)}

\* A financial operation is completed even when the Head has moved on.
ReconcileApply(w) ==
    LET done == {k \in Keys : op[k].st = "running" /\ \E f \in worker[w].found : f[1] = k} IN
    /\ At(w, "received") /\ Unlocked
    /\ op' = [k \in Keys |-> IF k \in done THEN [op[k] EXCEPT !.st = "succeeded"] ELSE op[k]]
    /\ live' = {c \in live : \A k \in done : c \in Release(k, op[k].att)}
    /\ worker' = [worker EXCEPT ![w] = [Idle EXCEPT !.pc = "reconciled"]]
    /\ UNCHANGED <<world, head, rec, ledger, checks, lock, lifecycle, budget>>

Closed(r) == IF r.st = "running" /\ r.pub = None THEN [r EXCEPT !.st = "failed"] ELSE r
AttemptOver(row, retry) ==
    [row EXCEPT !.st = IF retry THEN "accepted" ELSE "failed", !.live = FALSE]

\* A dataset operation's unfinished preparation is abandoned, and so is one
\* the Head has left behind: its next attempt starts a stage of its own.
Abandoned(k, row) ==
    IF Mode[k] = "dataset" /\ ~(row.st = "prepared" /\ head = row.src) THEN NoRec ELSE row

RecoverExpired(w) ==
    LET expired == {k \in Keys : op[k].st = "running" /\ ~op[k].live}
        retry(k) == op[k].att < MaxAttempts IN
    /\ At(w, "reconciled") /\ Unlocked
    /\ live' = {c \in live : \A k \in expired : c \in Release(k, op[k].att)}
    /\ rec' = [k \in Keys |-> IF k \notin expired THEN rec[k]
                              ELSE IF retry(k) THEN Abandoned(k, rec[k]) ELSE Closed(rec[k])]
    /\ op' = [k \in Keys |-> IF k \in expired THEN AttemptOver(op[k], retry(k)) ELSE op[k]]
    /\ To(w, "recovered")
    /\ UNCHANGED <<world, head, ledger, checks, lock, lifecycle, budget>>

\* One operation runs at a time, the oldest first.
Claimable ==
    LET waiting == {k \in Keys : op[k].st = "accepted"} IN
    IF \E k \in Keys : op[k].st = "running" THEN {}
    ELSE {k \in waiting : \A j \in waiting : op[k].ord <= op[j].ord}

Claim(w) ==
    /\ At(w, "recovered") /\ Unlocked
    /\ IF Claimable = {} THEN Leave(w) /\ UNCHANGED op
       ELSE \E k \in Claimable :
              /\ op' = [op EXCEPT ![k].st = "running", ![k].live = TRUE, ![k].att = @ + 1]
              /\ worker' = [worker EXCEPT ![w] =
                    [Idle EXCEPT !.pc = "claimed", !.key = k, !.att = op[k].att + 1]]
              /\ UNCHANGED lock
    /\ UNCHANGED <<world, head, rec, ledger, checks, live, lifecycle, budget>>

(***************************************************************************)
(* publish and prepare: discovery and planning.                            *)
(***************************************************************************)
Acquire(w) ==
    /\ At(w, "claimed") /\ lock = None
    /\ lock' = w
    /\ To(w, "enter")
    /\ UNCHANGED <<world, head, op, rec, ledger, checks, live, lifecycle, budget>>

\* begin: the row fixes the Generation the operation starts from; a target
\* behind what was attempted before is refused.
Begin(w) ==
    /\ head.fin.through <= Target[Key(w)]
    /\ rec' = [rec EXCEPT ![Key(w)] = [NoRec EXCEPT !.st = "running", !.src = head]]

\* _existing_outcome and _operation_or_initialize.  A failed row raises, and
\* so does a target behind the published one.
Enter(w) ==
    /\ At(w, "enter") /\ Rec(w).st # "failed"
    /\ \/ /\ Rec(w).st = "none" /\ Begin(w)
          /\ To(w, "discover")
       \/ /\ Rec(w).st = "running" /\ To(w, "discover") /\ UNCHANGED rec
       \/ /\ Rec(w).st \in Succeeded /\ UNCHANGED rec
          /\ worker' = [worker EXCEPT ![w].pc = "complete", ![w].cur = Rec(w).pub]
       \/ /\ Rec(w).st = "prepared" /\ UNCHANGED rec /\ To(w, "prepared")
    /\ UNCHANGED <<world, head, op, ledger, checks, live, lock, lifecycle, budget>>

WindowWithoutOverlap(k) ==
    {r \in listed : rec[k].src.fin.complete < Day[r] /\ Day[r] <= Target[k]}

\* financial_discovery_window.
Window(k) ==
    {r \in listed : rec[k].src.fin.complete - Overlap <= Day[r] /\ Day[r] <= Target[k]}

\* record_discovery: the reports found join the ledger.
RecordDiscovery(k, gap, found) ==
    /\ rec[k].st = "running"
    /\ rec' = [rec EXCEPT ![k].gaps = gap]
    /\ ledger' = [ledger EXCEPT !.known = @ \cup found]

\* A gap is a period the source would not answer for.
Discover(w) ==
    /\ At(w, "discover")
    /\ \/ /\ Rec(w).gaps # None /\ UNCHANGED <<rec, ledger, budget>>
       \/ /\ Rec(w).gaps = None
          /\ \E gap \in BOOLEAN, found \in SUBSET Window(Key(w)) :
                /\ IF gap THEN budget.gaps > 0 ELSE found = Window(Key(w))
                /\ RecordDiscovery(Key(w), gap, found)
                /\ budget' = [budget EXCEPT !.gaps = IF gap THEN @ - 1 ELSE @]
    /\ To(w, "plan")
    /\ UNCHANGED <<world, head, op, checks, live, lock, lifecycle>>

\* reconciliation_ids: every instrument whose last check failed, and the
\* longest unchecked of the others.
Rotation(side, exclude) ==
    checks[side].failed \cup
    {i \in Insts \ exclude :
        Cardinality({j \in Insts \ exclude : checks[side].at[j] < checks[side].at[i]})
           < RecheckLimit}

\* A published side of the ledger: unresolved up to the target, then resolved
\* by the inventory.
Rewritten(side, k, inventory) ==
    (side \ Upto(Target[k])) \cup (inventory \cap ledger.known)

\* _published_report_inventory of the Generation the operation starts from.
PublishedInventory(k) == [st |-> rec[k].src.fin.reps, in |-> rec[k].src.ind.reps]

\* prepare_reports: against the published bytes, never the ledger a failed
\* publication left.
Plan(w) ==
    LET k == Key(w)
        published == PublishedInventory(k)
        st == Rewritten(ledger.st, k, published.st)
        in == Rewritten(ledger.in, k, published.in)
        pending == InstsOf(Expected(k) \ st) IN
    /\ At(w, "plan")
    /\ \/ Rec(w).plan # None /\ UNCHANGED <<rec, ledger>>
       \/ /\ Rec(w).plan = None
          /\ ledger' = [ledger EXCEPT !.st = st, !.in = in]
          /\ rec' = [rec EXCEPT ![k].plan = pending \cup Rotation("st", pending)]
    /\ To(w, "indicators")
    /\ UNCHANGED <<world, head, op, checks, live, lock, lifecycle, budget>>

(***************************************************************************)
(* Indicators.                                                             *)
(***************************************************************************)
\* _plan of the indicator collector: frozen in a file of the operation, so a
\* later attempt asks for the same instruments.
IndicatorPlan(w) ==
    LET pending == InstsOf(Expected(Key(w)) \ ledger.in)
        rotated == Rotation("in", {}) IN
    /\ At(w, "indicators")
    /\ \/ Rec(w).ifailed # None /\ To(w, "indicated") /\ UNCHANGED rec
       \/ /\ Rec(w).ifailed = None
          /\ rec' = [rec EXCEPT ![Key(w)].iplan =
                       IF @ = None THEN [all |-> pending \cup rotated, rotated |-> rotated]
                       ELSE @]
          /\ worker' = [worker EXCEPT ![w].pc = "icollect", ![w].ifails = {}]
    /\ UNCHANGED <<world, head, op, ledger, checks, live, lock, lifecycle, budget>>

Checked(side, i, ok) ==
    [checks EXCEPT ![side] =
        [at |-> [@.at EXCEPT ![i] = 1 + Max({checks[side].at[j] : j \in Insts})],
         failed |-> IF ok THEN @.failed \ {i} ELSE @.failed \cup {i}]]

\* Plans are worked off in a fixed order.
First(is) == CHOOSE i \in is : TRUE

\* record_reconciliation: an answered request resolves the reports it holds.
RecordReconciliation(k, got) ==
    ledger' = [ledger EXCEPT !.in = @ \cup (got \cap ledger.known),
                             !.seen = @ \cup (got \X {Target[k]})]

\* One request.  An answer is checkpointed, so that a later attempt reads it
\* again; a refusal is only remembered by this attempt.
CollectIndicator(w) ==
    LET k == Key(w)
        left == Rec(w).iplan.all \ (Rec(w).idone \cup worker[w].ifails)
        i == First(left) IN
    /\ At(w, "icollect") /\ left # {}
    /\ \E ok \in BOOLEAN :
          /\ checks' = IF i \in Rec(w).iplan.rotated THEN Checked("in", i, ok) ELSE checks
          /\ IF ok
             THEN /\ rec' = [rec EXCEPT ![k].idone = @ \cup {i}]
                  /\ RecordReconciliation(k, held \cap Of({i}) \cap Upto(Target[k]))
                  /\ UNCHANGED <<worker, budget>>
             ELSE /\ budget.gaps > 0
                  /\ budget' = [budget EXCEPT !.gaps = @ - 1]
                  /\ worker' = [worker EXCEPT ![w].ifails = @ \cup {i}]
                  /\ UNCHANGED <<rec, ledger>>
    /\ UNCHANGED <<world, head, op, live, lock, lifecycle>>

\* record_indicator_collection.
RecordIndicators(w) ==
    /\ At(w, "icollect") /\ Rec(w).st = "running"
    /\ Rec(w).iplan.all \subseteq Rec(w).idone \cup worker[w].ifails
    /\ rec' = [rec EXCEPT ![Key(w)].ifailed = worker[w].ifails,
                          ![Key(w)].ipend = InstsOf(Expected(Key(w)) \ ledger.in)
                                               \cap Rec(w).iplan.all]
    /\ To(w, "indicated")
    /\ UNCHANGED <<world, head, op, ledger, checks, live, lock, lifecycle, budget>>

\* record_indicator_candidate: the candidate is authoritative for the
\* indicator side of the ledger.
RecordIndicatorCandidate(k, built) ==
    /\ rec[k].st = "running" /\ rec[k].pub = None
    /\ rec' = [rec EXCEPT ![k].icand = built]
    /\ ledger' = [ledger EXCEPT !.in = Rewritten(@, k, built.reps)]

\* record_indicator_retained: no session is covered by the evidence.
RetainIndicators(k) ==
    rec[k].st = "running" /\ rec[k].pub = None /\ UNCHANGED <<rec, ledger>>

\* _build_indicator_candidate: the published reports with all collected ones.
IndicatorCandidate(w) ==
    LET k == Key(w)
        seen == {s[1] : s \in {t \in ledger.seen : t[2] <= Target[k]}}
        built == [by |-> k, reps |-> Rec(w).src.ind.reps \cup seen] IN
    /\ At(w, "indicated")
    /\ \/ Rec(w).icand # None /\ UNCHANGED <<rec, ledger>>
       \/ Rec(w).icand = None /\ built.reps # {} /\ RecordIndicatorCandidate(k, built)
       \/ Rec(w).icand = None /\ built.reps = {} /\ RetainIndicators(k)
    /\ To(w, IF Rec(w).cand # None THEN "built" ELSE "collect")
    /\ UNCHANGED <<world, head, op, checks, live, lock, lifecycle, budget>>

(***************************************************************************)
(* Statements.                                                             *)
(***************************************************************************)
\* DailyFinancialStatementCollector.collect: all three endpoints or none.
Answers(k, i) ==
    {[ok |-> TRUE, reps |-> held \cap Of({i}) \cap Upto(Target[k])]}
    \cup IF budget.gaps > 0 THEN {[ok |-> FALSE, reps |-> {}]} ELSE {}

\* record_instrument_attempt, with the recheck in the same transaction.
RecordAttempt(k, i, answer) ==
    /\ rec[k].st = "running"
    /\ rec' = [rec EXCEPT ![k].tried = @ \cup {i}, ![k].got = @ \cup answer.reps,
                          ![k].failed = IF answer.ok THEN @ ELSE @ \cup {i}]
    /\ checks' = Checked("st", i, answer.ok)

\* The planned instruments that no attempt of the operation has recorded.
Remaining(k) == rec[k].plan \ rec[k].tried

CollectStatement(w) ==
    LET k == Key(w)
        i == First(Remaining(k)) IN
    /\ At(w, "collect") /\ Remaining(k) # {}
    /\ \E answer \in Answers(k, i) :
          /\ RecordAttempt(k, i, answer)
          /\ budget' = [budget EXCEPT !.gaps = IF answer.ok THEN @ ELSE @ - 1]
    /\ UNCHANGED <<world, head, op, ledger, live, lock, lifecycle, worker>>

\* candidate_publication_state: readiness of what would be published.
Readiness(k, reps) ==
    CASE rec[k].gaps -> "ready_with_gaps"
      [] ~rec[k].gaps /\ (Expected(k) \ reps # {} \/ rec[k].failed # {})
            -> "ready_with_pending"
      [] OTHER -> "ready"

\* With a gap discovery is no further than before.
CompleteThrough(k) == IF rec[k].gaps THEN rec[k].src.fin.complete ELSE Target[k]

\* record_candidate: the statement side of the ledger follows the candidate.
RecordCandidate(k, candidate) ==
    /\ rec[k].st = "running" /\ rec[k].pub = None
    /\ rec' = [rec EXCEPT ![k].cand = candidate]
    /\ ledger' = [ledger EXCEPT !.st = Rewritten(@, k, candidate.reps)]

\* prepare_daily and finalize_daily: the published reports and the received ones.
BuildCandidate(w) ==
    LET k == Key(w)
        reps == Rec(w).src.fin.reps \cup Rec(w).got IN
    /\ At(w, "collect") /\ Remaining(k) = {}
    /\ RecordCandidate(k, [by |-> k, reps |-> reps, complete |-> CompleteThrough(k),
                           through |-> Target[k], ready |-> Readiness(k, reps)])
    /\ To(w, "built")
    /\ UNCHANGED <<world, head, op, checks, live, lock, lifecycle, budget>>

(***************************************************************************)
(* The stage of a dataset operation.                                       *)
(***************************************************************************)
Composed(w, base) ==
    [n |-> base.n + 1, by |-> <<Key(w), worker[w].att, worker[w].i>>,
     fin |-> Rec(w).cand, ind |-> IF Rec(w).icand = None THEN base.ind ELSE Rec(w).icand]

\* FINANCIAL_PREPARATION_INCOMPLETE otherwise.
FullyPrepared(w) ==
    /\ Rec(w).cand.ready = "ready"
    /\ Rec(w).ifailed = {} /\ Rec(w).ipend = {}

Prepare(w) ==
    /\ At(w, "built") /\ Mode[Key(w)] = "dataset"
    /\ FullyPrepared(w) /\ Rec(w).st = "running"
    /\ rec' = [rec EXCEPT ![Key(w)].comp = Composed(w, Rec(w).src), ![Key(w)].st = "prepared"]
    /\ To(w, "prepared")
    /\ UNCHANGED <<world, head, op, ledger, checks, live, lock, lifecycle, budget>>

\* The dataset operation publishes what was prepared, if the Head still is
\* what it was prepared on (UnifiedRefresh).
PublishPrepared(w) ==
    /\ At(w, "prepared") /\ Unlocked /\ Owned(w) /\ head = Rec(w).src
    /\ head' = Rec(w).comp
    /\ op' = [op EXCEPT ![Key(w)].st = "succeeded"]
    /\ Leave(w)
    /\ UNCHANGED <<world, rec, ledger, checks, live, lifecycle, budget>>

(***************************************************************************)
(* _publish_candidate.                                                     *)
(***************************************************************************)
\* record_composed_generation: the row is checked, the claim is not.
RecordComposed(k, g) ==
    /\ rec[k].st = "running" /\ rec[k].cand # None /\ rec[k].pub = None
    /\ rec' = [rec EXCEPT ![k].comp = g, ![k].moved = FALSE]

\* The publication is already visible, somebody else replaced a family, or
\* the candidate is composed on the Head and recorded.
Try(w) ==
    LET k == Key(w)
        shown == Rec(w).moved \/ head.fin.by = k
        kept == /\ head.fin \in {Rec(w).src.fin, Rec(w).cand}
                /\ Rec(w).icand # None => head.ind \in {Rec(w).src.ind, Rec(w).icand} IN
    /\ At(w, "built") /\ Mode[k] = "financial" /\ worker[w].i <= HeadTries
    /\ \/ /\ shown /\ Rec(w).comp # None /\ Settleable(k, Rec(w).comp)
          /\ rec' = [rec EXCEPT ![k] = Settle(k, Rec(w).comp)]
          /\ worker' = [worker EXCEPT ![w].pc = "complete", ![w].cur = Rec(w).comp]
       \/ /\ ~shown /\ ~kept /\ To(w, "rejected") /\ UNCHANGED rec
       \/ /\ ~shown /\ kept /\ RecordComposed(k, Composed(w, head))
          /\ worker' = [worker EXCEPT ![w].pc = "recorded", ![w].cur = head]
    /\ UNCHANGED <<world, head, op, ledger, checks, live, lock, lifecycle, budget>>

Candidate(w) == <<Key(w), worker[w].att, worker[w].i>>

Protect(w) ==
    /\ At(w, "recorded") /\ Unlocked
    /\ live' = live \cup {Candidate(w)}
    /\ To(w, "protected")
    /\ UNCHANGED <<world, head, op, rec, ledger, checks, lock, lifecycle, budget>>

SwitchUncompared(w) == TRUE
Compare(w) == head = worker[w].cur

\* _owned_financial_publication_transaction, and the candidate protected.
PublicationGuard(w) == Owned(w) /\ Candidate(w) \in live

\* compare_and_swap_head: the Head file is replaced before the transaction
\* commits.
SwitchHead(w) ==
    /\ At(w, "protected") /\ Unlocked /\ PublicationGuard(w) /\ Compare(w)
    /\ head' = Composed(w, worker[w].cur)
    /\ lifecycle' = w
    /\ To(w, "switched")
    /\ UNCHANGED <<world, op, rec, ledger, checks, live, lock, budget>>

CommitSwitch(w) ==
    /\ At(w, "switched")
    /\ Rec(w).st = "running" /\ Rec(w).comp = Composed(w, worker[w].cur) /\ ~Rec(w).moved
    /\ rec' = [rec EXCEPT ![Key(w)].moved = TRUE]
    /\ op' = [op EXCEPT ![Key(w)].live = TRUE]
    /\ live' = live \ {Candidate(w)}
    /\ lifecycle' = None
    /\ worker' = [worker EXCEPT ![w].pc = "receipt", ![w].cur = Rec(w).comp]
    /\ UNCHANGED <<world, head, ledger, checks, lock, budget>>

HeadConflict(w) ==
    /\ At(w, "protected") /\ Unlocked /\ PublicationGuard(w) /\ ~Compare(w)
    /\ live' = live \ {Candidate(w)}
    /\ worker' = [worker EXCEPT ![w].i = @ + 1,
                                ![w].pc = IF worker[w].i < HeadTries THEN "built" ELSE "raised"]
    /\ UNCHANGED <<world, head, op, rec, ledger, checks, lock, lifecycle, budget>>

\* record_head_moved and complete_publication.
RecordPublication(w) ==
    /\ At(w, "receipt") /\ Rec(w).st = "running" /\ Rec(w).pub = None
    /\ rec' = [rec EXCEPT ![Key(w)] = CompletePublication(Key(w), worker[w].cur)]
    /\ To(w, "complete")
    /\ UNCHANGED <<world, head, op, ledger, checks, live, lock, lifecycle, budget>>

\* _complete_financial: the publication must still be the Head.
CompleteFinancial(w) ==
    /\ At(w, "complete") /\ Unlocked /\ head = worker[w].cur /\ Owned(w)
    /\ op' = [op EXCEPT ![Key(w)].st = "succeeded"]
    /\ Leave(w)
    /\ UNCHANGED <<world, head, rec, ledger, checks, live, lifecycle, budget>>

(***************************************************************************)
(* Failure.                                                                *)
(***************************************************************************)
Working == {"claimed", "enter", "discover", "plan", "indicators", "icollect", "indicated",
            "collect", "built", "recorded", "protected", "switched", "receipt", "complete",
            "prepared", "raised", "rejected"}

\* _financial_post_cas_head_state: the publication is or may be visible.
PostCas(w) ==
    /\ op[Key(w)].st = "running" /\ op[Key(w)].att = worker[w].att
    /\ Mode[Key(w)] = "financial"
    /\ \/ Rec(w).moved \/ At(w, "complete")
       \/ Rec(w).comp # None /\ head.fin.by = Key(w)

\* publish and prepare mark the row failed for an error that is not
\* retryable (prepare for any error); _record_failure then settles the
\* operation.
RecordFailure(w, retryable) ==
    LET k == Key(w)
        inside == worker[w].pc \in Working \ {"claimed", "enter", "complete", "prepared"}
        marked == inside /\ (~retryable \/ Mode[k] = "dataset")
        row == IF marked THEN Closed(rec[k]) ELSE rec[k]
        retry == retryable /\ worker[w].att < MaxAttempts IN
    IF PostCas(w) \/ ~Owned(w)
    THEN rec' = [rec EXCEPT ![k] = row] /\ UNCHANGED <<op, live>>
    ELSE /\ live' = Release(k, worker[w].att)
         /\ rec' = [rec EXCEPT ![k] = IF retry THEN Abandoned(k, row) ELSE Closed(row)]
         /\ op' = [op EXCEPT ![k] = AttemptOver(@, retry)]

\* A database or file error, a refusal, or a check above that does not hold.
\* An error of the switch is retryable: the Head is looked at again.
Fails(w) ==
    LET forced == worker[w].pc \in {"raised", "rejected"} IN
    /\ worker[w].pc \in Working
    /\ forced \/ budget.errors > 0
    /\ budget' = IF forced THEN budget ELSE [budget EXCEPT !.errors = @ - 1]
    /\ lifecycle \in {None, w}
    /\ lifecycle' = None
    /\ \E retryable \in IF At(w, "rejected") THEN {FALSE}
                        ELSE IF worker[w].pc \in {"raised", "protected", "switched", "receipt"}
                        THEN {TRUE} ELSE BOOLEAN :
          RecordFailure(w, retryable)
    /\ Leave(w)
    /\ UNCHANGED <<world, head, ledger, checks>>

\* A check that does not hold raises, whatever the bound on errors.
Refused(w) ==
    \/ At(w, "enter") /\ Rec(w).st = "failed"
    \/ At(w, "enter") /\ Rec(w).st = "none" /\ head.fin.through > Target[Key(w)]
    \/ At(w, "built") /\ Mode[Key(w)] = "dataset" /\ ~FullyPrepared(w)
    \/ At(w, "prepared") /\ Unlocked /\ head # Rec(w).src
    \/ At(w, "complete") /\ head # worker[w].cur
    \/ worker[w].pc \in {"discover", "plan", "icollect", "indicated", "collect", "built", "receipt"}
          /\ Rec(w).st # "running" /\ ~Rec(w).moved

Refuse(w) ==
    /\ Refused(w) /\ Unlocked
    /\ RecordFailure(w, worker[w].pc \in {"prepared", "complete"})
    /\ Leave(w)
    /\ UNCHANGED <<world, head, ledger, checks, lifecycle, budget>>

Fenced(w) ==
    /\ worker[w].pc \in Working \ {"switched"} /\ ~Owned(w)
    /\ Leave(w)
    /\ UNCHANGED <<world, head, op, rec, ledger, checks, live, lifecycle, budget>>

(***************************************************************************)
(* The environment.                                                        *)
(***************************************************************************)
\* The calendar lists a report at most Overlap days late.
NextDay ==
    /\ day < LastDay
    /\ \A r \in Reports : Day[r] + Overlap <= day => r \in listed
    /\ day' = day + 1
    /\ UNCHANGED <<listed, held, head, op, rec, ledger, checks, live, lock, lifecycle,
                   worker, budget>>

List(r) ==
    /\ Day[r] <= day /\ r \notin listed
    /\ listed' = listed \cup {r}
    /\ UNCHANGED <<day, held, head, op, rec, ledger, checks, live, lock, lifecycle,
                   worker, budget>>

\* The structured report may come before or after its listing.
Arrive(r) ==
    /\ Day[r] <= day /\ r \notin held
    /\ held' = held \cup {r}
    /\ UNCHANGED <<day, listed, head, op, rec, ledger, checks, live, lock, lifecycle,
                   worker, budget>>

Dies(w) ==
    /\ ~At(w, "idle") /\ budget.deaths > 0
    /\ budget' = [budget EXCEPT !.deaths = @ - 1]
    /\ lifecycle' = IF lifecycle = w THEN None ELSE lifecycle
    /\ Leave(w)
    /\ UNCHANGED <<world, head, op, rec, ledger, checks, live>>

LeaseLapses(k) ==
    LET alive == \E w \in Workers : Key(w) = k /\ worker[w].att = op[k].att IN
    /\ op[k].st = "running" /\ op[k].live
    /\ alive => budget.pauses > 0
    /\ budget' = IF alive THEN [budget EXCEPT !.pauses = @ - 1] ELSE budget
    /\ op' = [op EXCEPT ![k].live = FALSE]
    /\ UNCHANGED <<world, head, rec, ledger, checks, live, lock, lifecycle, worker>>

SessionLost ==
    /\ lock # None /\ budget.lost > 0
    /\ budget' = [budget EXCEPT !.lost = @ - 1]
    /\ lock' = None
    /\ UNCHANGED <<world, head, op, rec, ledger, checks, live, lifecycle, worker>>

OutsideMove ==
    /\ budget.outside > 0 /\ Unlocked
    /\ budget' = [budget EXCEPT !.outside = @ - 1]
    /\ head' = [head EXCEPT !.n = @ + 1, !.by = <<"outside", budget.outside, 0>>]
    /\ UNCHANGED <<world, op, rec, ledger, checks, live, lock, lifecycle, worker>>

Work(w) ==
    \/ ReconcileScan(w) \/ ReconcileReceipts(w) \/ ReconcileApply(w)
    \/ RecoverExpired(w) \/ Claim(w)
    \/ Acquire(w) \/ Enter(w) \/ Discover(w) \/ Plan(w)
    \/ IndicatorPlan(w) \/ CollectIndicator(w) \/ CollectStatement(w)
    \/ RecordIndicators(w) \/ IndicatorCandidate(w) \/ BuildCandidate(w)
    \/ Prepare(w) \/ PublishPrepared(w)
    \/ Try(w) \/ Protect(w) \/ SwitchHead(w) \/ CommitSwitch(w) \/ HeadConflict(w)
    \/ RecordPublication(w) \/ CompleteFinancial(w)
    \/ Fails(w) \/ Refuse(w) \/ Fenced(w)

Next ==
    \/ \E k \in Keys : Submit(k) \/ LeaseLapses(k)
    \/ \E w \in Workers : Work(w) \/ Dies(w)
    \/ \E r \in Reports : List(r) \/ Arrive(r)
    \/ NextDay \/ SessionLost \/ OutsideMove

Spec == Init /\ [][Next]_vars

(***************************************************************************)
(* Properties.                                                             *)
(***************************************************************************)
TypeOK ==
    /\ listed \subseteq Reports /\ held \subseteq Reports
    /\ ledger.st \subseteq ledger.known /\ ledger.in \subseteq ledger.known
    /\ \A k \in Keys :
          /\ op[k].st \in {"none", "accepted", "running", "succeeded", "failed"}
          /\ op[k].att \in 0..MaxAttempts
          /\ rec[k].st \in {"none", "running", "prepared", "failed"} \cup Succeeded
          /\ rec[k].failed \subseteq rec[k].tried
    /\ live \subseteq Keys \X (1..MaxAttempts) \X (1..HeadTries)

\* A Generation never loses a published report and never moves a discovery
\* session back, whatever was published in between.
PublishedGrows ==
    head # head' =>
       /\ head.fin.reps \subseteq head'.fin.reps
       /\ head.ind.reps \subseteq head'.ind.reps
       /\ head.fin.complete <= head'.fin.complete
       /\ head.fin.through <= head'.fin.through
       /\ head'.n = head.n + 1

\* A Generation published as ready contains every report that was expected
\* by then, although the ledger it is judged by was written by several
\* operations and rewritten by candidates that were never published.
ReadyIsComplete ==
    head.fin # head'.fin /\ head'.fin.ready = "ready" =>
       ledger.known \cap Upto(head'.fin.through) \subseteq head'.fin.reps

\* What discovery claims: a report disclosed more than Overlap days before the
\* complete session is in the ledger, through gaps, failures and late listings.
DisclosuresKnown ==
    \A r \in Reports : Day[r] + Overlap < head.fin.complete => r \in ledger.known

\* A plan covers every instrument with an expected report that the Generation
\* it starts from does not contain.
PlanCoversUnpublished ==
    \A k \in Keys : rec[k].plan = None /\ rec'[k].plan # None =>
       InstsOf(Expected(k) \ rec[k].src.fin.reps)
          \subseteq rec'[k].plan

\* A receipt, whoever finishes it, names a Generation that was the Head.
ReceiptNamesHead ==
    \A k \in Keys : rec[k].pub # None =>
        /\ rec[k].pub.n <= head.n
        /\ rec[k].pub.n = head.n => rec[k].pub = head

\* A receipt finished after a crash is judged by the ledger of that moment:
\* it still reports as pending every instrument whose statements the published
\* Generation lacks, and succeeds without pending only when that is ready.
PendingReported ==
    \A k \in Keys : rec[k].pub = None /\ rec'[k].pub # None =>
       /\ InstsOf(Expected(k) \ rec'[k].pub.fin.reps) \subseteq rec'[k].pending
       /\ rec'[k].st = "succeeded" => rec'[k].pub.fin.ready = "ready"

\* A dataset operation publishes a financial stage only when both families
\* hold every report that is due, whatever was left behind by others.
StagedIsComplete ==
    \A k \in Keys : head # head' /\ head'.by[1] = k /\ Mode[k] = "dataset" =>
       Expected(k) \subseteq head'.fin.reps \cap head'.ind.reps

\* The Head is switched to an operation's Generation only while it runs.
PublishedWhileRunning ==
    \A k \in Keys : head # head' /\ head'.by[1] = k => op[k].st = "running"

\* An operation whose financial data is the Head's is not reported failed.
PublishedNotFailed == \A k \in Keys : head.fin.by = k => op[k].st # "failed"
=============================================================================
