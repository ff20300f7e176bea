--------------------------- MODULE IndustryRefresh ---------------------------
(***************************************************************************)
(* The industry kind of Refresh (data/industry_refresh.py and the industry *)
(* half of data/refresh.py).  An operation keeps a receipt of its own      *)
(* (data.industry_refresh_operations): it collects the classification,     *)
(* builds a candidate against the industry data it started from, composes  *)
(* it onto whatever Generation is the Head and switches the Head, trying   *)
(* again when somebody else switched first.  The receipt is what a later   *)
(* attempt or a reconciliation finds after a crash.                        *)
(*                                                                         *)
(* A Generation is a record: its depth n, who composed it (an operation's  *)
(* attempt and try, or None), the industry content it carries and its      *)
(* industry publication coordinate (the key of the operation that          *)
(* published that content).  Publications of other families keep the last  *)
(* two.                                                                    *)
(***************************************************************************)
EXTENDS Integers, FiniteSets

CONSTANTS
    Keys,           \* idempotency keys of industry operations
    Workers,        \* Data Operator processes that may overlap
    Contents,       \* classifications the source can return
    HeadTries,      \* Head switches tried by one attempt
    MaxAttempts,    \* the service's max_attempts
    Limits,         \* bounds: the largest counts of faults that may come together
    None

FaultKinds ==
    {"other",       \* Head moves by publications of other families
     "replaced",    \* Head moves by a dataset Refresh, industry data included
     "pauses",      \* leases that lapse under a worker still running
     "deaths",      \* workers that die
     "lost"}        \* lock sessions dropped under a worker still running

Generations ==
    [n : Nat, by : {None} \cup (Keys \X Nat \X Nat), ind : Contents, coord : Keys \cup {None}]

ASSUME BoundsAssumption ==
    /\ {HeadTries, MaxAttempts} \subseteq Nat \ {0}
    /\ Limits \subseteq [FaultKinds -> Nat]
    /\ Contents # {}

\* None is no value of the others.
ASSUME NoneAssumption ==
    /\ None \notin Keys \cup Workers \cup Contents \cup Generations
    /\ None \notin Keys \X Nat \X Nat

VARIABLES
    head,       \* the Generation the Head file names
    heads,      \* history: the Generations that have been the Head
    op,         \* data.refresh_operations, by key
    rec,        \* data.industry_refresh_operations, by key
    live,       \* protected Head candidates: <<key, attempt, try>>
    keyLock,    \* holder of the session lock industry-refresh:<key>
    lifecycle,  \* holder of the data lifecycle lock across the Head switch
    worker,     \* the processes
    faults      \* how often each fault has happened

vars == <<head, heads, op, rec, live, keyLock, lifecycle, worker, faults>>
data == <<head, heads>>
locks == <<keyLock, lifecycle>>

NoOp == [st |-> "none", att |-> 0, live |-> FALSE, ord |-> 0]
NoRec == [st |-> "none", prior |-> None, cand |-> None, comp |-> None,
          moved |-> FALSE, pub |-> None]
Idle == [pc |-> "idle", key |-> None, att |-> 0, i |-> 1, cur |-> None,
         comp |-> None, cand |-> None, gen |-> None, retry |-> TRUE]

Init ==
    /\ \E c \in Contents : head = [n |-> 0, by |-> None, ind |-> c, coord |-> None]
    /\ heads = {head}
    /\ op = [k \in Keys |-> NoOp]
    /\ rec = [k \in Keys |-> NoRec]
    /\ live = {}
    /\ keyLock = [k \in Keys |-> None]
    /\ lifecycle = None
    /\ worker = [w \in Workers |-> Idle]
    /\ faults = [f \in FaultKinds |-> 0]

Unlocked == lifecycle = None
At(w, l) == worker[w].pc = l
To(w, l) == worker' = [worker EXCEPT ![w].pc = l]
Key(w) == worker[w].key
Rec(w) == rec[worker[w].key]

\* Running, this owner token, lease not expired.
Owned(w) == op[Key(w)].st = "running" /\ op[Key(w)].att = worker[w].att /\ op[Key(w)].live

\* The publication is over, or the worker raised: the lock session ends.
KeyReleased(w) == keyLock' = [k \in Keys |-> IF keyLock[k] = w THEN None ELSE keyLock[k]]

\* process_next returns or raises.
Leave(w) == worker' = [worker EXCEPT ![w] = Idle] /\ KeyReleased(w)

(***************************************************************************)
(* The queue.                                                              *)
(***************************************************************************)
\* created_at is the start of the inserting transaction, so rows may become
\* visible in another order; the retry of a failed or cancelled operation is
\* a new key.
Submit(k) ==
    /\ op[k].st = "none"
    /\ \E o \in 1..Cardinality(Keys) :
          /\ \A j \in Keys : op[j].ord # o
          /\ op' = [op EXCEPT ![k].st = "accepted", ![k].ord = o]
    /\ UNCHANGED <<data, rec, live, locks, worker, faults>>

Cancel(k) ==
    /\ op[k].st = "accepted" /\ Unlocked
    /\ op' = [op EXCEPT ![k].st = "cancelled"]
    /\ UNCHANGED <<data, rec, live, locks, worker, faults>>

\* What a receipt shows when it is compared with a Generation: the
\* coordinate when the content changed, the content itself when it did not.
Matches(k, cand, g) ==
    IF cand # rec[k].prior THEN g.coord = k ELSE g.ind = cand

\* The Generation a running operation is reconciled with.
Receipt(k) == IF rec[k].pub # None THEN rec[k].pub ELSE rec[k].comp

\* _reconcile_pending_completion reads the rows whose publication is
\* recorded, whose Head switch is, or whose coordinate is that of the Head
\* read before.
Pending(k, g) ==
    /\ op[k].st = "running" /\ Receipt(k) # None
    /\ rec[k].pub # None \/ rec[k].moved \/ g.coord = k

ReadPointer(w) ==
    /\ At(w, "idle")
    /\ worker' = [worker EXCEPT ![w].pc = "pointer", ![w].cur = head]
    /\ UNCHANGED <<data, op, rec, live, locks, faults>>

\* At most one operation is running (OneRunning), so at most one is found.
ReadPending(w) ==
    /\ At(w, "pointer")
    /\ \/ \E k \in Keys :
            /\ Pending(k, worker[w].cur)
            /\ worker' = [worker EXCEPT ![w].pc = "receipt", ![w].key = k, ![w].gen = Receipt(k)]
       \/ (\A k \in Keys : ~Pending(k, worker[w].cur)) /\ To(w, "reconciled")
    /\ UNCHANGED <<data, op, rec, live, locks, faults>>

(***************************************************************************)
(* reconcile_industry_publication writes the publication in the receipt,   *)
(* for a reconciliation (att = 0) and for a worker's own publication.      *)
(***************************************************************************)
Reconciling(w) == worker[w].att = 0

\* The receipt fits the Generation.
Settleable(k, g) ==
    /\ rec[k].st = "succeeded" /\ rec[k].cand # None
    /\ Matches(k, rec[k].cand, g)
    /\ rec[k].pub \in {None, g}

MatchReceipt(w) ==
    /\ At(w, "receipt") /\ Settleable(Key(w), worker[w].gen)
    /\ To(w, IF Reconciling(w) \/ Rec(w).cand = worker[w].cand THEN "matched" ELSE "unlike")
    /\ UNCHANGED <<data, op, rec, live, locks, faults>>

\* A worker whose outcome is not the receipt's raises afterwards.
Raised(w, retry) ==
    /\ worker' = [worker EXCEPT ![w].pc = "raised", ![w].retry = retry]
    /\ KeyReleased(w)

Writable(w) ==
    \/ Rec(w).st = "succeeded" /\ Rec(w).pub = None
    \/ Rec(w).pub = worker[w].gen

WritePublication(w) ==
    /\ worker[w].pc \in {"matched", "unlike"} /\ Writable(w)
    /\ rec' = [rec EXCEPT ![Key(w)].pub = worker[w].gen]
    /\ IF At(w, "unlike") THEN Raised(w, TRUE)
       ELSE IF Reconciling(w) THEN To(w, "received") /\ UNCHANGED keyLock
       ELSE To(w, "complete") /\ KeyReleased(w)
    /\ UNCHANGED <<data, op, live, lifecycle, faults>>

ReleaseFirst(k, att) == live \ {<<k, att, 1>>}

\* _release_child_generation_candidates: every try of the attempt.
Release(k, att) == {c \in live : ~(c[1] = k /\ c[2] = att)}

\* Under the lifecycle lock an operation whose Generation still is the Head
\* is completed.
ReconcileApply(w) ==
    /\ At(w, "received") /\ Unlocked
    /\ IF op[Key(w)].st = "running" /\ worker[w].gen = head
       THEN /\ op' = [op EXCEPT ![Key(w)].st = "succeeded"]
            /\ live' = Release(Key(w), op[Key(w)].att)
       ELSE UNCHANGED <<op, live>>
    /\ worker' = [worker EXCEPT ![w] = [Idle EXCEPT !.pc = "reconciled"]]
    /\ UNCHANGED <<data, rec, locks, faults>>

ReopenedAlways(r) == IF r.pub = None /\ r.st # "none" THEN [r EXCEPT !.st = "running"] ELSE r

\* A receipt whose operation goes back to the queue, and one whose operation
\* has failed for good.
Reopened(r) == IF r.st = "failed" /\ r.pub = None THEN [r EXCEPT !.st = "running"] ELSE r
Closed(r) ==
    IF r.st = "running" /\ r.pub = None THEN [r EXCEPT !.st = "failed", !.cand = None] ELSE r

\* The attempt of k ends without a publication.
EndAttempt(k, retry) ==
    /\ live' = Release(k, op[k].att)
    /\ rec' = [rec EXCEPT ![k] = IF retry THEN Reopened(@) ELSE Closed(@)]
    /\ op' = [op EXCEPT ![k].st = IF retry THEN "accepted" ELSE "failed", ![k].live = FALSE]

RecoverNothing(w) ==
    /\ At(w, "reconciled") /\ Unlocked
    /\ To(w, "recovered")
    /\ UNCHANGED <<data, op, rec, live, locks, faults>>

Expired(k) == op[k].st = "running" /\ ~op[k].live

RecoverExpired(w) ==
    /\ At(w, "reconciled") /\ Unlocked
    /\ \/ \E k \in Keys : Expired(k) /\ EndAttempt(k, op[k].att < MaxAttempts)
       \/ (\A k \in Keys : ~Expired(k)) /\ UNCHANGED <<op, rec, live>>
    /\ To(w, "recovered")
    /\ UNCHANGED <<data, locks, faults>>

ClaimableOldest ==
    LET waiting == {k \in Keys : op[k].st = "accepted"} IN
    {k \in waiting : \A j \in waiting : op[k].ord <= op[j].ord}

\* One operation runs at a time, the oldest first.
Claimable ==
    LET waiting == {k \in Keys : op[k].st = "accepted"} IN
    IF \E k \in Keys : op[k].st = "running" THEN {}
    ELSE {k \in waiting : \A j \in waiting : op[k].ord <= op[j].ord}

\* An interrupted collection, which keeps every claim away, is not modelled.
Claim(w) ==
    /\ At(w, "recovered") /\ Unlocked
    /\ \/ Claimable = {} /\ Leave(w) /\ UNCHANGED op
       \/ \E k \in Claimable :
            /\ op' = [op EXCEPT ![k].st = "running", ![k].live = TRUE, ![k].att = @ + 1]
            /\ worker' = [worker EXCEPT ![w] =
                  [Idle EXCEPT !.pc = "claimed", !.key = k, !.att = op[k].att + 1]]
            /\ UNCHANGED keyLock
    /\ UNCHANGED <<data, rec, live, lifecycle, faults>>

(***************************************************************************)
(* IndustryRefreshService.publish: the candidate.                          *)
(***************************************************************************)
\* _industry_target and _record_phase, each for the owner only.
ReadTarget(w) ==
    /\ At(w, "claimed") /\ Owned(w)
    /\ To(w, "waiting")
    /\ UNCHANGED <<data, op, rec, live, locks, faults>>

\* The session advisory lock of the key.
KeyFree(k) == keyLock[k] = None

AcquireKey(w) ==
    /\ At(w, "waiting") /\ KeyFree(Key(w))
    /\ keyLock' = [keyLock EXCEPT ![Key(w)] = w]
    /\ To(w, "enter")
    /\ UNCHANGED <<data, op, rec, live, lifecycle, faults>>

\* _existing_outcome of an earlier attempt; a failed receipt raises.
Existing(w) ==
    /\ At(w, "enter") /\ Rec(w).st # "failed"
    /\ \/ /\ Rec(w).st \in {"none", "running"}
          /\ worker' = [worker EXCEPT ![w].pc = "insert", ![w].cur = head]
          /\ UNCHANGED keyLock
       \/ /\ Rec(w).st = "succeeded" /\ Rec(w).pub # None
          /\ worker' = [worker EXCEPT ![w].pc = "complete", ![w].cand = Rec(w).cand,
                                      ![w].gen = Rec(w).pub]
          /\ KeyReleased(w)
       \/ /\ Rec(w).st = "succeeded" /\ Rec(w).pub = None
          /\ worker' = [worker EXCEPT ![w].pc = "publish", ![w].cand = Rec(w).cand]
          /\ UNCHANGED keyLock
    /\ UNCHANGED <<data, op, rec, live, lifecycle, faults>>

\* _initialize: the receipt of the first attempt fixes the industry data the
\* operation replaces; a later attempt keeps it.
Initialize(w) ==
    /\ At(w, "insert")
    /\ rec' = IF Rec(w).st = "none"
              THEN [rec EXCEPT ![Key(w)].st = "running", ![Key(w)].prior = worker[w].cur.ind]
              ELSE rec
    /\ To(w, "collect")
    /\ UNCHANGED <<data, op, live, locks, faults>>

\* _build: the receipt is running, or another attempt has its candidate.
BeginBuild(w) ==
    /\ At(w, "collect")
    /\ \/ Rec(w).st = "running" /\ To(w, "collecting")
       \/ /\ Rec(w).st = "succeeded"
          /\ worker' = [worker EXCEPT ![w].pc = "publish", ![w].cand = Rec(w).cand]
    /\ UNCHANGED <<data, op, rec, live, locks, faults>>

\* The source answers.
Collect(w) ==
    /\ At(w, "collecting")
    /\ \E c \in Contents : worker' = [worker EXCEPT ![w].pc = "built", ![w].cand = c]
    /\ UNCHANGED <<data, op, rec, live, locks, faults>>

\* Or it raises, or the candidate is invalid: the receipt fails with it.
CollectFails(w) ==
    /\ At(w, "collecting")
    /\ rec' = [rec EXCEPT ![Key(w)].st = IF @ = "running" THEN "failed" ELSE @]
    /\ \E retry \in BOOLEAN : Raised(w, retry)
    /\ UNCHANGED <<data, op, live, lifecycle, faults>>

Materialized(w) ==
    /\ At(w, "built") /\ Rec(w).st = "running"
    /\ rec' = [rec EXCEPT ![Key(w)].st = "succeeded", ![Key(w)].cand = worker[w].cand]
    /\ To(w, "publish")
    /\ UNCHANGED <<data, op, live, locks, faults>>

(***************************************************************************)
(* _publish_candidate.                                                     *)
(***************************************************************************)
Changed(w) == worker[w].cand # Rec(w).prior

\* _reconcile_publication: the receipt, then the Head.
ReadReceipt(w) ==
    /\ At(w, "publish")
    /\ \/ /\ Rec(w).pub # None
          /\ worker' = [worker EXCEPT ![w].pc = "complete", ![w].gen = Rec(w).pub]
          /\ KeyReleased(w)
       \/ Rec(w).pub = None /\ To(w, "look") /\ UNCHANGED keyLock
    /\ UNCHANGED <<data, op, rec, live, lifecycle, faults>>

LookAtHead(w) ==
    /\ At(w, "look")
    /\ \/ /\ Matches(Key(w), worker[w].cand, head)
          /\ worker' = [worker EXCEPT ![w].pc = IF Changed(w) THEN "moving" ELSE "receipt",
                                      ![w].gen = head]
       \/ /\ ~Matches(Key(w), worker[w].cand, head)
          /\ To(w, IF Changed(w) THEN "try" ELSE "unchanged")
    /\ UNCHANGED <<data, op, rec, live, locks, faults>>

RecordHeadMoved(w) ==
    /\ At(w, "moving")
    /\ rec' = IF Rec(w).st = "succeeded"
              THEN [rec EXCEPT ![Key(w)].moved = TRUE,
                               ![Key(w)].comp = IF @ = None THEN worker[w].gen ELSE @]
              ELSE rec
    /\ To(w, "receipt")
    /\ UNCHANGED <<data, op, live, locks, faults>>

\* No change: the Head must still carry the data the operation confirmed.
Unchanged(w) ==
    /\ At(w, "unchanged")
    /\ \/ /\ head.ind = Rec(w).prior
          /\ worker' = [worker EXCEPT ![w].pc = "receipt", ![w].gen = head]
       \/ head.ind # Rec(w).prior /\ To(w, "mismatch")
    /\ UNCHANGED <<data, op, rec, live, locks, faults>>

\* One try: the candidate composed on the Head as read here.
Try(w) ==
    /\ At(w, "try")
    /\ \/ /\ head.coord = Key(w)
          /\ worker' = [worker EXCEPT ![w].pc = "receipt", ![w].gen = head]
       \/ head.coord # Key(w) /\ head.ind # Rec(w).prior /\ To(w, "mismatch")
       \/ /\ head.coord # Key(w) /\ head.ind = Rec(w).prior
          /\ worker' = [worker EXCEPT ![w].pc = "composed", ![w].cur = head,
                ![w].comp = [n |-> head.n + 1, by |-> <<Key(w), worker[w].att, worker[w].i>>,
                             ind |-> worker[w].cand, coord |-> Key(w)]]
    /\ UNCHANGED <<data, op, rec, live, locks, faults>>

\* _fail_publication_target: somebody else replaced the industry data.
TargetChanged(w) ==
    /\ At(w, "mismatch") /\ Rec(w).st = "succeeded" /\ Rec(w).pub = None
    /\ rec' = [rec EXCEPT ![Key(w)].st = "failed", ![Key(w)].cand = None]
    /\ Raised(w, FALSE)
    /\ UNCHANGED <<data, op, live, lifecycle, faults>>

RecordCandidate(w) ==
    /\ At(w, "composed") /\ Rec(w).st = "succeeded" /\ Rec(w).pub = None
    /\ rec' = [rec EXCEPT ![Key(w)].comp = worker[w].comp, ![Key(w)].moved = FALSE]
    /\ To(w, "recorded")
    /\ UNCHANGED <<data, op, live, locks, faults>>

\* protect_prevalidated_candidate, under the lifecycle lock.
Candidate(w) == <<Key(w), worker[w].att, worker[w].i>>

Protect(w) ==
    /\ At(w, "recorded") /\ Unlocked
    /\ live' = live \cup {Candidate(w)}
    /\ To(w, "protected")
    /\ UNCHANGED <<data, op, rec, locks, faults>>

PublicationUnguarded(w) == Candidate(w) \in live

\* _owned_industry_publication_transaction, and the candidate still protected.
PublicationGuard(w) == Owned(w) /\ Candidate(w) \in live

SwitchUncompared(w) == TRUE

Compare(w) == head = worker[w].cur

\* compare_and_swap_head: the Head file is replaced before the transaction
\* commits.
SwitchHead(w) ==
    /\ At(w, "protected") /\ Unlocked
    /\ PublicationGuard(w) /\ Compare(w)
    /\ head' = worker[w].comp
    /\ heads' = heads \cup {head'}
    /\ lifecycle' = w
    /\ To(w, "switched")
    /\ UNCHANGED <<op, rec, live, keyLock, faults>>

CommitSwitch(w) ==
    /\ At(w, "switched")
    /\ Rec(w).st = "succeeded" /\ Rec(w).comp = worker[w].comp /\ ~Rec(w).moved
    /\ rec' = [rec EXCEPT ![Key(w)].moved = TRUE]
    /\ op' = [op EXCEPT ![Key(w)].live = TRUE]
    /\ live' = live \ {Candidate(w)}
    /\ lifecycle' = None
    /\ worker' = [worker EXCEPT ![w].pc = "receipt", ![w].gen = worker[w].comp]
    /\ UNCHANGED <<data, keyLock, faults>>

\* DatasetHeadConflict: the candidate is released and the loop goes on, or
\* ends with INDUSTRY_HEAD_CHANGED_REPEATEDLY.
HeadConflict(w) ==
    /\ At(w, "protected") /\ Unlocked
    /\ PublicationGuard(w) /\ ~Compare(w)
    /\ To(w, "conflicted")
    /\ UNCHANGED <<data, op, rec, live, locks, faults>>

ReleaseCandidate(w) ==
    /\ At(w, "conflicted") /\ Unlocked
    /\ live' = live \ {Candidate(w)}
    /\ IF worker[w].i < HeadTries
       THEN worker' = [worker EXCEPT ![w].pc = "try", ![w].i = @ + 1] /\ UNCHANGED keyLock
       ELSE Raised(w, TRUE)
    /\ UNCHANGED <<data, op, rec, lifecycle, faults>>

CompletesAnyHead(w) == Owned(w)

\* _complete_industry: the publication must still be the Head.
Completes(w) == head = worker[w].gen /\ Owned(w)

CompleteIndustry(w) ==
    /\ At(w, "complete") /\ Unlocked /\ Completes(w)
    /\ op' = [op EXCEPT ![Key(w)].st = "succeeded"]
    /\ Leave(w)
    /\ UNCHANGED <<data, rec, live, lifecycle, faults>>

(***************************************************************************)
(* Failure.                                                                *)
(***************************************************************************)
Reconciliation == {"pointer", "received", "reconciled", "recovered"}
Collecting == {"claimed", "waiting", "enter", "insert", "collect", "collecting", "built"}
Publishing ==
    {"publish", "look", "moving", "unchanged", "try", "mismatch", "composed", "recorded",
     "protected", "switched", "conflicted", "receipt", "matched", "unlike", "complete"}
Working == Collecting \cup Publishing

\* An error, or a check above that does not hold.  The lifecycle transaction
\* is rolled back; the Head file is not.  An error of the collection may be
\* final, one of the publication is retryable.
Fails(w) ==
    /\ ~Reconciling(w) /\ worker[w].pc \in Working
    /\ \E retry \in IF worker[w].pc \in Collecting THEN BOOLEAN ELSE {TRUE} : Raised(w, retry)
    /\ lifecycle' = IF lifecycle = w THEN None ELSE lifecycle
    /\ UNCHANGED <<data, op, rec, live, faults>>

\* A receipt that does not fit raises out of process_next.
ReconciliationFails(w) ==
    /\ Reconciling(w)
    /\ \/ At(w, "receipt") /\ ~Settleable(Key(w), worker[w].gen)
       \/ At(w, "matched") /\ ~Writable(w)
    /\ Leave(w)
    /\ UNCHANGED <<data, op, rec, live, lifecycle, faults>>

\* _industry_post_cas_state: the publication is or may be visible.
PostCas(w) ==
    /\ op[Key(w)].st = "running" /\ op[Key(w)].att = worker[w].att
    /\ \/ Rec(w).pub # None
       \/ Rec(w).moved
       \/ Rec(w).comp # None /\ head.coord = Key(w)

\* A publication that may be visible is left to the reconciliation.
AskPostCas(w) ==
    /\ At(w, "raised") /\ Unlocked
    /\ IF PostCas(w) THEN Leave(w) ELSE To(w, "failing") /\ UNCHANGED keyLock
    /\ UNCHANGED <<data, op, rec, live, lifecycle, faults>>

RecordFailure(w) ==
    /\ At(w, "failing") /\ Unlocked
    /\ IF Owned(w) THEN EndAttempt(Key(w), worker[w].retry /\ worker[w].att < MaxAttempts)
       ELSE UNCHANGED <<op, rec, live>>
    /\ Leave(w)
    /\ UNCHANGED <<data, lifecycle, faults>>

\* Neither can be asked or written: the operation stays running.
GivesUp(w) ==
    /\ worker[w].pc \in {"raised", "failing"}
    /\ Leave(w)
    /\ UNCHANGED <<data, op, rec, live, lifecycle, faults>>

\* Where the ownership guard is asked.
Guarded ==
    {"claimed", "enter", "collecting", "built", "try", "unchanged", "protected", "receipt",
     "complete"}

\* A fenced statement or a heartbeat that failed tells the worker that its
\* claim is gone; a heartbeat may also not have noticed yet.
Fenced(w) ==
    /\ ~Reconciling(w) /\ worker[w].pc \in Guarded /\ ~Owned(w)
    /\ Leave(w)
    /\ UNCHANGED <<data, op, rec, live, lifecycle, faults>>

(***************************************************************************)
(* The environment.                                                        *)
(***************************************************************************)
Fault(f) ==
    LET after == [faults EXCEPT ![f] = @ + 1] IN
    /\ \E l \in Limits : \A g \in FaultKinds : after[g] <= l[g]
    /\ faults' = after

\* It dies; or its heartbeat fails although the lease is good, or a statement
\* outside a claim does, and it gives up.
Dies(w) ==
    /\ ~At(w, "idle")
    /\ Fault("deaths")
    /\ lifecycle' = IF lifecycle = w THEN None ELSE lifecycle
    /\ Leave(w)
    /\ UNCHANGED <<data, op, rec, live>>

LeaseLapses(k) ==
    LET alive == \E w \in Workers : Key(w) = k /\ worker[w].att = op[k].att IN
    /\ op[k].st = "running" /\ op[k].live
    /\ IF alive THEN Fault("pauses") ELSE UNCHANGED faults
    /\ op' = [op EXCEPT ![k].live = FALSE]
    /\ UNCHANGED <<data, rec, live, locks, worker>>

\* The database drops the session that holds the key lock; the worker's
\* transactions use other connections.
SessionLost(k) ==
    /\ keyLock[k] # None
    /\ Fault("lost")
    /\ keyLock' = [keyLock EXCEPT ![k] = None]
    /\ UNCHANGED <<data, op, rec, live, lifecycle, worker>>

HeadMoved(ind, coord) ==
    /\ Unlocked
    /\ head' = [n |-> head.n + 1, by |-> None, ind |-> ind, coord |-> coord]
    /\ heads' = heads \cup {head'}
    /\ UNCHANGED <<op, rec, live, locks, worker>>

\* A publication of another family on top of the Head.
OutsideMove == Fault("other") /\ HeadMoved(head.ind, head.coord)

\* A dataset Refresh, which runs when no industry operation does.
DatasetMove ==
    /\ \A k \in Keys : op[k].st # "running"
    /\ Fault("replaced")
    /\ \E c \in Contents : HeadMoved(c, None)

Work(w) ==
    \/ ReadPointer(w) \/ ReadPending(w) \/ MatchReceipt(w) \/ WritePublication(w)
    \/ ReconcileApply(w) \/ RecoverExpired(w) \/ Claim(w) \/ ReadTarget(w)
    \/ AcquireKey(w) \/ Existing(w) \/ Initialize(w) \/ BeginBuild(w) \/ Collect(w)
    \/ CollectFails(w) \/ Materialized(w) \/ ReadReceipt(w) \/ LookAtHead(w)
    \/ RecordHeadMoved(w) \/ Unchanged(w) \/ Try(w) \/ TargetChanged(w)
    \/ RecordCandidate(w) \/ Protect(w) \/ SwitchHead(w) \/ CommitSwitch(w)
    \/ HeadConflict(w) \/ ReleaseCandidate(w) \/ CompleteIndustry(w)
    \/ Fails(w) \/ ReconciliationFails(w) \/ AskPostCas(w) \/ RecordFailure(w)
    \/ GivesUp(w) \/ Fenced(w)

Next ==
    \/ \E k \in Keys : Submit(k) \/ Cancel(k) \/ LeaseLapses(k) \/ SessionLost(k)
    \/ \E w \in Workers : Work(w) \/ Dies(w)
    \/ OutsideMove \/ DatasetMove

Spec == Init /\ [][Next]_vars

\* The worker loop keeps calling process_next, and an expired lease is a
\* matter of time.
Fairness ==
    /\ \A w \in Workers : WF_vars(Work(w))
    /\ \A k \in Keys : WF_vars(LeaseLapses(k))

LiveSpec == Spec /\ Fairness

(***************************************************************************)
(* Properties.                                                             *)
(***************************************************************************)
Places == {"idle", "raised", "failing"} \cup Reconciliation \cup Working
Operations ==
    [st : {"none", "accepted", "running", "succeeded", "failed", "cancelled"},
     att : Nat, live : BOOLEAN, ord : Nat]
Receipts ==
    [st : {"none", "running", "succeeded", "failed"}, prior : Contents \cup {None},
     cand : Contents \cup {None}, comp : Generations \cup {None}, moved : BOOLEAN,
     pub : Generations \cup {None}]
Processes ==
    [pc : Places,
     key : Keys \cup {None}, att : Nat, i : Nat, cur : Generations \cup {None},
     comp : Generations \cup {None}, cand : Contents \cup {None},
     gen : Generations \cup {None}, retry : BOOLEAN]

TypeOK ==
    /\ head \in heads /\ heads \subseteq Generations
    /\ op \in [Keys -> Operations]
    /\ rec \in [Keys -> Receipts]
    /\ live \subseteq Keys \X Nat \X Nat
    /\ keyLock \in [Keys -> Workers \cup {None}]
    /\ lifecycle \in Workers \cup {None}
    /\ worker \in [Workers -> Processes]
    /\ faults \in [FaultKinds -> Nat]

\* Two operations are never executed at once, however the Workers overlap:
\* the claim looks for a running one under the lifecycle lock.
OneRunning ==
    \A j, k \in Keys : op[j].st = "running" /\ op[k].st = "running" => j = k

\* The Head is switched to an operation's Generation only for the attempt
\* that is running: one that was reported failed or cancelled, or given to a
\* later attempt, is never published afterwards by a worker that was paused.
PublishStep ==
    head' # head /\ head'.by # None =>
        LET k == head'.by[1] IN op[k].st = "running" /\ op[k].att = head'.by[2]

PublishedByItsAttempt == [][PublishStep]_vars

\* A switch extends exactly the Generation it replaces, and replaces the
\* industry data its candidate was built against: nothing published between
\* the collection and the switch is lost.  As long as no lock session is lost
\* under a worker, the receipt names what the Head is switched to, so that a
\* crash on the way can be reconciled.
SwitchStep ==
    head' # head =>
       /\ head'.n = head.n + 1
       /\ head'.by # None =>
             /\ rec[head'.by[1]].prior = head.ind
             /\ faults["lost"] = 0 => rec[head'.by[1]].comp = head'

SwitchExtendsHead == [][SwitchStep]_vars

\* When an operation is reported succeeded, by its worker or by a
\* reconciliation, the Head is the publication its receipt names.
SuccessStep ==
    \A k \in Keys : op[k].st # "succeeded" /\ op'[k].st = "succeeded" =>
       rec'[k].st = "succeeded" /\ head = rec'[k].pub

SuccessIsVisible == [][SuccessStep]_vars

\* The receipt of an operation reported succeeded names a publication that
\* really was the Head, and stays so; as long as no lock session is lost under
\* a worker, one that carries the content the receipt names.
ReceiptHonest ==
    \A k \in Keys : op[k].st = "succeeded" =>
        /\ rec[k].st = "succeeded"
        /\ rec[k].pub \in heads
        /\ faults["lost"] = 0 => rec[k].pub.ind = rec[k].cand

\* Protected candidates do not outlive the attempt that protected them,
\* unless it was paused beyond its lease: no later release names them.
NoLeakedCandidate ==
    faults["pauses"] = 0 /\ (\A w \in Workers : At(w, "idle")) =>
        \A c \in live : op[c[1]].st = "running" /\ op[c[1]].att = c[2]

\* One operation runs at a time, and receipts tell what it did.
OperationsSound == OneRunning /\ ReceiptHonest

\* A switch of the Head is the running attempt's, extends what it replaces, and is what a
\* success reports.
SwitchesExtend == [][PublishStep /\ SwitchStep /\ SuccessStep]_vars

\* Operation k waits for no Worker.
Settled(k) == op[k].st \notin {"accepted", "running"}
=============================================================================
