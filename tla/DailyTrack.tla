----------------------------- MODULE DailyTrack -----------------------------
(* Progression of DailyTracks: the commands of the researcher, the work queue,  *)
(* Tracking Workers with their leases, owner locks and private Working Caches,  *)
(* and recovery of attempts whose Worker is gone.  A transaction is one action. *)
EXTENDS Integers, FiniteSets, Sequences, SequencesExt

CONSTANTS Tracks, Workers, Requests,  \* Requests: ids of Retry commands
          MaxSession,        \* sessions the dataset reaches
          MaxFits,           \* most sessions a planned advance holds
          MaxCycleAttempts   \* MAX_TRACKING_CYCLE_ATTEMPTS

ASSUME DailyTrackConstants ==
  /\ IsFiniteSet(Tracks) /\ Tracks # {}
  /\ MaxSession \in Nat \ {0} /\ MaxFits \in Nat \ {0}
  /\ MaxCycleAttempts \in Nat \ {0}

VARIABLES
  head,      \* what the Dataset Head covers: market sessions, all families
  status, fence,   \* daily_tracks.tracks
  chain,     \* session_checkpoints, oldest first; the last is the current one
  prog,      \* the latest row of session_progressions
  attempt,   \* the latest row of session_progression_attempts
  queue,     \* order of queue_position over tracks and progressions that may be claimed
  pins,      \* active Generation pins of attempts
  receipts,  \* retry_receipts of each track
  cache,     \* Working Cache of each Worker process
  worker

dbVars == <<status, fence, chain, prog, attempt, queue, pins, receipts>>
vars == <<head, dbVars, cache, worker>>

Sessions == 1..MaxSession
Alive == {"active", "blocked", "stopping"}
Unresolved == {"running", "stopping", "blocked"}

NoProgression == [status |-> "none", pred |-> 0, from |-> 0, end |-> 0,
                  cycle |-> 0, used |-> 0, wait |-> "no"]
NoAttempt == [status |-> "none", fence |-> 0, lease |-> "live"]
NoEntry == [head |-> 0, fence |-> 0]
NoData == [through |-> 1, covered |-> 1]
Idle == [pc |-> "idle", t |-> CHOOSE t \in Tracks : TRUE, fence |-> 0, pred |-> 0,
         ord |-> 0, covered |-> TRUE, data |-> NoData, todo |-> {}, lock |-> FALSE,
         base |-> 0, watched |-> FALSE, failure |-> "none"]

Progressions ==
  [status : {"none", "succeeded", "cancelled"} \cup Unresolved, pred : Nat,
   from : 0..MaxSession, end : 0..MaxSession, cycle : Nat,
   used : 0..MaxCycleAttempts, wait : {"no", "waiting", "due"}]
Attempts ==
  [status : {"none", "running", "stopping", "succeeded", "failed", "cancelled"},
   fence : Nat, lease : {"live", "expired"}]
Checkpoints == [session : Sessions, fence : Nat, base : Nat, covered : BOOLEAN]
Claims ==
  [pc : {"idle", "stops", "expired", "recheck", "read", "claim", "claimed", "executing",
         "calculating", "result", "prepared", "published", "stored", "settle", "confirm",
         "record", "release", "ended"},
   t : Tracks, fence : Nat, pred : Nat, ord : 0..MaxCycleAttempts,
   covered : BOOLEAN, data : [through : Sessions, covered : Sessions],
   todo : SUBSET (Tracks \X Nat), lock : BOOLEAN, base : Nat, watched : BOOLEAN,
   failure : {"none", "retryable", "permanent", "coverage", "fenced"}]

TypeOK ==
  /\ head \in [through : Sessions, covered : Sessions]
  /\ status \in [Tracks -> {"none", "stopped", "deleted"} \cup Alive]
  /\ fence \in [Tracks -> Nat]
  /\ chain \in [Tracks -> Seq(Checkpoints)]
  /\ prog \in [Tracks -> Progressions]
  /\ attempt \in [Tracks -> Attempts]
  /\ queue \in Seq(Tracks)
  /\ pins \subseteq Tracks \X Nat
  /\ receipts \in [Tracks -> SUBSET Requests]
  /\ cache \in [Workers -> [Tracks -> [head : Nat, fence : Nat]]]
  /\ worker \in [Workers -> Claims]

Init ==
  /\ head = [through |-> 1, covered |-> 1]
  /\ status = [t \in Tracks |-> "none"]
  /\ fence = [t \in Tracks |-> 0]
  /\ chain = [t \in Tracks |-> << >>]
  /\ prog = [t \in Tracks |-> NoProgression]
  /\ attempt = [t \in Tracks |-> NoAttempt]
  /\ queue = << >>
  /\ pins = {}
  /\ receipts = [t \in Tracks |-> {}]
  /\ cache = [w \in Workers |-> [t \in Tracks |-> NoEntry]]
  /\ worker = [w \in Workers |-> Idle]

---------------------------------------------------------------------------
(* The dataset and the commands of the researcher.  The quota may refuse a      *)
(* command, which then changes nothing; a Refresh or a Stop whose request id    *)
(* has a receipt replays its answer.                                            *)

\* A Refresh published more sessions; a family may lag behind the market data.
MoveHead ==
  \E s \in Sessions, c \in Sessions :
    /\ s >= head.through /\ c >= head.covered /\ c <= s
    /\ head # [through |-> s, covered |-> c]
    /\ head' = [through |-> s, covered |-> c]
    /\ UNCHANGED <<dbVars, cache, worker>>

Boundary(t) == Last(chain[t]).session

\* A track has at most one place in the queue.
Without(q, t) ==
  IF t \in Range(q) THEN RemoveAt(q, CHOOSE i \in DOMAIN q : q[i] = t) ELSE q

Activate(t) ==
  /\ status[t] = "none"
  /\ status' = [status EXCEPT ![t] = "active"]
  /\ chain' = [chain EXCEPT ![t] =
                 <<[session |-> 1, fence |-> 0, base |-> 0, covered |-> TRUE]>>]
  /\ UNCHANGED <<head, fence, prog, attempt, queue, pins, receipts, cache, worker>>

\* _refresh_with_outcome of a new request; a replayed one changes nothing.
Refresh(t) ==
  /\ status[t] = "active"
  /\ t \notin Range(queue)
  /\ prog[t].status \notin Unresolved
  /\ Boundary(t) < head.through
  /\ queue' = Append(queue, t)
  /\ UNCHANGED <<head, status, fence, chain, prog, attempt, pins, receipts,
                 cache, worker>>

\* _retry_target_fits: what the current plan holds is at least the frozen target.
TargetFits(p, fits) == fits >= p.end - p.from + 1

\* A request id without a receipt; one with a receipt only replays its outcome.
NewRequest(q) == \A t \in Tracks : q \notin receipts[t]

Retry(t, q) ==
  /\ NewRequest(q)
  /\ status[t] = "blocked" /\ prog[t].status = "blocked"
  /\ receipts' = [receipts EXCEPT ![t] = @ \cup {q}]
  /\ \E fits \in 0..MaxFits :
       IF TargetFits(prog[t], fits)
       THEN /\ prog' = [prog EXCEPT ![t].status = "running", ![t].cycle = @ + 1,
                                    ![t].used = 0, ![t].wait = "due"]
            /\ status' = [status EXCEPT ![t] = "active"]
            /\ queue' = Append(queue, t)
       ELSE UNCHANGED <<prog, status, queue>>
  /\ UNCHANGED <<head, fence, chain, attempt, pins, cache, worker>>

StopIdle(t) ==
  /\ status[t] \in {"active", "blocked"}
  /\ attempt[t].status # "running"
  /\ prog' = IF prog[t].status \in {"running", "blocked"}
             THEN [prog EXCEPT ![t].status = "cancelled", ![t].wait = "no"]
             ELSE prog
  /\ status' = [status EXCEPT ![t] = "stopped"]
  /\ fence' = [fence EXCEPT ![t] = @ + 1]
  /\ queue' = Without(queue, t)
  /\ UNCHANGED <<head, chain, attempt, pins, receipts, cache, worker>>

StopRunning(t) ==
  /\ status[t] = "active"
  /\ attempt[t].status = "running"
  /\ attempt' = [attempt EXCEPT ![t].status = "stopping"]
  /\ prog' = [prog EXCEPT ![t].status = "stopping", ![t].wait = "no"]
  /\ status' = [status EXCEPT ![t] = "stopping"]
  /\ fence' = [fence EXCEPT ![t] = @ + 1]
  /\ queue' = Without(queue, t)
  /\ UNCHANGED <<head, chain, pins, receipts, cache, worker>>

\* The rows of the track go with it, its receipts too; releasing its manifests is
\* Publication's part.
Delete(t) ==
  /\ status[t] = "stopped"
  /\ status' = [status EXCEPT ![t] = "deleted"]
  /\ chain' = [chain EXCEPT ![t] = << >>]
  /\ prog' = [prog EXCEPT ![t] = NoProgression]
  /\ attempt' = [attempt EXCEPT ![t] = NoAttempt]
  /\ receipts' = [receipts EXCEPT ![t] = {}]
  /\ UNCHANGED <<head, fence, queue, pins, cache, worker>>

---------------------------------------------------------------------------
(* What the transactions of a Worker ask of the rows                         *)

\* The rows a claim names: its attempt is the latest one of the track, or it is over.
Named(c) == attempt[c.t].fence = c.fence /\ chain[c.t] # << >>

AuthorizedByFence(c) ==
  Named(c) /\ status[c.t] = "active" /\ fence[c.t] = c.fence

\* Fence of _record_current_progress, the heartbeat and _record_current_failure.
Authorized(c) ==
  /\ Named(c)
  /\ status[c.t] = "active" /\ fence[c.t] = c.fence
  /\ prog[c.t].status = "running" /\ attempt[c.t].status = "running"

StopPending(c) ==
  /\ Named(c)
  /\ status[c.t] = "stopping" /\ prog[c.t].status = "stopping"
  /\ attempt[c.t].status = "stopping"

\* try_session_advisory_lock of an attempt's owner lock succeeds.
OwnerIsDead(t, f) ==
  ~\E v \in Workers : worker[v].lock /\ worker[v].t = t /\ worker[v].fence = f

Unpin(t, f) == pins' = pins \ {<<t, f>>}

\* The rows of _confirm_stopped and _recover_stopping_attempt.
MarkStopped(t) ==
  /\ attempt' = [attempt EXCEPT ![t].status = "cancelled", ![t].lease = "expired"]
  /\ prog' = [prog EXCEPT ![t].status = "cancelled"]
  /\ status' = [status EXCEPT ![t] = "stopped"]
  /\ Unpin(t, attempt[t].fence)
  /\ UNCHANGED <<fence, chain, queue, receipts>>

\* tracking_attempt_retry_eligible
RetryEligible(why, ord) == why = "retryable" /\ ord < MaxCycleAttempts

MarkFailedKeepsPin(t, why, ord) ==
  /\ attempt' = [attempt EXCEPT ![t].status = "failed", ![t].lease = "expired"]
  /\ prog' = [prog EXCEPT ![t].wait = "waiting"]
  /\ UNCHANGED <<status, pins, fence, chain, queue, receipts>>

\* A failed attempt waits for its retry or blocks the track; its pin is released.
MarkFailed(t, why, ord) ==
  /\ attempt' = [attempt EXCEPT ![t].status = "failed", ![t].lease = "expired"]
  /\ IF RetryEligible(why, ord)
     THEN /\ prog' = [prog EXCEPT ![t].wait = "waiting"]
          /\ UNCHANGED status
     ELSE /\ prog' = [prog EXCEPT ![t].status = "blocked", ![t].wait = "no"]
          /\ status' = [status EXCEPT ![t] = "blocked"]
  /\ Unpin(t, attempt[t].fence)
  /\ UNCHANGED <<fence, chain, queue, receipts>>

At(w, pc) == worker[w].pc = pc
Goto(w, pc) == worker' = [worker EXCEPT ![w].pc = pc]
\* How the claim ends is decided; what went wrong matters no more.
Settles(w, pc) == worker' = [worker EXCEPT ![w].pc = pc, ![w].failure = "none"]
Fails(w, why) == worker' = [worker EXCEPT ![w].pc = "settle", ![w].failure = why]

---------------------------------------------------------------------------
(* Tracking Worker: one poll of process_next.  Where a transaction of its own   *)
(* raises an error that process_next does not handle, the process ends: Crash.  *)

\* The recovery of stops looks at the pins of attempts that are active now.
ReadPins(w) ==
  /\ At(w, "idle")
  /\ worker' = [worker EXCEPT ![w].pc = IF pins = {} THEN "expired" ELSE "stops",
                              ![w].todo = pins]
  /\ UNCHANGED <<head, dbVars, cache>>

RecoverableStopFenced(t, f) ==
  /\ status[t] = "stopping" /\ attempt[t].fence = f /\ attempt[t].lease = "expired"
  /\ fence[t] = f /\ OwnerIsDead(t, f)

\* The stop of a dead owner; the rows are read again under the owner lock.
RecoverableStop(t, f) ==
  /\ attempt[t].fence = f /\ attempt[t].lease = "expired"
  /\ status[t] = "stopping" /\ attempt[t].status = "stopping"
  /\ prog[t].status = "stopping"
  /\ OwnerIsDead(t, f)

RecoverStoppingAttempt(w, t, f) ==
  /\ At(w, "stops") /\ <<t, f>> \in worker[w].todo
  /\ RecoverableStop(t, f)
  /\ MarkStopped(t)
  /\ cache' = [cache EXCEPT ![w][t] = NoEntry]
  /\ worker' = [worker EXCEPT ![w].pc = "ended", ![w].todo = {}]
  /\ UNCHANGED head

SkipPin(w, t, f) ==
  LET rest == worker[w].todo \ {<<t, f>>} IN
  /\ At(w, "stops") /\ <<t, f>> \in worker[w].todo
  /\ ~RecoverableStop(t, f)
  /\ worker' = [worker EXCEPT ![w].pc = IF rest = {} THEN "expired" ELSE "stops",
                              ![w].todo = rest]
  /\ UNCHANGED <<head, dbVars, cache>>

Expired(t) ==
  /\ status[t] = "active" /\ fence[t] = attempt[t].fence
  /\ prog[t].status = "running" /\ attempt[t].status = "running"
  /\ attempt[t].lease = "expired"

\* One expired attempt is looked at, whether its owner is dead or not.
ReadExpired(w) ==
  /\ At(w, "expired")
  /\ IF \E t \in Tracks : Expired(t)
     THEN \E t \in Tracks :
            /\ Expired(t)
            /\ worker' = [worker EXCEPT ![w].pc = "recheck", ![w].t = t,
                                        ![w].fence = attempt[t].fence]
     ELSE Goto(w, "read")
  /\ UNCHANGED <<head, dbVars, cache>>

\* Under the owner lock the rows are read again: the attempt may be over, or renewed.
RecoverExpired(w) ==
  LET c == worker[w] IN
  /\ At(w, "recheck")
  /\ IF OwnerIsDead(c.t, c.fence) /\ Expired(c.t) /\ attempt[c.t].fence = c.fence
     THEN MarkFailed(c.t, "retryable", prog[c.t].used) /\ Goto(w, "ended")
     ELSE /\ worker' = [worker EXCEPT ![w] = [Idle EXCEPT !.pc = "read"]]
          /\ UNCHANGED dbVars
  /\ UNCHANGED <<head, cache>>

\* current_pointer() is read before the claim transaction begins.
ReadHead(w) ==
  /\ At(w, "read")
  /\ worker' = [worker EXCEPT ![w].pc = "claim", ![w].data = head]
  /\ UNCHANGED <<head, dbVars, cache>>

\* Progressions whose retry is due and that have no place in the queue yet.
Promotable == {t \in Tracks : /\ prog[t].status = "running" /\ prog[t].wait = "due"
                              /\ t \notin Range(queue)
                              /\ attempt[t].status # "running"}

\* _TRACKING_ELIGIBILITY_SELECT for a track in the queue
Claimable(t, data) ==
  /\ status[t] = "active"
  /\ Boundary(t) < data.through
  /\ prog[t].status # "blocked"
  /\ attempt[t].status # "running"

\* The queue after the promotion that starts every claim transaction.
Promoted == {queue \o s : s \in SetToSeqs(Promotable)}

FirstClaimable(q, i, data) ==
  /\ Claimable(q[i], data)
  /\ \A j \in 1..(i - 1) : ~Claimable(q[j], data)

Smallest(a, b) == IF a < b THEN a ELSE b

\* A new target: the covered sessions after the checkpoint, as far as they fit, but
\* at least one; an unfinished progression keeps the target it froze.
TargetEnd(t, data, fits) ==
  LET next == Boundary(t) + 1
      covered == IF data.covered >= next
                 THEN Smallest(data.covered, data.through) ELSE next
  IN Smallest(covered, IF fits = 0 THEN next ELSE Boundary(t) + fits)

NewProgression(t, data, fits) ==
  [NoProgression EXCEPT !.status = "running", !.pred = Len(chain[t]),
                        !.from = Boundary(t) + 1, !.end = TargetEnd(t, data, fits),
                        !.cycle = IF fits = 0 THEN 0 ELSE 1,
                        !.wait = IF fits = 0 THEN "no" ELSE "due"]

Planned(t, data, fits) ==
  IF prog[t].status = "running" THEN prog[t] ELSE NewProgression(t, data, fits)

\* The target does not fit in an attempt: the track waits for its researcher.
BlockTarget(w, t, p) ==
  /\ prog' = [prog EXCEPT ![t] = [p EXCEPT !.status = "blocked"]]
  /\ status' = [status EXCEPT ![t] = "blocked"]
  /\ Goto(w, "ended")
  /\ UNCHANGED <<fence, attempt, pins>>

StartAttempt(w, t, p, f) ==
  /\ worker[w].data.through >= p.end
  /\ prog' = [prog EXCEPT ![t] = [p EXCEPT !.used = @ + 1]]
  /\ attempt' = [attempt EXCEPT ![t] = [status |-> "running", fence |-> f, lease |-> "live"]]
  /\ fence' = [fence EXCEPT ![t] = f]
  /\ pins' = pins \cup {<<t, f>>}
  /\ worker' = [worker EXCEPT ![w] =
       [@ EXCEPT !.pc = "claimed", !.t = t, !.fence = f, !.pred = Len(chain[t]),
                 !.ord = p.used + 1, !.covered = p.end <= worker[w].data.covered,
                 !.data = NoData]]
  /\ UNCHANGED status

\* An unfinished progression continues the current checkpoint and has had a cycle.
ProgressionIntact(t) ==
  prog[t].status = "running" => prog[t].pred = Len(chain[t]) /\ prog[t].cycle # 0

ClaimTarget(w, t, p, fits) ==
  IF TargetFits(p, fits) THEN StartAttempt(w, t, p, fence[t] + 1) ELSE BlockTarget(w, t, p)

\* The claim transaction: block a target that does not fit, or start an attempt.
Claim(w) ==
  /\ At(w, "claim")
  /\ \E q \in Promoted, fits \in 0..MaxFits : \E i \in DOMAIN q :
       /\ FirstClaimable(q, i, worker[w].data)
       /\ ProgressionIntact(q[i])
       /\ queue' = Without(q, q[i])
       /\ ClaimTarget(w, q[i], Planned(q[i], worker[w].data, fits), fits)
  /\ UNCHANGED <<head, chain, receipts, cache>>

ClaimNothing(w) ==
  /\ At(w, "claim")
  /\ \E q \in Promoted :
       /\ ~\E i \in DOMAIN q : Claimable(q[i], worker[w].data)
       /\ queue' = q
  /\ Goto(w, "ended")
  /\ UNCHANGED <<head, status, fence, chain, prog, attempt, pins, receipts, cache>>

\* A progression that is not intact, or "Attempt Generation does not reach target":
\* the Head the Worker read is older than the one the target was planned with.  The
\* error ends the Worker process.
ClaimRaises(w) ==
  /\ At(w, "claim")
  /\ \E q \in Promoted : \E i \in DOMAIN q :
       /\ FirstClaimable(q, i, worker[w].data)
       /\ ProgressionIntact(q[i]) =>
            prog[q[i]].status = "running" /\ prog[q[i]].end > worker[w].data.through
  /\ cache' = [cache EXCEPT ![w] = [t \in Tracks |-> NoEntry]]
  /\ worker' = [worker EXCEPT ![w] = Idle]
  /\ UNCHANGED <<head, dbVars>>

AcquireOwnerLock(w) ==
  /\ At(w, "claimed")
  /\ worker' = [worker EXCEPT ![w].pc = "executing", ![w].lock = TRUE]
  /\ UNCHANGED <<head, dbVars, cache>>

ServedUnchecked(e, c) == e.head # 0

\* _DailyTrackWorkingCache.load: the entry of the current checkpoint, written by the
\* attempt just before this one; anything else is discarded.
Served(e, c) == e.head = c.pred /\ e.fence = c.fence - 1

\* A required family does not cover the target: FamilyCoverageUnavailable.
CoverageMissing(w) ==
  /\ At(w, "executing") /\ ~worker[w].covered
  /\ Fails(w, "coverage")
  /\ UNCHANGED <<head, dbVars, cache>>

LoadCacheUncovered(w) ==
  /\ At(w, "executing")
  /\ Goto(w, "calculating")
  /\ UNCHANGED <<head, dbVars, cache>>

LoadCache(w) ==
  LET c == worker[w] IN
  /\ At(w, "executing") /\ c.covered
  /\ IF Served(cache[w][c.t], c)
     THEN /\ worker' = [worker EXCEPT ![w].pc = "calculating",
                                      ![w].base = cache[w][c.t].head]
          /\ UNCHANGED cache
     ELSE /\ worker' = [worker EXCEPT ![w].pc = "calculating", ![w].base = 0]
          /\ cache' = [cache EXCEPT ![w][c.t] = NoEntry]
  /\ UNCHANGED <<head, dbVars>>

\* The child has its result, and the thread that watches for a stop begins.
Calculate(w) ==
  /\ At(w, "calculating")
  /\ worker' = [worker EXCEPT ![w].pc = "result", ![w].watched = TRUE]
  /\ UNCHANGED <<head, dbVars, cache>>

\* An unreadable predecessor, a failing child, a lost connection or a lost authority.
ExecutionFails(w, why) ==
  /\ worker[w].pc \in {"executing", "calculating", "result", "prepared"}
  /\ worker[w].covered
  /\ Fails(w, why)
  /\ UNCHANGED <<head, dbVars, cache>>

\* _record_current_progress at an event of the child, or when its result is staged
RecordProgress(w) ==
  \/ /\ At(w, "calculating") /\ ~Authorized(worker[w])
     /\ Fails(w, "fenced")
     /\ UNCHANGED <<head, dbVars, cache>>
  \/ /\ At(w, "result")
     /\ IF Authorized(worker[w]) THEN Goto(w, "prepared") ELSE Fails(w, "fenced")
     /\ UNCHANGED <<head, dbVars, cache>>

\* TrackingExecutionCancelled, from the child's read loop or the acknowledgement.
ExecutionCancelled(w) ==
  /\ worker[w].pc \in {"calculating", "prepared"}
  /\ StopPending(worker[w])
  /\ Goto(w, "confirm")
  /\ UNCHANGED <<head, dbVars, cache>>

\* _monitor_current_stop, a thread that may outlast the work on the claim
MonitorConfirmsStop(w) ==
  /\ worker[w].watched
  /\ StopPending(worker[w])
  /\ MarkStopped(worker[w].t)
  /\ cache' = [cache EXCEPT ![w][worker[w].t] = NoEntry]
  /\ UNCHANGED <<head, worker>>

MayPublishByPredecessor(c) == Named(c) /\ Len(chain[c.t]) = c.pred

\* The track row of _publish_current: active, at the fence and predecessor of the claim.
TrackMatches(c) ==
  /\ chain[c.t] # << >>
  /\ status[c.t] = "active" /\ fence[c.t] = c.fence /\ Len(chain[c.t]) = c.pred

\* The fence of _publish_current and publish_checkpoint
MayPublish(c) == Authorized(c) /\ Len(chain[c.t]) = c.pred /\ prog[c.t].pred = c.pred

PublishCheckpoint(w) ==
  LET c == worker[w] IN
  /\ At(w, "prepared") /\ MayPublish(c)
  /\ chain' = [chain EXCEPT ![c.t] = Append(@,
         [session |-> prog[c.t].end, fence |-> c.fence, base |-> c.base,
          covered |-> c.covered])]
  /\ attempt' = [attempt EXCEPT ![c.t].status = "succeeded"]
  /\ prog' = [prog EXCEPT ![c.t].status = "succeeded", ![c.t].wait = "no"]
  /\ Unpin(c.t, c.fence)
  /\ \/ Goto(w, "published")
     \/ Fails(w, "retryable")      \* the answer to the commit is lost
  /\ UNCHANGED <<head, status, fence, queue, receipts, cache>>

\* The track moved on, or its attempt was declared over while the track stands still.
PublicationRefused(w) ==
  /\ At(w, "prepared") /\ ~MayPublish(worker[w])
  /\ Fails(w, IF TrackMatches(worker[w]) THEN "permanent" ELSE "fenced")
  /\ UNCHANGED <<head, dbVars, cache>>

Publish(w) == PublishCheckpoint(w) \/ PublicationRefused(w)

\* An entry that cannot be written leaves the old one, or none if it is too large.
StoreCache(w) ==
  LET c == worker[w] IN
  /\ At(w, "published")
  /\ \/ /\ cache' = [cache EXCEPT ![w][c.t] = [head |-> c.pred + 1, fence |-> c.fence]]
        /\ Goto(w, "stored")
     \/ /\ \E e \in {cache[w][c.t], NoEntry} : cache' = [cache EXCEPT ![w][c.t] = e]
        /\ Goto(w, "settle")
  /\ UNCHANGED <<head, dbVars>>

\* The entry is kept if the track still stands at what was published; the question
\* itself may fail.
CheckCacheBasis(w) ==
  LET c == worker[w]
      basis == status[c.t] = "active" /\ fence[c.t] = c.fence /\ Len(chain[c.t]) = c.pred + 1
  IN
  /\ At(w, "stored")
  /\ \/ /\ cache' = IF basis THEN cache ELSE [cache EXCEPT ![w][c.t] = NoEntry]
        /\ Goto(w, "settle")
     \/ UNCHANGED cache /\ Fails(w, "retryable")
  /\ UNCHANGED <<head, dbVars>>

\* Whether a stop is pending decides how the claim ends; an answer that is lost counts
\* as a failure of the attempt.
ObserveStop(w) ==
  LET c == worker[w] IN
  /\ At(w, "settle")
  /\ \/ StopPending(c) /\ Settles(w, "confirm")
     \/ ~StopPending(c) /\ Goto(w, "record")
     \/ worker' = [worker EXCEPT ![w].pc = "record",
                                 ![w].failure = IF @ = "none" THEN "retryable" ELSE @]
  /\ UNCHANGED <<head, dbVars, cache>>

\* The monitor or a recovery may have confirmed the stop first.
ConfirmStopped(w) ==
  LET c == worker[w] IN
  /\ At(w, "confirm")
  /\ IF StopPending(c)
     THEN MarkStopped(c.t) /\ cache' = [cache EXCEPT ![w][c.t] = NoEntry]
     ELSE UNCHANGED <<dbVars, cache>>
  /\ Goto(w, "ended")
  /\ UNCHANGED head

Recordable == {"retryable", "permanent", "coverage"}

\* A recorded failure is raised and ends the poll, unless coverage was missing.
RecordFailure(w) ==
  LET c == worker[w] IN
  /\ At(w, "record")
  /\ IF c.failure \in Recordable /\ Authorized(c)
     THEN /\ MarkFailed(c.t, c.failure, c.ord)
          /\ Settles(w, IF c.failure = "coverage" THEN "release" ELSE "ended")
     ELSE UNCHANGED dbVars /\ Settles(w, "release")
  /\ UNCHANGED <<head, cache>>

ReleaseCancelledPin(w) ==
  LET c == worker[w] IN
  /\ At(w, "release")
  /\ pins' = IF Named(c) /\ attempt[c.t].status = "cancelled"
             THEN pins \ {<<c.t, c.fence>>} ELSE pins
  /\ Goto(w, "ended")
  /\ UNCHANGED <<head, status, fence, chain, prog, attempt, queue, receipts, cache>>

\* The owner lock is released (LoseOwnerLock covers the moment in between), and the
\* poll ends with reconcile_working_cache.
EndPoll(w) ==
  /\ At(w, "ended")
  /\ cache' = [cache EXCEPT ![w] =
       [t \in Tracks |-> IF status[t] \in Alive THEN @[t] ELSE NoEntry]]
  /\ worker' = [worker EXCEPT ![w] = Idle]
  /\ UNCHANGED <<head, dbVars>>

---------------------------------------------------------------------------
(* Time and failure                                                          *)

Heartbeat(w) ==
  /\ worker[w].pc \in {"executing", "calculating", "result", "prepared", "published",
                       "stored", "settle"}
  /\ Authorized(worker[w])
  /\ attempt[worker[w].t].lease = "expired"
  /\ attempt' = [attempt EXCEPT ![worker[w].t].lease = "live"]
  /\ UNCHANGED <<head, status, fence, chain, prog, queue, pins, receipts, cache, worker>>

LeaseLapses(t) ==
  /\ attempt[t].status \in {"running", "stopping"}
  /\ attempt[t].lease = "live"
  /\ attempt' = [attempt EXCEPT ![t].lease = "expired"]
  /\ UNCHANGED <<head, status, fence, chain, prog, queue, pins, receipts, cache, worker>>

RetryFallsDue(t) ==
  /\ prog[t].status = "running" /\ prog[t].wait = "waiting"
  /\ prog' = [prog EXCEPT ![t].wait = "due"]
  /\ UNCHANGED <<head, status, fence, chain, attempt, queue, pins, receipts, cache, worker>>

\* The connection that holds the owner lock is gone; the Worker goes on.
LoseOwnerLock(w) ==
  /\ worker[w].lock
  /\ worker' = [worker EXCEPT ![w].lock = FALSE]
  /\ UNCHANGED <<head, dbVars, cache>>

\* The process ends; its Working Cache lies in a temporary directory of its own.
Crash(w) ==
  /\ worker[w].pc # "idle"
  /\ cache' = [cache EXCEPT ![w] = [t \in Tracks |-> NoEntry]]
  /\ worker' = [worker EXCEPT ![w] = Idle]
  /\ UNCHANGED <<head, dbVars>>

InspectPins(w) ==
  \E p \in worker[w].todo : RecoverStoppingAttempt(w, p[1], p[2]) \/ SkipPin(w, p[1], p[2])
RecoverStops(w) == ReadPins(w) \/ InspectPins(w)
RecoverLosses(w) == ReadExpired(w) \/ RecoverExpired(w)
TakeWork(w) == Claim(w) \/ ClaimNothing(w) \/ ClaimRaises(w)
Advance(w) ==
  \/ AcquireOwnerLock(w) \/ CoverageMissing(w) \/ LoadCache(w) \/ Calculate(w)
  \/ RecordProgress(w) \/ Publish(w) \/ StoreCache(w) \/ CheckCacheBasis(w)
  \/ \E why \in {"retryable", "permanent"} : ExecutionFails(w, why)
  \/ ExecutionCancelled(w)
Finish(w) ==
  \/ ObserveStop(w) \/ ConfirmStopped(w) \/ RecordFailure(w) \/ ReleaseCancelledPin(w)
  \/ EndPoll(w)
Command == \E t \in Tracks :
  \/ Activate(t) \/ Refresh(t) \/ StopIdle(t) \/ StopRunning(t) \/ Delete(t)
  \/ \E q \in Requests : Retry(t, q)
Disturb(w) == Heartbeat(w) \/ LoseOwnerLock(w) \/ Crash(w)
Time(t) == LeaseLapses(t) \/ RetryFallsDue(t)

Next ==
  \/ MoveHead \/ Command
  \/ \E w \in Workers : \/ RecoverStops(w) \/ RecoverLosses(w) \/ ReadHead(w)
                        \/ TakeWork(w) \/ Advance(w) \/ Finish(w)
                        \/ MonitorConfirmsStop(w) \/ Disturb(w)
  \/ \E t \in Tracks : Time(t)

Spec == Init /\ [][Next]_vars

\* The poll loop comes round however often a Worker is restarted, and no step of it is
\* the last one for ever; work on a claim goes on while the process lives; time passes.
Fairness ==
  /\ \A w \in Workers :
       /\ WF_vars(ReadPins(w))
       /\ \A n \in 1..Cardinality(Tracks) :
            SF_vars(Cardinality(worker[w].todo) = n /\ InspectPins(w))
       /\ SF_vars(ReadExpired(w)) /\ SF_vars(RecoverExpired(w))
       /\ SF_vars(ReadHead(w)) /\ SF_vars(TakeWork(w))
       /\ WF_vars(Advance(w)) /\ WF_vars(Finish(w))
  /\ \A t \in Tracks : WF_vars(LeaseLapses(t)) /\ WF_vars(RetryFallsDue(t))

FairSpec == Spec /\ Fairness

---------------------------------------------------------------------------
(* Properties                                                                *)

\* A Generation is pinned exactly while an attempt may read it: from the claim to
\* the transaction that publishes, fails or stops the attempt, on every path.
PinsAgree ==
  pins = {<<t, attempt[t].fence>> :
            t \in {u \in Tracks : attempt[u].status \in {"running", "stopping"}}}

\* Track, progression and latest attempt tell one story, although each is updated by
\* commands, the Worker, its monitor thread and two recoveries.
RowsOf(t) ==
  /\ (status[t] = "stopping") <=> (prog[t].status = "stopping")
  /\ (status[t] = "stopping") <=> (attempt[t].status = "stopping")
  /\ (status[t] = "blocked") <=> (prog[t].status = "blocked")
  /\ attempt[t].status = "running" =>
       status[t] = "active" /\ prog[t].status = "running" /\ fence[t] = attempt[t].fence
  /\ t \in Range(queue) => status[t] = "active" /\ attempt[t].status # "running"
  /\ (prog[t].status = "running" /\ attempt[t].status # "running") =>
       prog[t].wait \in {"waiting", "due"}
RowsAgree == \A t \in Tracks : RowsOf(t)

\* The checkpoints form one chain: sessions only go forward, each link is published
\* by a later attempt than the one before it, whatever superseded Workers still do.
ChainAdvances ==
  \A t \in Tracks : \A i, j \in DOMAIN chain[t] :
    i < j => /\ chain[t][i].session < chain[t][j].session
             /\ chain[t][i].fence < chain[t][j].fence

\* No checkpoint reaches a session that a required family did not cover in the
\* Generation it was calculated from.
OnlyCovered == \A t \in Tracks : \A i \in DOMAIN chain[t] : chain[t][i].covered

\* A continuation from a Working Cache belongs to the checkpoint it continues, also
\* when another Worker advanced the track in between.
ContinuationMatches ==
  \A t \in Tracks : \A i \in DOMAIN chain[t] : chain[t][i].base \in {0, i - 1}

\* Automatic retries are started by requests only: a repeated or late Retry command
\* gives a target no further cycle of attempts.
CyclesRequested ==
  \A t \in Tracks : prog[t].cycle <= 1 + Cardinality(receipts[t])

\* The checkpoint chain only goes forward in sessions and fences, over covered sessions, each
\* continued from the checkpoint before it whichever Worker's cache is used, and a repeated
\* or late Retry starts no further cycle.
HistorySound == ChainAdvances /\ OnlyCovered /\ ContinuationMatches /\ CyclesRequested

Contract == INSTANCE TrackContract WITH
  phase <- status, published <- [t \in Tracks |-> IF chain[t] = << >> THEN 0
                                                  ELSE Boundary(t)]

\* What a researcher sees of a track is a behaviour of TrackContract.
ImplementsContract == Contract!Spec

\* A queued track advances, blocks or is stopped, although its Worker crashes, pauses and
\* fails in between; a stop that was accepted is confirmed, by the Worker or by the recovery.
\* Each holds again and again.
Rests(t) == t \notin Range(queue) /\ prog[t].status # "running"
StopConfirmed(t) == status[t] # "stopping"

=============================================================================
