------------------------------ MODULE MCSettling ------------------------------
(* Work that must end, under the fairness the modules state, and what every  *)
(* calculation and refresh says on the way.                                  *)
(*   batch     one Independent Strategies batch, a Worker and the            *)
(*             housekeeping                                                  *)
(*   industry  one industry operation, one Worker that may die               *)
(*   run       one ResearchRun, two Workers                                  *)
(*   tracks    two tracks, a Worker that fails, pauses and crashes at work   *)
(*   retries   one track, whose advances are retried, and crashes anywhere   *)
(*   command   a financial publication command interrupted twice             *)
(*   data      a market refresh, its Worker and a collection                 *)
(*   objects   a publisher and the collector of one object                   *)
(*   bchild    a Batch child and the Worker that reads it                    *)
(*   schild    a supervised child and its supervisor                         *)
(* The components share the state variables; those a scenario does not use   *)
(* are 0.  A fairness condition may name actions of several scenarios: only  *)
(* one of them is ever enabled.                                              *)
EXTENDS Naturals, Sequences, FiniteSets, TLC

CONSTANTS None

VARIABLES scenario, s1, s2, s3, s4, s5, s6, s7, s8, s9, s10, s11, s12, s13, s14, s15, s16,
          s17, s18, s19, s20

TwoAlike == [i \in 1..2 |-> "a"]
OneDeath == {[other |-> 0, replaced |-> 0, pauses |-> 0, deaths |-> 1, lost |-> 0]}
OnePublish == [k \in {"k"} |-> "publish"]
FilesOfBoth == [g \in {"g0", "g1"} |->
    IF g = "g0" THEN {"r0", "s", "a"} ELSE {"r1", "s", "b"}]
RootOfBoth == [g \in {"g0", "g1"} |-> IF g = "g0" THEN "r0" ELSE "r1"]
OneName == [m \in {"m"} |-> [report |-> "o"]]
NoneExpire == [m \in {"m"} |-> {}]

B == INSTANCE ResearchBatch WITH Batches <- {"b"}, Workers <- {"w"}, NItems <- 1, Kinds <-
        {"independent_strategies"}, MaxTaskAttempts <- 2, HeadMoves <- FALSE,
        batch <- s1, order <- s2, children <- s3, scratch <- s4, data <- s5, worker <- s6
I == INSTANCE IndustryRefresh WITH Keys <- {"k"}, Workers <- {"w"}, Contents <- {"a"},
        HeadTries <- 2, MaxAttempts <- 2, Limits <- OneDeath,
        head <- s1, heads <- s2, op <- s3, rec <- s4, live <- s5, keyLock <- s6, lifecycle
        <- s7, worker <- s8, faults <- s9
R == INSTANCE ResearchRun WITH Runs <- {"r"}, Workers <- {"v", "w"}, NumChunks <- 1,
        MaxAttempts <- 2,
        status <- s1, fence <- s2, attempts <- s3, checkpoints <- s4, committed <- s5,
        retained <- s6, manifests <- s7, result <- s8, pc <- s9, claim <- s10
T == INSTANCE DailyTrack WITH Tracks <- {"t", "u"}, Workers <- {"w"}, Requests <- {},
        MaxSession <- 2, MaxFits <- 1, MaxCycleAttempts <- 1,
        head <- s1, status <- s2, fence <- s3, chain <- s4, prog <- s5, attempt <- s6,
        queue <- s7, pins <- s8, receipts <- s9, cache <- s10, worker <- s11
A == INSTANCE DailyTrack WITH Tracks <- {"t"}, Workers <- {"w"}, Requests <- {},
        MaxSession <- 2, MaxFits <- 1, MaxCycleAttempts <- 2,
        head <- s1, status <- s2, fence <- s3, chain <- s4, prog <- s5, attempt <- s6,
        queue <- s7, pins <- s8, receipts <- s9, cache <- s10, worker <- s11
F == INSTANCE FinancialRefresh WITH Keys <- {"k"}, Kind <- OnePublish, Procs <- {"p"},
        Shards <- {1, 2}, Tries <- 2, MaxMarket <- 0, MaxDaily <- 1, MaxCrashes <- 2,
        MaxLost <- 0, MaxRefused <- 1, MaxLapses <- 0, MaxGc <- 0,
        head <- s1, seen <- s2, op <- s3, col <- s4, prot <- s5, files <- s6, ledger <- s7,
        lock <- s8, proc <- s9, budget <- s10
D == INSTANCE DataLifecycle WITH Generations <- {"g0", "g1"}, FilesOf <- FilesOfBoth, Root
        <- RootOfBoth, Bootstrapped <- "g0", Operations <- {1}, MaxAttempts <- 2, Workers <-
        {"w"}, Owners <- {}, Collections <- {"c"},
        files <- s1, head <- s2, ops <- s3, candidates <- s4, owner <- s5, collections <-
        s6, worker <- s7, collector <- s8
P == INSTANCE Publication WITH Manifests <- {"m"}, Objects <- {"o"}, Publishers <- {"p"},
        Digest <- OneName, Expiring <- NoneExpire,
        stored <- s1, objects <- s2, manifests <- s3, links <- s4, expired <- s5, retention
        <- s6, deletions <- s7, refs <- s8, publisher <- s9, collector <- s10, page <- s11,
        reading <- s12
C == INSTANCE BatchChild WITH N <- 2, TotalSessions <- 3, Chunk <- 2, Kinds <-
        {"factor_evaluation", "strategy_sweep", "independent_strategies"}, GroupOf <-
        TwoAlike, CommonItems <- {2},
        kind <- s1, reuse <- s2, child <- s3, code <- s4, pc <- s5, pipe <- s6, cmds <- s7,
        sent <- s8, failed <- s9, final <- s10, cont <- s11, alpha <- s12, art <- s13, parts
        <- s14, worker <- s15, at <- s16, msg <- s17, verdict <- s18, evidence <- s19
S == INSTANCE SupervisedChild WITH Roles <- {"research", "tracking"}, K <- 2, Warmup <- 0,
        MaxFrames <- 1, Budget <- 1,
        role <- s1, resume <- s2, child <- s3, code <- s4, ord <- s5, sentFrames <- s6, left
        <- s7, watching <- s8, cancelled <- s9, cmds <- s10, stdin <- s11, open <- s12, out
        <- s13, sup <- s14, asm <- s15, got <- s16, outcome <- s17, asked <- s18, since <-
        s19, term <- s20

(* The state variables a scenario does not use. *)
After19 == <<s20>>
Zero19 == s20 = 0
After12 == <<s13, s14, s15, s16, s17, s18, s19, After19>>
Zero12 == s13 = 0 /\ s14 = 0 /\ s15 = 0 /\ s16 = 0 /\ s17 = 0 /\ s18 = 0 /\ s19 = 0 /\ Zero19
After11 == <<s12, After12>>
Zero11 == s12 = 0 /\ Zero12
After10 == <<s11, After11>>
Zero10 == s11 = 0 /\ Zero11
After9 == <<s10, After10>>
Zero9 == s10 = 0 /\ Zero10
After8 == <<s9, After9>>
Zero8 == s9 = 0 /\ Zero9
After6 == <<s7, s8, After8>>
Zero6 == s7 = 0 /\ s8 = 0 /\ Zero8

McInit ==
    \/ scenario = "batch" /\ B!Init /\ Zero6
    \/ scenario = "industry" /\ I!Init /\ Zero9
    \/ scenario = "run" /\ R!Init /\ Zero10
    \/ scenario = "tracks" /\ T!Init /\ Zero11
    \/ scenario = "retries" /\ A!Init /\ Zero11
    \/ scenario = "command" /\ F!Init /\ Zero10
    \/ scenario = "data" /\ D!Init /\ Zero8
    \/ scenario = "objects" /\ P!Init /\ Zero12
    \/ scenario = "bchild" /\ C!Init /\ Zero19
    \/ scenario = "schild" /\ S!Init

\* The Worker of two tracks crashes while it holds a claim only.
Polling == s11["w"].pc \in {"idle", "stops", "expired", "recheck", "read", "claim"}
CrashesAtWork == ~(Polling /\ T!Crash("w"))

McNext ==
    /\ UNCHANGED scenario
    /\ \/ scenario = "batch" /\ B!Next /\ UNCHANGED After6
       \/ scenario = "industry" /\ I!Next /\ UNCHANGED After9
       \/ scenario = "run" /\ R!Next /\ UNCHANGED After10
       \/ scenario = "tracks" /\ T!Next /\ CrashesAtWork /\ UNCHANGED After11
       \/ scenario = "retries" /\ A!Next /\ UNCHANGED After11
       \/ scenario = "command" /\ F!Next /\ UNCHANGED After10
       \/ scenario = "data" /\ D!Next /\ UNCHANGED After8
       \/ scenario = "objects" /\ P!Next /\ UNCHANGED After12
       \/ scenario = "bchild" /\ C!Next /\ UNCHANGED After19
       \/ scenario = "schild" /\ S!Next

state == <<s1, s2, s3, s4, s5, s6, After6>>
vars == <<scenario, state>>

-----------------------------------------------------------------------------
(* Fairness: what each module states, taken from its Fairness.               *)

InBatch(X) == scenario = "batch" /\ X /\ UNCHANGED After6
InIndustry(X) == scenario = "industry" /\ X /\ UNCHANGED After9
InRun(X) == scenario = "run" /\ X /\ UNCHANGED After10
InTracks(X) == scenario = "tracks" /\ X /\ UNCHANGED After11
InRetries(X) == scenario = "retries" /\ X /\ UNCHANGED After11
InCommand(X) == scenario = "command" /\ X /\ UNCHANGED After10
InData(X) == scenario = "data" /\ X /\ UNCHANGED After8
InObjects(X) == scenario = "objects" /\ X /\ UNCHANGED After12
InBatchChild(X) == scenario = "bchild" /\ X /\ UNCHANGED After19
InChild(X) == scenario = "schild" /\ X

\* Steps that may be disabled again and again, and are taken in the end.
Recurring ==
    /\ SF_state(\/ InRun(R!FinishExhaustedWorkerLoss("v")) \/ InCommand(F!Again("p", "k"))
                \/ InBatch(B!Poll("w")) \/ InData(D!OpenWork("w"))
                \/ InObjects(P!CollectQueued("o")) \/ InRetries(A!TakeWork("w")))
    /\ SF_state(\/ InRun(R!FinishExhaustedWorkerLoss("w")) \/ InData(D!ReadPending("w"))
                \/ InObjects(P!RemoveOrphan("o")) \/ InRetries(A!ReadExpired("w")))
    /\ SF_state(\/ InData(D!Claim("w")) \/ InObjects(P!EraseBytes)
                \/ InRetries(A!RecoverExpired("w")))
    /\ SF_state(\/ InData(D!ReconcilePendingCompletion("w")) \/ InObjects(P!FinishDeletion)
                \/ InRetries(A!ReadHead("w")))
    /\ SF_state(InData(D!RecoverExpiredClaims("w")) \/ InRetries(A!InspectPins("w")))

\* The poll loop of a Worker that only crashes at work is never disabled.
Polls == T!RecoverStops("w") \/ T!RecoverLosses("w") \/ T!ReadHead("w") \/ T!TakeWork("w")

\* Work that goes on, children that answer, leases and timers that run out.
Continuing ==
    /\ WF_state(\/ InRun(R!WorkerStep("v")) \/ InCommand(F!Works("p")) \/ InBatch(B!Start("w"))
                \/ InIndustry(I!Work("w")) \/ InChild(S!MainThread) \/ InBatchChild(C!ChildWorks)
                \/ InData(D!Refresh("w")) \/ InObjects(P!ScanPage)
                \/ InTracks(Polls) \/ InRetries(A!ReadPins("w")))
    /\ WF_state(\/ InRun(R!WorkerStep("w")) \/ InBatch(B!Work("w")) \/ InChild(S!WatchThreads)
                \/ InIndustry(I!LeaseLapses("k")) \/ InBatchChild(C!WatchEnds)
                \/ InData(D!Abandoned(1) /\ D!LeaseLapses(1))
                \/ InTracks(T!Advance("w")) \/ InRetries(A!Advance("w")))
    /\ WF_state(\/ InRun(R!LeaseTick("r")) \/ InBatch(B!End("w")) \/ InChild(S!Terminated)
                \/ InBatchChild(C!WorkerReads)
                \/ InData(D!SnapshotRetention \/ D!InspectMount \/ D!EnsurePlan \/ D!Execute)
                \/ InTracks(T!Finish("w")) \/ InRetries(A!Finish("w")))
    /\ WF_state(\/ InBatch(B!HeartbeatStopped("b")) \/ InChild(S!Supervisor)
                \/ InBatchChild(C!WorkerFindsChildGone)
                \/ InTracks(T!LeaseLapses("t")) \/ InRetries(A!LeaseLapses("t")))
    /\ WF_state(\/ InBatch(\E c \in s3 : B!ChildReady(c) \/ B!OrphanExits(c))
                \/ InBatchChild(C!Answers)
                \/ InTracks(T!LeaseLapses("u")) \/ InRetries(A!RetryFallsDue("t")))
    /\ WF_state(InBatch(\E a \in s4 : B!ReconcileFiles(a)) \/ InTracks(T!RetryFallsDue("t")))
    /\ WF_state(InTracks(T!RetryFallsDue("u")))

McSpec == McInit /\ [][McNext]_vars /\ Recurring /\ Continuing

-----------------------------------------------------------------------------
(* Properties.  "P leads to not P" is written []<> ~P.                       *)

\* What each scenario's work comes to again and again.
\*   run      The run is decided, and with it every accepted cancellation, although
\*            Workers die, leases lapse and attempts fail.
\*   batch    The batch reaches a verdict although Workers and children are lost, and the
\*            files of its attempts do not stay behind.
\*   industry The operation is settled although its completion may be left pending.
\*   tracks, retries   A queued track advances, blocks or is stopped; an accepted stop is
\*            confirmed.
\*   command  Given again after an interruption anywhere it ends published, unless it failed
\*            for good or another financial publication overtook it.
\*   data     The refresh settles, unless a collection is left running: none is claimed
\*            beside one.
\*   objects  Once publishers are quiet, bytes that nothing references are reclaimed, by the
\*            queue or by the orphan scan, or referenced again.
\*   bchild   Batch child and Worker both end, whichever fails, raises or dies first.
\*   schild   A request to cancel ends the execution, however long the calculation takes; a
\*            child does not outlive a supervisor that died, and a Tracking child not even
\*            one that stalls.
Settled(n) ==
    CASE scenario = "run"      -> R!Decided("r")
      [] scenario = "batch"    -> IF n = 1 THEN B!Decided("b") ELSE B!Reclaimed("b")
      [] scenario = "industry" -> I!Settled("k")
      [] scenario = "tracks"   -> IF n = 1 THEN T!Rests("t") ELSE T!StopConfirmed("t")
      [] scenario = "retries"  -> IF n = 1 THEN A!Rests("t") ELSE A!StopConfirmed("t")
      [] scenario = "command"  -> F!Recomposed("k")
      [] scenario = "data"     -> D!CollectionActive \/ D!Decided(1)
      [] scenario = "objects"  -> P!Staging \/ P!Reclaimed("o")
      [] scenario = "bchild"   -> C!BothEnded
      [] scenario = "schild"   -> IF n = 1 THEN S!CancelEnded ELSE S!OrphanEnded

\* Work of every kind ends, and so does what a dead attempt left behind.
WorkSettles == \A n \in {1, 2} : []<>Settled(n)

\* A refresh whose Generation became the Head is never retried or reported as failed, also
\* when the commit or the process was lost right after the rename; and the receipt of a
\* refresh names the Head that was current when it was written.
OutcomeTruthful ==
    [][scenario = "data" =>
          /\ D!Published(1) => s3'[1].status \in {"running", "succeeded"}
          /\ s3[1].status = "running" /\ s3'[1].status = "succeeded" =>
                s3'[1].generation = s2']_vars
==============================================================================
