----------------------------- MODULE MCStoredData -----------------------------
(* What is stored, read again and calculated from it: Generations            *)
(* (GenerationStore), the financial family of a Generation                   *)
(* (FinancialCandidate), the benchmark file (BenchmarkSnapshot), a           *)
(* strategy's account (StrategyAccount) and the processes that calculate     *)
(* (BatchChild, SupervisedChild).                                            *)
(*   build     whole, streamed, refreshed and daily-basic builds             *)
(*   compose   financial, indicator and industry candidates on roots         *)
(*   overwrite indicator candidates that hold more or fewer observations     *)
(*   collect   collections that keep any subset of roots and candidates      *)
(*   faults    crashes between stored files, one damaged or lost file        *)
(*   restated  a report restated and restored                                *)
(*   conflict  two payloads of one date, an undated row, two calendars       *)
(*   retry     operations that end after collecting, unpublished             *)
(*   file      two updaters, failing file system calls, machine crashes      *)
(*   orders    orders against rising, falling, split and limited prices      *)
(*   resume    runs cut into chunks, resumed, with quotes that are missing   *)
(*   metrics   falls and recoveries of the account's value                   *)
(*   dialogue  the child process of a batch and the Worker that reads it     *)
(*   solo      the supervised child of a single run or of a track            *)
(* The state variables s1 to s20 are shared; those a scenario does not use   *)
(* are 0.                                                                    *)
EXTENDS Integers, FiniteSets, Sequences, SequencesExt, TLC

CONSTANTS NoData

VARIABLES scenario, s1, s2, s3, s4, s5, s6, s7, s8, s9, s10, s11, s12, s13, s14, s15, s16,
          s17, s18, s19, s20

(* Inputs of Generation builds: three sessions in blocks of two, the last    *)
(* block half full; refresh windows that add or drop an identity, add daily  *)
(* basic data, start inside a block.                                         *)
Input(cal, ids, pool, basic) ==
    [cal |-> cal, ids |-> ids, pool |-> pool, basic |-> basic, industry |-> NoData,
     catalog |-> IF basic = NoData THEN {1} ELSE {1, 2}]
WithBasic == Input(1..3, {1, 2}, <<{2}, {1, 2}, {2}>>, <<{1}, {}, {2}>>)
BuildBootstraps == {WithBasic, Input(1..3, {1, 2}, <<{1, 2}, {1}, {2}>>, NoData)}
PlainWindow == Input(2..4, {1, 2}, [s \in 2..4 |-> {1}], NoData)
BuildWindows ==
    {PlainWindow, Input(3..4, {2}, [s \in 3..4 |-> {2}], NoData),
     Input(2..5, {1, 2, 3}, [s \in 2..5 |-> IF s = 3 THEN {2} ELSE {1, 3}], [s \in 2..5 |-> {1}])}
SmallBootstrap == {Input(1..2, {1}, <<{1}, {1}>>, NoData)}
SmallWindow == {Input(2..3, {1, 2}, [s \in 2..3 |-> {1}], NoData)}

Gb == INSTANCE GenerationStore WITH None <- NoData, Width <- 2, Bootstraps <- BuildBootstraps, Replacements
        <- BuildWindows, Observations <- {}, Enabled <- {"stream", "history"}, MaxBuilds <-
        3, MaxFaults <- 0,
        disk <- s1, damaged <- s2, lost <- s3, build <- s4, made <- s5, cands <- s6, head <-
        s7, builds <- s8
Gm == INSTANCE GenerationStore WITH None <- NoData, Width <- 2, Bootstraps <- SmallBootstrap, Replacements
        <- SmallWindow, Observations <- {{1}, {1, 2}}, Enabled <- {"pit", "indicator",
        "industry"}, MaxBuilds <- 4, MaxFaults <- 0,
        disk <- s1, damaged <- s2, lost <- s3, build <- s4, made <- s5, cands <- s6, head <-
        s7, builds <- s8
Go == INSTANCE GenerationStore WITH None <- NoData, Width <- 2, Bootstraps <- SmallBootstrap, Replacements
        <- {}, Observations <- {{1}, {1, 2}}, Enabled <- {"indicator"}, MaxBuilds <- 5, MaxFaults <- 0,
        disk <- s1, damaged <- s2, lost <- s3, build <- s4, made <- s5, cands <- s6, head <-
        s7, builds <- s8
Gc == INSTANCE GenerationStore WITH None <- NoData, Width <- 2, Bootstraps <- SmallBootstrap, Replacements
        <- {}, Observations <- {}, Enabled <- {"pit", "collect"}, MaxBuilds <- 4, MaxFaults
        <- 0,
        disk <- s1, damaged <- s2, lost <- s3, build <- s4, made <- s5, cands <- s6, head <-
        s7, builds <- s8
Gf == INSTANCE GenerationStore WITH None <- NoData, Width <- 2, Bootstraps <- {WithBasic}, Replacements <-
        {PlainWindow}, Observations <- {}, Enabled <- {"crash", "stream"}, MaxBuilds <- 2,
        MaxFaults <- 1,
        disk <- s1, damaged <- s2, lost <- s3, build <- s4, made <- s5, cands <- s6, head <-
        s7, builds <- s8

(* Reports: a value, its marked restatement, the value restored with another *)
(* report; two payloads of one date that agree on the value read, one of     *)
(* them alone, a row without a date.  Day 4 is no session of the first       *)
(* calendar.                                                                 *)
Report(i, period, pub, mark, val, rest) ==
    [inst |-> i, period |-> period, pub |-> pub, ann |-> pub, mark |-> mark, val |-> val,
     rest |-> rest]
First == Report("i1", 2, 2, FALSE, 1, 0)
Seed == Report("i1", 1, 1, FALSE, 8, 0)
Restated == [i \in {"i1"} |-> {{First, Seed}, {Report("i1", 2, 2, TRUE, 2, 0), Seed},
                               {First, Report("i1", 3, 4, FALSE, 3, 0), Seed}}]
Payload == Report("i2", 2, 3, TRUE, 5, 0)
Other == Report("i2", 2, 3, TRUE, 5, 1)
Conflicted == [i \in {"i2"} |-> {{Payload, Other}, {Other},
                                 {Payload, Report("i2", 3, 0, FALSE, 6, 0)}}]
YearNeeds == [p \in 0..9 |-> IF p = 2 THEN {0, 1} ELSE {}]
Gap == {1, 2, 3, 5, 6}
OneCalendar == {Gap \cup {7}}
TwoCalendars == {Gap, 1..6}

Fr == INSTANCE FinancialCandidate WITH Instruments <- {"i1"}, InScope <- {"i1"}, Responses
        <- Restated, Calendars <- OneCalendar, MaxDay <- 5, MaxFamilies <- 3, Returns <-
        FALSE, Abandons <- FALSE, Start <- 3, Annual <- {1}, Needs <- YearNeeds, Block <- 2,
        day <- s1, market <- s2, raw <- s3, families <- s4, said <- s5, head <- s6, op <-
        s7, draft <- s8, index <- s9, verified <- s10, error <- s11
Fc == INSTANCE FinancialCandidate WITH Instruments <- {"i2"}, InScope <- {"i2"}, Responses
        <- Conflicted, Calendars <- TwoCalendars, MaxDay <- 5, MaxFamilies <- 2, Returns <-
        FALSE, Abandons <- FALSE, Start <- 3, Annual <- {1}, Needs <- YearNeeds, Block <- 2,
        day <- s1, market <- s2, raw <- s3, families <- s4, said <- s5, head <- s6, op <-
        s7, draft <- s8, index <- s9, verified <- s10, error <- s11
Fa == INSTANCE FinancialCandidate WITH Instruments <- {"i1"}, InScope <- {"i1"}, Responses
        <- Restated, Calendars <- OneCalendar, MaxDay <- 4, MaxFamilies <- 2, Returns <-
        FALSE, Abandons <- TRUE, Start <- 3, Annual <- {1}, Needs <- YearNeeds, Block <- 2,
        day <- s1, market <- s2, raw <- s3, families <- s4, said <- s5, head <- s6, op <-
        s7, draft <- s8, index <- s9, verified <- s10, error <- s11

SnapshotCalendars == {{1}, {1, 3}, {1, 2, 3}}
B == INSTANCE BenchmarkSnapshot WITH Updaters <- {"u1", "u2"}, Calendars <-
        SnapshotCalendars, Levels <- {5, 6}, MaxFaults <- 1, MaxCrashes <- 1,
        vis <- s1, dur <- s2, pending <- s3, lock <- s4, pc <- s5, req <- s6, old <- s7, new
        <- s8, before <- s9, acked <- s10, outcome <- s11, faults <- s12, crashes <- s13

(* Two stocks, one of either board.                                         *)
MCStocks == {1, 2}
MCBoard == (1 :> "main") @@ (2 :> "star")
Unlimited == [x \in {} |-> 0]
MCSmall == [main |-> 2, star |-> 3]
MCCap == [main |-> 4, star |-> 5]

Open(raw, adj) == [st |-> "open", raw |-> raw, adj |-> adj, lim |-> "none"]
At_(st) == [st |-> st, raw |-> 10, adj |-> 10, lim |-> "none"]
NoLimit(raw) == [st |-> "open", raw |-> raw, adj |-> raw, lim |-> "missing"]
Limit(lim) == [st |-> "open", raw |-> 12, adj |-> 12, lim |-> lim]

Day(a, b) == (1 :> a) @@ (2 :> b)
Goal(mode, w, expo) ==
    [mode |-> mode, w |-> w, order |-> SetToSortSeq(DOMAIN w, <), expo |-> expo, keep |-> {},
     lim |-> Unlimited, cap |-> NoData]

TwoStocks == (1 :> 2) @@ (2 :> 2)
OneStock == (1 :> 4)

\* Orders: rising, falling, an adjusted price after a split, a limit.
TradeQuotes == {Day(Open(10, 10), Open(10, 10)), Day(Open(5, 10), Open(6, 12)),
                Day(Limit("up"), [Open(8, 8) EXCEPT !.lim = "down"]), Day(Open(13, 13), Open(8, 8))}
TradeTargets == {Goal("rebalance", TwoStocks, 4), Goal("rebalance", OneStock, 4), Goal("reduce", Unlimited, 1),
                 [Goal("increase", TwoStocks, 4) EXCEPT !.order = <<2, 1>>],
                 [Goal("local", Unlimited, 0) EXCEPT !.lim = (2 :> 3)],
                 [Goal("rebalance", (2 :> 4), 4) EXCEPT !.keep = {1}, !.cap = 3]}

\* Continuations: a suspension, a delisting, quotes and price limits that are
\* missing.
ResumeQuotes == {Day(Open(10, 10), Open(10, 10)), Day(At_("halt"), Open(7, 7)),
                 Day(Open(12, 12), At_("gone")), Day(At_("dark"), NoLimit(9)),
                 Day(At_("hole"), Open(9, 9))}
ResumeTargets == {Goal("rebalance", TwoStocks, 4), Goal("rebalance", OneStock, 2)}

\* Metrics: falls and recoveries.
MetricQuotes == {Day(Open(10, 10), Open(10, 10)), Day(Open(8, 8), Open(8, 8)),
                 Day(Open(6, 6), Open(6, 6)), Day(Open(11, 11), Open(11, 11))}
MetricTargets == {Goal("rebalance", OneStock, 4)}

As == INSTANCE StrategyAccount WITH None <- NoData, Stocks <- MCStocks, Board <- MCBoard,
        Small <- MCSmall, Cap <- MCCap, Lot <- 2, Part <- 10, Bp <- 10, W <- 4, Fee <- 8,
        Slip <- 3, Cash <- 400, Sessions <- 3, MaxRuns <- 1, Quotes <- TradeQuotes,
        Targets <- TradeTargets,
        market <- s1, decided <- s2, status <- s3, t <- s4, acct <- s5, plan <- s6, fills <- s7,
        rej <- s8, new <- s9, metric <- s10, saved <- s11, rows <- s12, runs <- s13
Ar == INSTANCE StrategyAccount WITH None <- NoData, Stocks <- MCStocks, Board <- MCBoard,
        Small <- MCSmall, Cap <- MCCap, Lot <- 2, Part <- 10, Bp <- 10, W <- 4, Fee <- 2,
        Slip <- 1, Cash <- 150, Sessions <- 3, MaxRuns <- 2, Quotes <- ResumeQuotes,
        Targets <- ResumeTargets,
        market <- s1, decided <- s2, status <- s3, t <- s4, acct <- s5, plan <- s6, fills <- s7,
        rej <- s8, new <- s9, metric <- s10, saved <- s11, rows <- s12, runs <- s13
Am == INSTANCE StrategyAccount WITH None <- NoData, Stocks <- MCStocks, Board <- MCBoard,
        Small <- MCSmall, Cap <- MCCap, Lot <- 2, Part <- 10, Bp <- 10, W <- 4, Fee <- 2,
        Slip <- 1, Cash <- 150, Sessions <- 4, MaxRuns <- 1, Quotes <- MetricQuotes,
        Targets <- MetricTargets,
        market <- s1, decided <- s2, status <- s3, t <- s4, acct <- s5, plan <- s6, fills <- s7,
        rej <- s8, new <- s9, metric <- s10, saved <- s11, rows <- s12, runs <- s13

\* Three items, two of which share their Alpha; windows of two sessions over three.
TwoGroups == [i \in 1..3 |-> IF i = 2 THEN "b" ELSE "a"]
C == INSTANCE BatchChild WITH N <- 3, TotalSessions <- 3, Chunk <- 2, Kinds <-
        {"factor_evaluation", "strategy_sweep", "independent_strategies"}, GroupOf <-
        TwoGroups, CommonItems <- {1},
        kind <- s1, reuse <- s2, child <- s3, code <- s4, pc <- s5, pipe <- s6, cmds <- s7,
        sent <- s8, failed <- s9, final <- s10, cont <- s11, alpha <- s12, art <- s13, parts
        <- s14, worker <- s15, at <- s16, msg <- s17, verdict <- s18, evidence <- s19
S == INSTANCE SupervisedChild WITH Roles <- {"research", "tracking"}, K <- 3, Warmup <- 1,
        MaxFrames <- 2, Budget <- 1,
        role <- s1, resume <- s2, child <- s3, code <- s4, ord <- s5, sentFrames <- s6, left
        <- s7, watching <- s8, cancelled <- s9, cmds <- s10, stdin <- s11, open <- s12, out
        <- s13, sup <- s14, asm <- s15, got <- s16, outcome <- s17, asked <- s18, since <-
        s19, term <- s20

\* What the instances ask of their constants.
ASSUME InstanceAssumption ==
    /\ Fr!BoundsAssumption /\ Fc!BoundsAssumption /\ Fa!BoundsAssumption
    /\ B!CalendarsAssumption
    /\ As!AccountAssumption /\ Ar!AccountAssumption /\ Am!AccountAssumption
    /\ C!BatchChildAssumption /\ S!ChildAssumption

(* The state variables a scenario does not use. *)
After19 == <<s20>>
Zero19 == s20 = 0
After13 == <<s14, s15, s16, s17, s18, s19, After19>>
Zero13 == s14 = 0 /\ s15 = 0 /\ s16 = 0 /\ s17 = 0 /\ s18 = 0 /\ s19 = 0 /\ Zero19
After11 == <<s12, s13, After13>>
Zero11 == s12 = 0 /\ s13 = 0 /\ Zero13
After8 == <<s9, s10, s11, After11>>
Zero8 == s9 = 0 /\ s10 = 0 /\ s11 = 0 /\ Zero11

McInit ==
    \/ /\ Zero8
       /\ \/ scenario = "build" /\ Gb!Init
          \/ scenario = "compose" /\ Gm!Init
          \/ scenario = "overwrite" /\ Go!Init
          \/ scenario = "collect" /\ Gc!Init
          \/ scenario = "faults" /\ Gf!Init
    \/ /\ Zero11
       /\ \/ scenario = "restated" /\ Fr!Init
          \/ scenario = "conflict" /\ Fc!Init
          \/ scenario = "retry" /\ Fa!Init
    \/ /\ Zero13
       /\ \/ scenario = "file" /\ B!Init
          \/ scenario = "orders" /\ As!Init
          \/ scenario = "resume" /\ Ar!Init
          \/ scenario = "metrics" /\ Am!Init
    \/ scenario = "dialogue" /\ C!Init /\ Zero19
    \/ scenario = "solo" /\ S!Init

McNext ==
    /\ UNCHANGED scenario
    /\ \/ /\ UNCHANGED After8
          /\ \/ scenario = "build" /\ Gb!Next
             \/ scenario = "compose" /\ Gm!Next
             \/ scenario = "overwrite" /\ Go!Next
             \/ scenario = "collect" /\ Gc!Next
             \/ scenario = "faults" /\ Gf!Next
       \/ /\ UNCHANGED After11
          /\ \/ scenario = "restated" /\ Fr!Next
             \/ scenario = "conflict" /\ Fc!Next
             \/ scenario = "retry" /\ Fa!Next
       \/ /\ UNCHANGED After13
          /\ \/ scenario = "file" /\ B!Next
             \/ scenario = "orders" /\ As!Next
             \/ scenario = "resume" /\ Ar!Next
             \/ scenario = "metrics" /\ Am!Next
       \/ scenario = "dialogue" /\ C!Next /\ UNCHANGED After19
       \/ scenario = "solo" /\ S!Next

vars == <<scenario, s1, s2, s3, s4, s5, s6, s7, After8>>
McSpec == McInit /\ [][McNext]_vars

-----------------------------------------------------------------------------
(* Properties.                                                              *)

\* Generations: whatever built a root, its core manifests are those of a whole build of the
\* same data; what the cheap refresh validation accepts the full audit accepts; a candidate
\* built on the Head from data that fit together is never refused; statistics and every
\* reader agree with the root's data whatever partitions are opened.
BuildsAgree ==
    /\ scenario = "build" =>
          /\ Gb!SameDataSameManifests /\ Gb!AcceptedIsSound /\ Gb!HonestCandidateAccepted
          /\ Gb!StatisticsExact /\ Gb!ReadersAgree
    /\ scenario = "compose" => Gm!HonestCandidateAccepted

\* Files: collection keeps every file that validating or reading a kept root opens; a file a
\* build stored is intact while the build runs; a root on the mount is whole, whatever a
\* crashed build leaves; a research read is exact or names the family it could not read;
\* once publish() returned, no crash or failed call loses a published benchmark level.
FilesIntact ==
    /\ scenario = "collect" => Gc!RootsComplete
    /\ scenario = "faults" => Gf!StoredFilesIntact /\ Gf!StoredRootsComplete /\ Gf!ReadExactOrReported
    /\ scenario = "file" => B!PublishedSurvives

\* The financial family: extended by deltas it answers every read like one rebuilt from its
\* evidence, with nothing that was not public or not yet observed, whatever the window; it
\* holds the last accepted answer, validates again and keeps an honest inventory; and an
\* operation whose instruments were accepted one by one is not refused as a whole.
FamilyExact ==
    /\ scenario = "restated" =>
          /\ Fr!IncrementalEqualsRebuild /\ Fr!NoLookAhead /\ Fr!WindowIndependent
          /\ Fr!ReturnRecorded /\ Fr!FamiliesRevalidate /\ Fr!InventoryHonest
    /\ scenario = "conflict" => Fc!IncrementalEqualsRebuild /\ Fc!NoLookAhead
    /\ scenario = "retry" => Fa!AcceptedIsPublishable

\* No publication takes back what a reader could already see.
PublishedOnlyGrows ==
    [][/\ scenario = "compose" => Gm!HeadKeepsFamilies
       /\ scenario = "overwrite" => Go!HeadKeepsFamilies
       /\ scenario = "restated" => Fr!HistoryKept
       /\ scenario = "file" => B!HistoryAppendOnly /\ B!FailedPublicationUndone]_vars

\* The Strategy account: published fills account for every unit of cash, the quantity bought
\* is the largest the cash pays for with all fees, a session that buys never ends overdrawn,
\* and every child order has a size its board accepts.  However a run is cut into chunks,
\* interrupted or executed again, a session has the observation it had the first time, a
\* continuation is accepted by the next chunk, and the metrics carried along are those of
\* the whole history.
AccountExact ==
    /\ scenario = "orders" =>
          As!FillsReconcile /\ As!AffordableIsLargest /\ As!BuysAreCovered /\ As!ChildrenAreLegal
    /\ scenario = "resume" => Ar!Reproducible /\ Ar!ContinuationAccepted
    /\ scenario = "metrics" => Am!MetricsAgree

\* A child and the process that reads it never meet a message the other cannot take; what
\* is acknowledged is decided, what succeeded is whole and in order, accounts stand where
\* their Alpha stands, no partial artifact is kept, nothing is reported cancelled that
\* nobody cancelled, and a return leaves no child behind.
DialogueSound ==
    /\ scenario = "dialogue" =>
          /\ C!TypeOK /\ C!SpeaksSameProtocol /\ C!AcknowledgedIsDecided
          /\ C!SuccessIsWhole /\ C!AccountsAligned /\ C!NoTornArtifact
    /\ scenario = "solo" =>
          /\ S!TypeOK /\ S!ChunksContinue /\ S!AcknowledgementsAgree
          /\ S!ReturnMeansExit /\ S!SuccessIsClean /\ S!CancelledWasAsked
==============================================================================
