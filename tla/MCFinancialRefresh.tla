-------------------------- MODULE MCFinancialRefresh --------------------------
(* The daily financial Refresh (DailyFinancialRefresh, three scenarios) and  *)
(* the financial publication and reprojection commands (FinancialRefresh,    *)
(* three scenarios).                                                         *)
(*   race     one operation, two Workers, one paused while its lock session  *)
(*            is lost, an outside publication                                *)
(*   crash    two operations, one Worker that dies, a gap in the calendar    *)
(*   staged   a dataset operation whose stage another operation follows,     *)
(*            source errors, an outside publication                          *)
(*   crace, cfaults, clost   commands of two processes beside a market       *)
(*            publication and a collection; of one that dies; of two after   *)
(*            a lock session is lost                                         *)
EXTENDS DailyFinancialRefresh, TLC

CONSTANTS k1, k2, r1, r2, i1, i2

VARIABLES scenario, seen, col, prot, files, proc

\* The report, instrument, day and target of each scenario.
InstOne == r1 :> i1
DayOne == r1 :> 1
TargetOne == k1 :> 1
OneFinancial == k1 :> "financial"
InstBoth == r1 :> i1 @@ r2 :> i2
DayBoth == r1 :> 1 @@ r2 :> 2
TargetsRising == k1 :> 1 @@ k2 :> 2
TargetsLater == k1 :> 2 @@ k2 :> 3
BothFinancial == k1 :> "financial" @@ k2 :> "financial"
DatasetFirst == k1 :> "dataset" @@ k2 :> "financial"
PublishAndReproject == k1 :> "publish" @@ k2 :> "reproject"
OnePublish == k1 :> "publish"

C == INSTANCE DailyFinancialRefresh WITH Reports <- {r1, r2}, Insts <- {i1, i2},
        Inst <- InstBoth, Day <- DayBoth, Keys <- {k1, k2}, Target <- TargetsLater,
        Mode <- BothFinancial, Workers <- {"w"}, LastDay <- 3, HeadTries <- 1, MaxOutside <- 0,
        MaxPauses <- 0, MaxDeaths <- 1, MaxLost <- 0, MaxErrors <- 0, MaxGaps <- 1
G == INSTANCE DailyFinancialRefresh WITH Insts <- {i1, i2}, Keys <- {k1, k2},
        Target <- TargetsRising, Mode <- DatasetFirst, Workers <- {"w"}, LastDay <- 2,
        HeadTries <- 1, MaxPauses <- 0, MaxLost <- 0, MaxErrors <- 1

FR == INSTANCE FinancialRefresh WITH Keys <- {k1, k2}, Kind <- PublishAndReproject,
        Procs <- {"p1", "p2"}, Shards <- {1}, Tries <- 2, MaxMarket <- 1, MaxDaily <- 0,
        MaxCrashes <- 0, MaxLost <- 0, MaxRefused <- 0, MaxLapses <- 0, MaxGc <- 1
FF == INSTANCE FinancialRefresh WITH Keys <- {k1, k2}, Kind <- PublishAndReproject,
        Procs <- {"p1"}, Shards <- {1}, Tries <- 2, MaxMarket <- 1, MaxDaily <- 1,
        MaxCrashes <- 1, MaxLost <- 0, MaxRefused <- 0, MaxLapses <- 0, MaxGc <- 0
FL == INSTANCE FinancialRefresh WITH Keys <- {k1}, Kind <- OnePublish,
        Procs <- {"p1", "p2"}, Shards <- {1, 2}, Tries <- 2, MaxMarket <- 0, MaxDaily <- 0,
        MaxCrashes <- 0, MaxLost <- 1, MaxRefused <- 1, MaxLapses <- 1, MaxGc <- 1

\* What the instances ask of their constants.
ASSUME InstanceAssumption ==
    FR!RefreshAssumption /\ FF!RefreshAssumption /\ FL!RefreshAssumption

daily == {"race", "crash", "staged"}
commands == {"crace", "cfaults", "clost"}
dailyVars == <<day, listed, held, rec, checks, live, lifecycle, worker>>
commandVars == <<seen, col, prot, files, proc>>

McInit ==
    \/ /\ scenario \in daily /\ seen = 0 /\ col = 0 /\ prot = 0 /\ files = 0 /\ proc = 0
       /\ \/ scenario = "race" /\ Init
          \/ scenario = "crash" /\ C!Init
          \/ scenario = "staged" /\ G!Init
    \/ /\ scenario \in commands /\ day = 0 /\ listed = 0 /\ held = 0 /\ rec = 0 /\ checks = 0
       /\ live = 0 /\ lifecycle = 0 /\ worker = 0
       /\ \/ scenario = "crace" /\ FR!Init
          \/ scenario = "cfaults" /\ FF!Init
          \/ scenario = "clost" /\ FL!Init

McNext ==
    /\ UNCHANGED scenario
    /\ \/ /\ UNCHANGED commandVars
          /\ \/ scenario = "race" /\ Next
             \/ scenario = "crash" /\ C!Next
             \/ scenario = "staged" /\ G!Next
       \/ /\ UNCHANGED dailyVars
          /\ \/ scenario = "crace" /\ FR!Next
             \/ scenario = "cfaults" /\ FF!Next
             \/ scenario = "clost" /\ FL!Next

allVars == <<scenario, vars, commandVars>>
McSpec == McInit /\ [][McNext]_allVars

-----------------------------------------------------------------------------
(* Properties.                                                              *)

\* What a daily operation or a command publishes loses nothing that was published, is
\* complete where it says so, and is reported as it is.
PublicationsSound ==
    [][/\ scenario \in daily => PublishedGrows
       /\ scenario = "race" => PublishedWhileRunning /\ ReadyIsComplete
       /\ scenario = "crash" => C!PublishedWhileRunning /\ C!ReadyIsComplete /\ C!PendingReported
       /\ scenario = "staged" =>
             /\ G!PublishedWhileRunning /\ G!ReadyIsComplete
             /\ G!PlanCoversUnpublished /\ G!StagedIsComplete
       /\ scenario = "crace" => FR!NoLostUpdate]_allVars

\* A report disclosed more than Overlap days before the complete session is in the ledger;
\* a receipt, whoever finishes it, names a Generation that was the Head with its own
\* family; what is the Head's is not reported failed; the collector leaves the evidence
\* finished work rests on; a collection checkpoints each shard once (TypeOK).
ReceiptsSound ==
    /\ scenario = "crash" => C!DisclosuresKnown /\ C!ReceiptNamesHead
    /\ scenario = "staged" => G!PublishedNotFailed
    /\ scenario = "crace" => FR!EvidenceRetained
    /\ scenario = "cfaults" => FF!ReceiptNamesHead
    /\ scenario = "clost" => FL!TypeOK
=============================================================================
