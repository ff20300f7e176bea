--------------------------- MODULE MCDatasetRefresh ---------------------------
(* The dataset Refresh (UnifiedRefresh) with bounded faults, in three scenes: *)
(* two requests and one Data Operator that dies once, with one publication by *)
(* somebody else; one request and two Data Operators, of which one is paused  *)
(* past its lease or dies; one request that is cancelled, fails and is        *)
(* retried in any order.                                                      *)
EXTENDS UnifiedRefresh

CONSTANTS OverlapKeys, OverlapWorkers, RetryKeys

Upto(outside, pauses, deaths) == [outside |-> outside, pauses |-> pauses, deaths |-> deaths]
Dying == {Upto(1, 0, 1)}
Pausing == {Upto(1, 1, 0), Upto(0, 1, 1)}
Calm == {Upto(0, 0, 0)}

VARIABLE scene

Overlap == INSTANCE UnifiedRefresh WITH
    Keys <- OverlapKeys, Workers <- OverlapWorkers, MaxAttempts <- 2, Limits <- Pausing
Retries == INSTANCE UnifiedRefresh WITH
    Keys <- RetryKeys, Changing <- {}, Limits <- Calm

\* Keys are interchangeable: they are used in order.
InOrder(keys) == \A k \in keys : op'[k].st # "none" => \A j \in 1..(k - 1) : op'[j].st # "none"

\* One request: every operation but the first is a Retry.
OneRequest == Cardinality({k \in RetryKeys : op'[k].st # "none" /\ op'[k].of = None}) <= 1

McInit == \/ scene = "requests" /\ Init
          \/ scene = "overlap" /\ Overlap!Init
          \/ scene = "retries" /\ Retries!Init
McNext == /\ UNCHANGED scene
          /\ \/ scene = "requests" /\ Next /\ InOrder(Keys)
             \/ scene = "overlap" /\ Overlap!Next
             \/ scene = "retries" /\ Retries!Next /\ OneRequest /\ InOrder(RetryKeys)
McSpec == McInit /\ [][McNext]_<<vars, scene>>

-----------------------------------------------------------------------------
(* Properties.                                                              *)

\* The switch of the Head by a dataset Refresh loses nothing, however late its worker is;
\* and an operation reported as published was published, by its worker or by the
\* reconciliation after its death.  (Where two workers overlap the code does not keep the
\* latter: README, 9.)
SwitchesSound ==
    [][/\ NothingOverwritten
       /\ scene = "requests" => SucceededMeansPublished]_<<vars, scene>>

\* The Head's benchmark covers its market data, and no stage row outlives its work, which
\* would keep collection from ever running again; in a lineage of Retries at most one
\* operation waits, runs or has succeeded.
RefreshesConsistent ==
    /\ BenchmarkBelongs
    /\ scene = "requests" => TypeOK /\ NoStageLeftRunning
    /\ scene = "overlap" => Overlap!TypeOK
    /\ scene = "retries" => Retries!TypeOK /\ Retries!OneOfLineage
=============================================================================
