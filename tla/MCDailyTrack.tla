----------------------------- MODULE MCDailyTrack -----------------------------
(* Three scenarios with two Workers on one track: retries and Retry commands *)
(* over a short history; advances of two sessions over a longer one; and a   *)
(* still longer one in which Working Caches are left behind by either        *)
(* Worker.                                                                   *)
EXTENDS DailyTrack, TLC

VARIABLE scenario

WorkerSymmetry == Permutations(Workers)

A == INSTANCE DailyTrack WITH MaxSession <- 3, MaxCycleAttempts <- 1
C == INSTANCE DailyTrack WITH Requests <- {}, MaxSession <- 4, MaxFits <- 1, MaxCycleAttempts <- 1

McInit == \/ scenario = "retries" /\ Init
          \/ scenario = "advances" /\ A!Init
          \/ scenario = "caches" /\ C!Init
McNext == /\ UNCHANGED scenario
          /\ \/ scenario = "retries" /\ Next
             \/ scenario = "advances" /\ A!Next
             \/ scenario = "caches" /\ C!Next
McSpec == McInit /\ [][McNext]_<<vars, scenario>>

=============================================================================
