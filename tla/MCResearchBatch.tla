---------------------------- MODULE MCResearchBatch ----------------------------
(* A batch of two items.  Either all Workers contend for it while the Head   *)
(* moves on, each task having one attempt, or one Worker that may die at any *)
(* point takes it through two attempts of every task.  MaxScratch bounds the *)
(* attempts that have files in the control directory of the lone Worker: the *)
(* housekeeping removes a dead attempt's files before the next are written.  *)
EXTENDS ResearchBatch

VARIABLE crew      \* the Workers that run

MaxScratch == 1

C == INSTANCE ResearchBatch WITH Kinds <- {"independent_strategies"}, MaxTaskAttempts <- 1, HeadMoves <- TRUE

McInit == Init /\ crew \in {Workers, {CHOOSE w \in Workers : TRUE}}
McNext ==
    /\ UNCHANGED crew
    /\ \/ crew = Workers /\ C!Next
       \/ /\ crew # Workers /\ Next
          /\ \A w \in Workers \ crew : worker'[w] = worker[w]
          /\ Cardinality(scratch') <= MaxScratch
McSpec == McInit /\ [][McNext]_<<vars, crew>>
=============================================================================
