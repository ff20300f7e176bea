----------------------------- MODULE MCAdmission -----------------------------
(* One researcher either submits single runs, reruns and uses folders over *)
(* two quota days with room for two runs each; or submits batches that     *)
(* compete for one day's quota and are cancelled and read.                 *)
EXTENDS Admission, TLC

(* The API workers are interchangeable: no property names one.             *)
Symmetry == Permutations(Api)

(* The second Generation replaces the first: it starts later, drops the    *)
(* field "pe" and reaches one session further.                             *)
McGenerations == <<[sessions |-> 1..4, coverage |-> [f \in {"close", "pe"} |-> [start |-> 1, end |-> 4]]],
                   [sessions |-> 2..5, coverage |-> [f \in {"close"} |-> [start |-> 2, end |-> 5]]]>>

McSpecOf(k, from, to, fields) ==
    [start |-> from, end |-> to, fields |-> fields, kind |-> k, compiles |-> TRUE, lookback |-> 1]
Early == McSpecOf("strategy", 2, 3, {"pe"})
Late == McSpecOf("factor", 3, 5, {"close"})
McRunCommands ==
    {[kind |-> "run", folder |-> "mine", specs |-> <<Early>>, source |-> 0],
     [kind |-> "run", folder |-> "default", specs |-> <<>>, source |-> 1]}
McBatchCommands ==
    {[kind |-> "batch", folder |-> "batch_research",
      specs |-> <<Early, McSpecOf("strategy", 3, 3, {"pe"})>>, source |-> 0],
     [kind |-> "batch", folder |-> "batch_research", specs |-> <<Late>>, source |-> 0]}
McCommands == McRunCommands \cup McBatchCommands

VARIABLE submits       \* what the researcher's clients submit

Single == INSTANCE Admission WITH Commands <- McRunCommands, Requests <- {"q1"}
Batched == INSTANCE Admission WITH Commands <- McBatchCommands, UserFolders <- {}, MaxDay <- 1

McInit == Init /\ submits \in {"runs", "batches"}
McNext == /\ UNCHANGED submits
          /\ \/ submits = "runs" /\ Single!Next
             \/ submits = "batches" /\ Batched!Next
McSpec == McInit /\ [][McNext]_<<vars, submits>>
=============================================================================
