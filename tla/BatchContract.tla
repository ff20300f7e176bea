---------------------------- MODULE BatchContract ----------------------------
(* What a Research Batch promises its researcher, without attempts or Workers:   *)
(* every item is decided once, and the verdict follows from the decided items.   *)
(* No batch waits for another; one transaction may settle several lost batches.  *)
EXTENDS Naturals

CONSTANTS Batches, Items
VARIABLES phase, decided   \* decided: outcome of each item, "none" while open

vars == <<phase, decided>>

Verdicts == {"succeeded", "completed_with_failures", "failed"}
Phases == {"none", "open", "cancelling", "cancelled"} \cup Verdicts
Outcomes == {"none", "succeeded", "failed", "cancelled"}

Init == /\ phase = [b \in Batches |-> "none"]
        /\ decided = [b \in Batches |-> [i \in Items |-> "none"]]

\* The decisions of one step: some undecided items are decided, no other changes.
Decides(b, outcomes) ==
  \A i \in Items : IF decided[b][i] = "none" THEN decided'[b][i] \in outcomes \cup {"none"}
                   ELSE decided'[b][i] = decided[b][i]

AllDecided(b) == \A i \in Items : decided'[b][i] # "none"

Verdict(f) ==
  IF \A i \in Items : f[i] = "succeeded" THEN "succeeded"
  ELSE IF \E i \in Items : f[i] = "succeeded" THEN "completed_with_failures"
  ELSE "failed"

Keeps(b) == phase'[b] = phase[b] /\ decided'[b] = decided[b]

Admit(b) == phase[b] = "none" /\ phase'[b] = "open" /\ decided'[b] = decided[b]

AskCancel(b) == phase[b] = "open" /\ phase'[b] = "cancelling" /\ decided'[b] = decided[b]

\* Items are decided while nobody asked to cancel; with the last one, or later, the verdict.
Progress(b) ==
  /\ phase[b] = "open"
  /\ Decides(b, {"succeeded", "failed"})
  /\ \/ phase'[b] = "open"
     \/ AllDecided(b) /\ phase'[b] = Verdict(decided'[b])

\* What was decided before stays; everything else is cancelled in one step.
Cancel(b) ==
  /\ phase[b] \in {"open", "cancelling"}
  /\ Decides(b, {"cancelled"})
  /\ AllDecided(b)
  /\ phase'[b] = "cancelled"

Next ==
  /\ phase' \in [Batches -> Phases]
  /\ decided' \in [Batches -> [Items -> Outcomes]]
  /\ \A b \in Batches : Keeps(b) \/ Admit(b) \/ AskCancel(b) \/ Progress(b) \/ Cancel(b)

Spec == Init /\ [][Next]_vars

=============================================================================
