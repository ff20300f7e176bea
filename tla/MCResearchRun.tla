---------------------------- MODULE MCResearchRun ----------------------------
(* ResearchRun on small instances. *)
EXTENDS ResearchRun, TLC

Symmetry == Permutations(Workers)
=============================================================================
