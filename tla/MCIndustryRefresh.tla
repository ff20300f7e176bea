-------------------------- MODULE MCIndustryRefresh --------------------------
(* One industry operation among faults, or two without any.                   *)
EXTENDS IndustryRefresh, TLC

Upto(other, replaced, pauses, deaths, lost) ==
    [other |-> other, replaced |-> replaced, pauses |-> pauses, deaths |-> deaths, lost |-> lost]

\* Another family's publication and a Worker paused beyond its lease, beside
\* a death or a dropped lock session; two dataset Refreshes with a pause, or
\* one with a pause and a death.
McLimits == {Upto(1, 0, 1, 0, 1), Upto(0, 2, 1, 0, 0), Upto(1, 0, 1, 1, 0), Upto(0, 1, 1, 1, 0)}

Used == {k \in Keys : op[k].st # "none"}

\* Keys are interchangeable and used in order; two operations have one attempt each.
Scope == /\ Used = 1..Cardinality(Used)
         /\ \/ Cardinality(Used) <= 1
            \/ (\A f \in FaultKinds : faults[f] = 0) /\ (\A k \in Keys : op[k].att <= 1)

Within == Scope'

Symm == Permutations(Workers) \cup Permutations(Contents)
=============================================================================
