--------------------------- MODULE MCDataLifecycle ---------------------------
(* Two generations that share a file; each has one of its own beside its    *)
(* root.  Two scopes of one instance are explored: two Workers contend for  *)
(* one refresh, the second started when the lease of the first had lapsed;  *)
(* and one Worker serves two refreshes while an owner freezes, retains and  *)
(* lets go.                                                                 *)
EXTENDS DataLifecycle, TLC

MCFilesOf == [g \in {"g0", "g1"} |->
    IF g = "g0" THEN {"r0", "s", "a"} ELSE {"r1", "s", "b"}]
MCRoot == [g \in {"g0", "g1"} |-> IF g = "g0" THEN "r0" ELSE "r1"]
MCSymmetry == Permutations(Workers)

Fencing == ops[2].status = "none" /\ \A o \in Owners : owner[o].pc = "idle"
Retaining == /\ \A w \in Workers : worker[w].session # "lost"
             /\ Cardinality({w \in Workers : worker[w].pc # "idle"}) <= 1
             /\ \A k \in Operations : ops[k].attempts <= 1
Scope == Fencing \/ Retaining
=============================================================================
