---------------------------- MODULE MCPublication ----------------------------
\* Two manifests that share an object: m1 holds it as its expiring payload.
EXTENDS Publication, TLC

MCDigest == [m \in {"m1", "m2"} |->
    IF m = "m1" THEN [report |-> "o1", events |-> "o2"] ELSE [report |-> "o2"]]
MCExpiring == [m \in {"m1", "m2"} |-> IF m = "m1" THEN {"events"} ELSE {}]
MCSymmetry == Permutations(Publishers)
=============================================================================
