---------------------------- MODULE TrackContract ----------------------------
(* What a DailyTrack promises its researcher, without Workers, leases or queue.  *)
EXTENDS Naturals

CONSTANTS Tracks
VARIABLES phase, published   \* published: last session with a checkpoint, 0 if none

vars == <<phase, published>>

Init == /\ phase = [t \in Tracks |-> "none"]
        /\ published = [t \in Tracks |-> 0]

Become(t, from, to) ==
  /\ phase[t] \in from
  /\ phase' = [phase EXCEPT ![t] = to]

Activate(t) ==
  /\ Become(t, {"none"}, "active")
  /\ published' = [published EXCEPT ![t] = 1]

\* Results appear only while the track is active, and never go back.
Advance(t) ==
  /\ phase[t] = "active"
  /\ published'[t] > published[t]
  /\ published' = [published EXCEPT ![t] = published'[t]]
  /\ UNCHANGED phase

Block(t) == Become(t, {"active"}, "blocked") /\ UNCHANGED published
Resume(t) == Become(t, {"blocked"}, "active") /\ UNCHANGED published

\* A stop is final: at once, or after the work in flight was given up.
Stop(t) ==
  /\ \/ Become(t, {"active", "blocked", "stopping"}, "stopped")
     \/ Become(t, {"active"}, "stopping")
  /\ UNCHANGED published

Delete(t) ==
  /\ Become(t, {"stopped"}, "deleted")
  /\ published' = [published EXCEPT ![t] = 0]

Next == \E t \in Tracks :
  Activate(t) \/ Advance(t) \/ Block(t) \/ Resume(t) \/ Stop(t) \/ Delete(t)

Spec == Init /\ [][Next]_vars

=============================================================================
