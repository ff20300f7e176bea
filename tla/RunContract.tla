----------------------------- MODULE RunContract -----------------------------
(***************************************************************************)
(* What a ResearchRun promises its researcher, without Workers, leases or  *)
(* fences: it waits, is active, is stopping, or has one final outcome; it  *)
(* starts at most Budget times; the chunks it has made durable are never   *)
(* lost while it may still continue; and it succeeds only with all of them.*)
(***************************************************************************)
EXTENDS Naturals

CONSTANTS Runs, Plan, Budget

VARIABLES phase, tries, durable

cvars == <<phase, tries, durable>>

Outcomes == {"succeeded", "failed", "cancelled"}

Move(r, from, to) == phase[r] \in from /\ phase' = [phase EXCEPT ![r] = to]
Forget(r) == durable' = [durable EXCEPT ![r] = 0]

Init ==
    /\ phase = [r \in Runs |-> "absent"]
    /\ tries = [r \in Runs |-> 0]
    /\ durable = [r \in Runs |-> 0]

Submit(r) == Move(r, {"absent"}, "waiting") /\ UNCHANGED <<tries, durable>>

\* A first start, a retry, or the takeover of an attempt whose Worker is lost.
Begin(r) ==
    /\ Move(r, {"waiting", "active"}, "active")
    /\ tries[r] < Budget
    /\ tries' = [tries EXCEPT ![r] = @ + 1]
    /\ UNCHANGED durable

Progress(r) ==
    /\ phase[r] = "active" /\ durable[r] < Plan
    /\ durable' = [durable EXCEPT ![r] = @ + 1]
    /\ UNCHANGED <<phase, tries>>

Interrupt(r) ==
    /\ Move(r, {"active"}, "waiting")
    /\ tries[r] < Budget
    /\ UNCHANGED <<tries, durable>>

Succeed(r) ==
    /\ Move(r, {"active"}, "succeeded")
    /\ durable[r] = Plan
    /\ Forget(r) /\ UNCHANGED tries

Fail(r) == Move(r, {"active"}, "failed") /\ Forget(r) /\ UNCHANGED tries

Stop(r) == Move(r, {"active"}, "stopping") /\ UNCHANGED <<tries, durable>>

Cancelled(r) ==
    /\ Move(r, {"waiting", "stopping"}, "cancelled")
    /\ Forget(r) /\ UNCHANGED tries

Remove(r) ==
    /\ Move(r, Outcomes, "deleted")
    /\ tries' = [tries EXCEPT ![r] = 0]
    /\ UNCHANGED durable

Next == \E r \in Runs :
    \/ Submit(r) \/ Begin(r) \/ Progress(r) \/ Interrupt(r) \/ Succeed(r)
    \/ Fail(r) \/ Stop(r) \/ Cancelled(r) \/ Remove(r)

Spec == Init /\ [][Next]_cvars
=============================================================================
