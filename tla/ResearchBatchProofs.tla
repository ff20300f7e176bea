------------------------- MODULE ResearchBatchProofs -------------------------
(***************************************************************************)
(* The rows of Research Batches under commands, Workers and recoveries,    *)
(* for any batches, Workers and bounds.  A transaction changes the rows of *)
(* a batch in one of a few ways (Effect); the invariant, the contract and  *)
(* the ownership of children are shown for each way, and every action is   *)
(* shown to take one of them for every batch.                              *)
(***************************************************************************)
EXTENDS ResearchBatch, FiniteSetTheorems, TLAPS

USE ResearchBatchConstants

\* The attempts of tasks that are used up: all of a task but the one that is open.
Spent(r) ==
    {p \in Tasks \X (1..MaxTaskAttempts) :
        p[2] <= r.used[p[1]] - (IF p[1] \in r.open THEN 1 ELSE 0)}

DecidedItems(r) == {i \in Items : r.outcome[i] \in {"succeeded", "failed"}}

\* RowFollowsStatus, ItemsAgree and ArtifactAgrees of one batch.
RowOf(r) ==
    /\ (r.status \in {"running", "cancelling"}) <=> (r.row # "none")
    /\ r.pinned <=> (r.row # "none")
    /\ r.open # {} => r.row = "running"
ItemsOf(r) ==
    /\ r.completed = Cardinality(DecidedItems(r))
    /\ \A i \in Items :
         IF r.outcome[i] = "none"
         THEN r.run[i].status = IF r.row = "none" THEN "queued" ELSE "running"
         ELSE r.run[i].status \in {r.outcome[i], "deleted"}
    /\ r.status \in Final => Incomplete(r) = {}
ArtifactOf(r) ==
    IF r.status \in Final THEN ~r.artifact ELSE r.artifact <=> (r.shared = "succeeded")

\* Only a sweep has a shared task, and what is open was counted.
TasksOf(r) ==
    /\ r.kind # "strategy_sweep" => r.shared = "none" /\ Shared \notin r.open
    /\ Shared \in r.open => r.shared = "running"
    /\ \A t \in r.open : r.used[t] >= 1

\* Beyond the first MaxTaskAttempts, a claim follows one that used an attempt of a task.
SpentOf(r) ==
    /\ r.status = "queued" => r.fence < MaxTaskAttempts + Cardinality(Spent(r))
    /\ r.status = "running" => r.fence <= MaxTaskAttempts + Cardinality(Spent(r))
    /\ r.fence <= MaxTaskAttempts + Cardinality(Spent(r)) + 1

Sound(r) == RowOf(r) /\ ItemsOf(r) /\ ArtifactOf(r) /\ TasksOf(r)
RowInv(r) == r \in BatchRows /\ Sound(r) /\ SpentOf(r)

\* Nothing is decided of a batch that was not admitted.
NothingEarly ==
    \A b \in Batches : batch[b].status = "none" => batch[b].outcome = [i \in Items |-> "none"]

BatchInv ==
    /\ TypeOK
    /\ \A b \in Batches : RowInv(batch[b])
    /\ WorkingChildOwnsRow
    /\ NothingEarly

-----------------------------------------------------------------------------
(* Sets of items and of attempts *)

LEMMA FiniteItems ==
    /\ IsFiniteSet(Items) /\ Cardinality(Items) = NItems
    /\ \A S \in SUBSET Items : IsFiniteSet(S) /\ Cardinality(S) \in 0..NItems
                               /\ (Cardinality(S) = NItems => S = Items)
<1>1. IsFiniteSet(Items) /\ Cardinality(Items) = NItems
  BY FS_Interval DEF Items
<1>2. ASSUME NEW S \in SUBSET Items
      PROVE  IsFiniteSet(S) /\ Cardinality(S) \in 0..NItems
             /\ (Cardinality(S) = NItems => S = Items)
  <2>1. IsFiniteSet(S) /\ Cardinality(S) <= NItems /\ (Cardinality(S) = NItems => S = Items)
    BY <1>1, FS_Subset
  <2> QED BY <2>1, FS_CardinalityType
<1> QED BY <1>1, <1>2

LEMMA FiniteSpent ==
    ASSUME NEW r \in BatchRows
    PROVE  /\ IsFiniteSet(Spent(r)) /\ Cardinality(Spent(r)) \in Nat
           /\ Cardinality(Spent(r)) <= MaxTaskAttempts * Cardinality(Tasks)
<1>1. IsFiniteSet(Tasks) /\ Cardinality(Tasks) \in Nat
  <2>1. IsFiniteSet(Items)
    BY FiniteItems
  <2>2. IsFiniteSet({Shared})
    BY FS_Singleton
  <2> QED BY <2>1, <2>2, FS_Union, FS_CardinalityType DEF Tasks
<1>2. IsFiniteSet(1..MaxTaskAttempts) /\ Cardinality(1..MaxTaskAttempts) = MaxTaskAttempts
  BY FS_Interval
<1> DEFINE P == Tasks \X (1..MaxTaskAttempts)
<1>3. IsFiniteSet(P) /\ Cardinality(P) = Cardinality(Tasks) * Cardinality(1..MaxTaskAttempts)
  BY <1>1, <1>2, FS_Product
<1>4. Spent(r) \subseteq P
  BY DEF Spent
<1>5. IsFiniteSet(Spent(r)) /\ Cardinality(Spent(r)) <= Cardinality(P)
  BY <1>3, <1>4, FS_Subset
<1>6. \A m, n \in Nat : m * n = n * m
  OBVIOUS
<1>7. Cardinality(P) = MaxTaskAttempts * Cardinality(Tasks)
  BY <1>1, <1>2, <1>3, <1>6
<1> QED BY <1>5, <1>7, FS_CardinalityType

LEMMA SpentGrows ==
    ASSUME NEW r \in BatchRows, NEW s \in BatchRows, Spent(r) \subseteq Spent(s)
    PROVE  Cardinality(Spent(r)) <= Cardinality(Spent(s))
BY FiniteSpent, FS_Subset

LEMMA SpentMore ==
    ASSUME NEW r \in BatchRows, NEW s \in BatchRows, Spent(r) \subseteq Spent(s),
           NEW p \in Spent(s), p \notin Spent(r)
    PROVE  Cardinality(Spent(r)) < Cardinality(Spent(s))
<1>1. IsFiniteSet(Spent(s)) /\ IsFiniteSet(Spent(r)) /\ Spent(r) # Spent(s)
  BY FiniteSpent
<1>2. Cardinality(Spent(r)) <= Cardinality(Spent(s))
  BY SpentGrows
<1>3. Cardinality(Spent(r)) # Cardinality(Spent(s))
  BY <1>1, FS_Subset
<1> QED BY <1>2, <1>3, FiniteSpent

-----------------------------------------------------------------------------
(* What the shared changes do to the fields of a row *)

\* The fields a change leaves alone.
SameIdentity(r, s) == s.fence = r.fence /\ s.kind = r.kind /\ s.attempts = r.attempts /\ s.used = r.used
SameRow(r, s) ==
    /\ s.row = r.row /\ s.lease = r.lease /\ s.exited = r.exited /\ s.acked = r.acked
    /\ s.open = r.open /\ s.pinned = r.pinned
SameItems(r, s) == s.outcome = r.outcome /\ s.run = r.run /\ s.completed = r.completed
SameRest(r, s) ==
    /\ s.status = r.status /\ s.shared = r.shared /\ s.artifact = r.artifact
    /\ s.retained = r.retained

LEMMA TransitionFields ==
    ASSUME NEW r \in BatchRows, NEW to \in {"queued", "cancelled"}
    PROVE  LET s == Transition(r, to) IN
           /\ s \in BatchRows
           /\ SameIdentity(r, s) /\ SameRow(r, s) /\ SameRest(r, s)
           /\ s.outcome = r.outcome /\ s.completed = r.completed
           /\ \A i \in Items : IF r.outcome[i] = "none" THEN s.run[i].status = to
                               ELSE s.run[i] = r.run[i]
<1> DEFINE runs == [i \in Items |->
               IF i \notin Incomplete(r) THEN r.run[i]
               ELSE [status |-> to,
                     fence |-> r.run[i].fence + (IF r.run[i].status = "running" THEN 1 ELSE 0)]]
<1>1. r.run \in [Items -> [status : {"queued", "running", "succeeded", "failed", "cancelled",
                                     "deleted"}, fence : Nat]]
  BY DEF BatchRows
<1>2. runs \in [Items -> [status : {"queued", "running", "succeeded", "failed", "cancelled",
                                    "deleted"}, fence : Nat]]
  BY <1>1
<1>3. Transition(r, to) = [r EXCEPT !.run = runs]
  BY DEF Transition
<1>4. \A i \in Items : IF r.outcome[i] = "none" THEN runs[i].status = to
                       ELSE runs[i] = r.run[i]
  BY DEF Incomplete
<1> HIDE DEF runs
<1> QED BY <1>2, <1>3, <1>4, SMTT(30) DEF BatchRows, SameIdentity, SameRow, SameRest

LEMMA DecidedMore ==
    ASSUME NEW r \in BatchRows, NEW S \in SUBSET Incomplete(r), NEW s,
           \A i \in Items : IF i \in S THEN s.outcome[i] \in {"succeeded", "failed"}
                            ELSE s.outcome[i] = r.outcome[i]
    PROVE  /\ Cardinality(DecidedItems(s)) = Cardinality(DecidedItems(r)) + Cardinality(S)
           /\ Cardinality(DecidedItems(s)) \in 0..NItems
<1>1. S \in SUBSET Items /\ DecidedItems(r) \in SUBSET Items /\ DecidedItems(s) \in SUBSET Items
  BY DEF Incomplete, DecidedItems
<1>2. DecidedItems(s) = DecidedItems(r) \cup S /\ DecidedItems(r) \cap S = {}
  BY <1>1 DEF Incomplete, DecidedItems
<1>3. IsFiniteSet(S) /\ IsFiniteSet(DecidedItems(r)) /\ Cardinality(DecidedItems(s)) \in 0..NItems
      /\ Cardinality(S) \in 0..NItems /\ Cardinality(DecidedItems(r)) \in 0..NItems
  BY <1>1, FiniteItems
<1>4. Cardinality(DecidedItems(r) \cup S) =
        Cardinality(DecidedItems(r)) + Cardinality(S) - Cardinality(DecidedItems(r) \cap S)
  BY <1>3, FS_Union
<1>5. Cardinality(DecidedItems(r) \cap S) = 0
  BY <1>2, FS_EmptySet
<1> QED BY <1>2, <1>3, <1>4, <1>5

LEMMA FailRecoveredFields ==
    ASSUME NEW r \in BatchRows, r.completed = Cardinality(DecidedItems(r)),
           NEW S \in SUBSET Incomplete(r)
    PROVE  LET s == FailRecovered(r, S) IN
           /\ s \in BatchRows
           /\ SameIdentity(r, s) /\ SameRow(r, s) /\ SameRest(r, s)
           /\ s.completed = Cardinality(DecidedItems(s))
           /\ \A i \in Items :
                IF i \in S THEN s.outcome[i] = "failed" /\ s.run[i].status = "failed"
                ELSE s.outcome[i] = r.outcome[i] /\ s.run[i] = r.run[i]
<1> DEFINE outs == [i \in Items |-> IF i \in S THEN "failed" ELSE r.outcome[i]]
           runs == [i \in Items |-> IF i \in S THEN [r.run[i] EXCEPT !.status = "failed"]
                                    ELSE r.run[i]]
           done == r.completed + Cardinality(S)
           s == FailRecovered(r, S)
<1>1. r.run \in [Items -> [status : {"queued", "running", "succeeded", "failed", "cancelled",
                                     "deleted"}, fence : Nat]]
      /\ r.outcome \in [Items -> {"none", "succeeded", "failed", "cancelled"}]
  BY DEF BatchRows
<1>2. /\ runs \in [Items -> [status : {"queued", "running", "succeeded", "failed", "cancelled",
                                       "deleted"}, fence : Nat]]
      /\ outs \in [Items -> {"none", "succeeded", "failed", "cancelled"}]
  BY <1>1
<1>3. /\ \A i \in S : runs[i].status = "failed" /\ outs[i] = "failed"
      /\ \A i \in Items \ S : runs[i] = r.run[i] /\ outs[i] = r.outcome[i]
  BY <1>1 DEF Incomplete
<1>4. s = [r EXCEPT !.outcome = outs, !.run = runs, !.completed = done]
  BY DEF FailRecovered
<1> HIDE DEF runs, outs, done, s
<1>5. s.outcome = outs /\ s.run = runs /\ s.completed = done
      /\ SameIdentity(r, s) /\ SameRow(r, s) /\ SameRest(r, s)
  BY <1>4 DEF BatchRows, SameIdentity, SameRow, SameRest
<1>6. \A i \in Items : IF i \in S THEN s.outcome[i] \in {"succeeded", "failed"}
                       ELSE s.outcome[i] = r.outcome[i]
  BY <1>3, <1>5
<1>7. done = Cardinality(DecidedItems(s)) /\ done \in 0..NItems
  BY <1>6, DecidedMore DEF done
<1>8. s \in BatchRows
  BY <1>2, <1>4, <1>7 DEF BatchRows
<1> QED BY <1>3, <1>5, <1>7, <1>8 DEF s

LEMMA RowClosedFields ==
    ASSUME NEW r \in BatchRows
    PROVE  LET s == RowClosed(r) IN
           /\ s \in BatchRows
           /\ SameIdentity(r, s) /\ SameItems(r, s) /\ SameRest(r, s)
           /\ s.row = "none" /\ s.open = {} /\ ~s.pinned
BY DEF RowClosed, BatchRows, SameIdentity, SameItems, SameRest

LEMMA ReleaseArtifactFields ==
    ASSUME NEW r \in BatchRows
    PROVE  LET s == ReleaseArtifact(r) IN
           /\ s \in BatchRows
           /\ SameIdentity(r, s) /\ SameItems(r, s) /\ SameRow(r, s)
           /\ s.status = r.status /\ s.shared = r.shared /\ s.retained = r.retained
           /\ ~s.artifact
BY DEF ReleaseArtifact, BatchRows, SameIdentity, SameItems, SameRow

LEMMA FailuresIncomplete ==
    ASSUME NEW r \in BatchRows, NEW why
    PROVE  Failures(r, why) \in SUBSET Incomplete(r)
BY DEF Failures, FactorFailures, SweepFailures, BatchRows

\* With no task open, an attempt that is not tried again fails everything.
LEMMA FailuresAll ==
    ASSUME NEW r \in BatchRows, NEW why, r.open = {}, Exhausted(why, r.fence)
    PROVE  Failures(r, why) = Incomplete(r)
BY DEF Failures, FactorFailures, SweepFailures, RetryOrdinal

LEMMA ReopenedValues ==
    ASSUME NEW r \in BatchRows
    PROVE  /\ Reopened(r) \in {"queued"} \cup Final
           /\ Reopened(r) = "queued" <=> Incomplete(r) # {}
           /\ TerminalStatus(r) \in Final
BY DEF Reopened, TerminalStatus, Final

\* An attempt or starting claim that is over: its row is gone, some items have failed, and
\* the batch is queued again or has its verdict.
Closes(r, s) ==
    /\ SameIdentity(r, s) /\ s.row = "none" /\ s.open = {}
    /\ \A i \in Items : IF r.outcome[i] = "none" THEN s.outcome[i] \in {"none", "failed"}
                        ELSE s.outcome[i] = r.outcome[i]
    /\ s.status = "queued" \/ (Incomplete(s) = {} /\ s.status = TerminalStatus(s))

LEMMA AttemptClosedRow ==
    ASSUME NEW r \in BatchRows, Sound(r), r.status = "running", r.row = "running",
           NEW why
    PROVE  LET s == AttemptClosed(r, why) IN
           /\ s \in BatchRows /\ Sound(s) /\ Closes(r, s)
           /\ s.status = "queued" => r.open # {} \/ r.fence < MaxTaskAttempts
<1> DEFINE reset == Transition(r, "queued")
           S == Failures(r, why)
           failed == FailRecovered(reset, S)
           shared == IF r.kind = "strategy_sweep"
                     THEN [failed EXCEPT !.shared = SharedAfter(r, why)] ELSE failed
           status == Reopened(failed)
           verdict == [shared EXCEPT !.status = status]
           closed == RowClosed(verdict)
           s == IF r.kind = "strategy_sweep" /\ status # "queued" THEN ReleaseArtifact(closed)
                ELSE closed
<1>0. AttemptClosed(r, why) = s
  BY DEF AttemptClosed
<1>1. /\ reset \in BatchRows
      /\ SameIdentity(r, reset) /\ SameRow(r, reset) /\ SameRest(r, reset)
      /\ reset.outcome = r.outcome /\ reset.completed = r.completed
      /\ \A i \in Items : IF r.outcome[i] = "none" THEN reset.run[i].status = "queued"
                          ELSE reset.run[i] = r.run[i]
  BY TransitionFields
<1> HIDE DEF reset
<1>2. Incomplete(reset) = Incomplete(r) /\ DecidedItems(reset) = DecidedItems(r)
  BY <1>1 DEF Incomplete, DecidedItems
<1>3. S \in SUBSET Incomplete(reset) /\ reset.completed = Cardinality(DecidedItems(reset))
  BY <1>1, <1>2, FailuresIncomplete DEF Sound, ItemsOf
<1>4. /\ failed \in BatchRows
      /\ SameIdentity(reset, failed) /\ SameRow(reset, failed) /\ SameRest(reset, failed)
      /\ failed.completed = Cardinality(DecidedItems(failed))
      /\ \A i \in Items :
           IF i \in S THEN failed.outcome[i] = "failed" /\ failed.run[i].status = "failed"
           ELSE failed.outcome[i] = reset.outcome[i] /\ failed.run[i] = reset.run[i]
  BY <1>1, <1>3, FailRecoveredFields
<1> HIDE DEF failed, S
<1>5. /\ status \in {"queued"} \cup Final /\ (status = "queued" <=> Incomplete(failed) # {})
  BY <1>4, ReopenedValues
<1>6. /\ SharedAfter(r, why) \in {"none", "pending", "running", "succeeded", "failed", "cancelled"}
      /\ SharedAfter(r, why) = "succeeded" <=> r.shared = "succeeded"
  BY DEF SharedAfter, BatchRows, Sound, TasksOf
<1> DEFINE after == IF r.kind = "strategy_sweep" THEN SharedAfter(r, why) ELSE failed.shared
<1>7. verdict = [failed EXCEPT !.shared = after, !.status = status]
  BY <1>4 DEF BatchRows
<1>8. after \in {"none", "pending", "running", "succeeded", "failed", "cancelled"}
      /\ (after = "succeeded" <=> r.shared = "succeeded")
      /\ (r.kind # "strategy_sweep" => after = r.shared)
  BY <1>1, <1>4, <1>6 DEF BatchRows, SameRest
<1> HIDE DEF status, after, verdict
<1>9. /\ verdict \in BatchRows
      /\ SameIdentity(failed, verdict) /\ SameRow(failed, verdict) /\ SameItems(failed, verdict)
      /\ verdict.status = status /\ verdict.shared = after /\ verdict.artifact = failed.artifact
  BY <1>4, <1>5, <1>7, <1>8, ZenonT(30) DEF BatchRows, SameIdentity, SameRow, SameItems, Final
<1>10. /\ closed \in BatchRows
       /\ SameIdentity(verdict, closed) /\ SameItems(verdict, closed) /\ SameRest(verdict, closed)
       /\ closed.row = "none" /\ closed.open = {} /\ ~closed.pinned
  BY <1>9, RowClosedFields
<1> HIDE DEF closed
<1>11. /\ s \in BatchRows
       /\ SameIdentity(closed, s) /\ SameItems(closed, s) /\ SameRow(closed, s)
       /\ s.status = status /\ s.shared = after
       /\ IF r.kind = "strategy_sweep" /\ status # "queued" THEN ~s.artifact
          ELSE s.artifact = r.artifact
  <2>1. closed.status = status /\ closed.shared = after /\ closed.artifact = r.artifact
    BY <1>1, <1>4, <1>9, <1>10 DEF SameRest
  <2>2. CASE r.kind = "strategy_sweep" /\ status # "queued"
    BY <1>10, <2>1, <2>2, ReleaseArtifactFields
  <2>3. CASE ~(r.kind = "strategy_sweep" /\ status # "queued")
    BY <1>10, <2>1, <2>3 DEF SameIdentity, SameItems, SameRow
  <2> QED BY <2>2, <2>3
<1> HIDE DEF s
<1>12. SameIdentity(r, s) /\ s.row = "none" /\ s.open = {} /\ ~s.pinned
       /\ s.outcome = failed.outcome /\ s.run = failed.run /\ s.completed = failed.completed
  BY <1>1, <1>4, <1>9, <1>10, <1>11 DEF SameIdentity, SameItems, SameRow
<1>13. Incomplete(s) = Incomplete(failed) /\ DecidedItems(s) = DecidedItems(failed)
       /\ (status = "queued" \/ status = TerminalStatus(s))
  BY <1>12 DEF Incomplete, DecidedItems, Reopened, TerminalStatus, status
<1>14. RowOf(s)
  BY <1>5, <1>11, <1>12 DEF RowOf, Final
<1>15. ItemsOf(s)
  <2>1. s.completed = Cardinality(DecidedItems(s)) /\ (s.status \in Final => Incomplete(s) = {})
    BY <1>4, <1>5, <1>11, <1>12, <1>13 DEF Final
  <2>2. ASSUME NEW i \in Items
        PROVE  IF s.outcome[i] = "none" THEN s.run[i].status = "queued"
               ELSE s.run[i].status \in {s.outcome[i], "deleted"}
    BY <1>1, <1>3, <1>4, <1>12 DEF Sound, ItemsOf, Incomplete
  <2> QED BY <1>12, <2>1, <2>2 DEF ItemsOf
<1>16. ArtifactOf(s)
  BY <1>5, <1>8, <1>11 DEF ArtifactOf, Sound, TasksOf, Final
<1>17. TasksOf(s)
  BY <1>8, <1>11, <1>12 DEF TasksOf, Sound, SameIdentity
<1>18. ASSUME NEW i \in Items
       PROVE  IF r.outcome[i] = "none" THEN s.outcome[i] \in {"none", "failed"}
              ELSE s.outcome[i] = r.outcome[i]
  BY <1>1, <1>3, <1>4, <1>12 DEF Incomplete
<1>19. ASSUME s.status = "queued", r.open = {}, ~(r.fence < MaxTaskAttempts)
       PROVE  FALSE
  <2>1. S = Incomplete(r)
    BY <1>19, FailuresAll DEF Exhausted, BatchRows, S
  <2>2. Incomplete(failed) = {}
    BY <1>1, <1>2, <1>3, <1>4, <2>1 DEF Incomplete
  <2> QED BY <1>5, <1>11, <1>19, <2>2
<1>20. Sound(s)
  BY <1>14, <1>15, <1>16, <1>17 DEF Sound
<1>21. Closes(r, s)
  BY <1>5, <1>11, <1>12, <1>13, <1>18 DEF Closes
<1>22. s.status = "queued" => r.open # {} \/ r.fence < MaxTaskAttempts
  BY <1>19
<1> QED BY <1>0, <1>11, <1>20, <1>21, <1>22

LEMMA StartingClosedRow ==
    ASSUME NEW r \in BatchRows, Sound(r), r.status = "running", r.row = "starting",
           NEW why
    PROVE  LET s == StartingClosed(r, why) IN
           /\ s \in BatchRows /\ Sound(s) /\ Closes(r, s)
           /\ s.status = "queued" => r.fence < MaxTaskAttempts
<1> DEFINE reset == Transition(r, "queued")
           over == Exhausted(why, r.fence)
           S == IF over THEN Incomplete(r) ELSE {}
           failed == IF over THEN FailRecovered(reset, Incomplete(r)) ELSE reset
           status == IF over THEN TerminalStatus(failed) ELSE "queued"
           verdict == [failed EXCEPT !.status = status]
           closed == RowClosed(verdict)
           s == IF over /\ r.kind = "strategy_sweep" THEN ReleaseArtifact(closed) ELSE closed
<1>0. StartingClosed(r, why) = s
  BY DEF StartingClosed
<1>1. /\ reset \in BatchRows
      /\ SameIdentity(r, reset) /\ SameRow(r, reset) /\ SameRest(r, reset)
      /\ reset.outcome = r.outcome /\ reset.completed = r.completed
      /\ \A i \in Items : IF r.outcome[i] = "none" THEN reset.run[i].status = "queued"
                          ELSE reset.run[i] = r.run[i]
  BY TransitionFields
<1> HIDE DEF reset
<1>2. Incomplete(reset) = Incomplete(r) /\ DecidedItems(reset) = DecidedItems(r)
  BY <1>1 DEF Incomplete, DecidedItems
<1>3. S \in SUBSET Incomplete(reset) /\ reset.completed = Cardinality(DecidedItems(reset))
  BY <1>1, <1>2 DEF Sound, ItemsOf
<1>4. /\ failed \in BatchRows
      /\ SameIdentity(reset, failed) /\ SameRow(reset, failed) /\ SameRest(reset, failed)
      /\ failed.completed = Cardinality(DecidedItems(failed))
      /\ \A i \in Items :
           IF i \in S THEN failed.outcome[i] = "failed" /\ failed.run[i].status = "failed"
           ELSE failed.outcome[i] = reset.outcome[i] /\ failed.run[i] = reset.run[i]
  <2>1. CASE over
    BY <1>1, <1>2, <1>3, <2>1, FailRecoveredFields
  <2>2. CASE ~over
    BY <1>1, <1>3, <2>2 DEF SameIdentity, SameRow, SameRest
  <2> QED BY <2>1, <2>2
<1> HIDE DEF failed
<1>5. Incomplete(failed) = IF over THEN {} ELSE Incomplete(r)
  BY <1>1, <1>4 DEF Incomplete
<1>6. /\ status \in {"queued"} \cup Final /\ (status = "queued" <=> ~over)
      /\ over => status = TerminalStatus(failed)
  BY <1>4, ReopenedValues DEF Final
<1> HIDE DEF status, S, over
<1>7. /\ verdict \in BatchRows
      /\ SameIdentity(failed, verdict) /\ SameRow(failed, verdict) /\ SameItems(failed, verdict)
      /\ verdict.status = status /\ verdict.shared = failed.shared
      /\ verdict.artifact = failed.artifact
  BY <1>4, <1>6 DEF BatchRows, SameIdentity, SameRow, SameItems, Final
<1> HIDE DEF verdict
<1>8. /\ closed \in BatchRows
      /\ SameIdentity(verdict, closed) /\ SameItems(verdict, closed) /\ SameRest(verdict, closed)
      /\ closed.row = "none" /\ closed.open = {} /\ ~closed.pinned
  BY <1>7, RowClosedFields
<1> HIDE DEF closed
<1>9. /\ s \in BatchRows
      /\ SameIdentity(closed, s) /\ SameItems(closed, s) /\ SameRow(closed, s)
      /\ s.status = status /\ s.shared = r.shared
      /\ IF over /\ r.kind = "strategy_sweep" THEN ~s.artifact ELSE s.artifact = r.artifact
  <2>1. closed.status = status /\ closed.shared = r.shared /\ closed.artifact = r.artifact
    BY <1>1, <1>4, <1>7, <1>8 DEF SameRest
  <2>2. CASE over /\ r.kind = "strategy_sweep"
    BY <1>8, <2>1, <2>2, ReleaseArtifactFields
  <2>3. CASE ~(over /\ r.kind = "strategy_sweep")
    BY <1>8, <2>1, <2>3 DEF SameIdentity, SameItems, SameRow
  <2> QED BY <2>2, <2>3
<1> HIDE DEF s
<1>10. SameIdentity(r, s) /\ s.row = "none" /\ s.open = {} /\ ~s.pinned
       /\ s.outcome = failed.outcome /\ s.run = failed.run /\ s.completed = failed.completed
  BY <1>1, <1>4, <1>7, <1>8, <1>9 DEF SameIdentity, SameItems, SameRow
<1>11. Incomplete(s) = Incomplete(failed) /\ DecidedItems(s) = DecidedItems(failed)
       /\ (over => status = TerminalStatus(s))
  BY <1>6, <1>10 DEF Incomplete, DecidedItems, TerminalStatus
<1>12. RowOf(s)
  BY <1>6, <1>9, <1>10 DEF RowOf, Final
<1>13. ItemsOf(s)
  <2>1. s.completed = Cardinality(DecidedItems(s)) /\ (s.status \in Final => Incomplete(s) = {})
    BY <1>4, <1>5, <1>6, <1>9, <1>10, <1>11 DEF Final
  <2>2. ASSUME NEW i \in Items
        PROVE  IF s.outcome[i] = "none" THEN s.run[i].status = "queued"
               ELSE s.run[i].status \in {s.outcome[i], "deleted"}
    BY <1>1, <1>3, <1>4, <1>10 DEF Sound, ItemsOf, Incomplete
  <2> QED BY <1>10, <2>1, <2>2 DEF ItemsOf
<1>14. ArtifactOf(s)
  BY <1>6, <1>9 DEF ArtifactOf, Sound, TasksOf, Final
<1>15. TasksOf(s)
  BY <1>9, <1>10 DEF TasksOf, Sound, SameIdentity
<1>16. ASSUME NEW i \in Items
       PROVE  IF r.outcome[i] = "none" THEN s.outcome[i] \in {"none", "failed"}
              ELSE s.outcome[i] = r.outcome[i]
  BY <1>1, <1>3, <1>4, <1>10 DEF Incomplete
<1>17. s.status = "queued" => r.fence < MaxTaskAttempts
  BY <1>6, <1>9 DEF over, Exhausted, BatchRows
<1>18. Sound(s)
  BY <1>12, <1>13, <1>14, <1>15 DEF Sound
<1>19. Closes(r, s)
  BY <1>5, <1>6, <1>9, <1>10, <1>11, <1>16 DEF Closes
<1> QED BY <1>0, <1>9, <1>17, <1>18, <1>19

\* Everything that was undecided is cancelled and nothing is left open.
Cancels(r, s) ==
    /\ SameIdentity(r, s) /\ s.row = "none" /\ s.open = {} /\ s.status = "cancelled"
    /\ \A i \in Items : s.outcome[i] = IF r.outcome[i] = "none" THEN "cancelled" ELSE r.outcome[i]

LEMMA CancelledRow ==
    ASSUME NEW r \in BatchRows, Sound(r)
    PROVE  LET s == Cancelled(r) IN s \in BatchRows /\ Sound(s) /\ Cancels(r, s)
<1> DEFINE reset == Transition(r, "cancelled")
           released == ReleaseArtifact(reset)
           over == RowClosed(released)
           outs == [i \in Items |-> IF i \in Incomplete(r) THEN "cancelled" ELSE r.outcome[i]]
           done == Cardinality(DecidedItems(r))
           shared == IF over.shared \in {"pending", "running"} THEN "cancelled" ELSE over.shared
           s == [over EXCEPT !.outcome = outs, !.completed = done, !.shared = shared,
                             !.retained = FALSE, !.status = "cancelled"]
<1>0. Cancelled(r) = s
  BY DEF Cancelled, DecidedItems
<1>1. /\ reset \in BatchRows
      /\ SameIdentity(r, reset) /\ SameRow(r, reset) /\ SameRest(r, reset)
      /\ reset.outcome = r.outcome /\ reset.completed = r.completed
      /\ \A i \in Items : IF r.outcome[i] = "none" THEN reset.run[i].status = "cancelled"
                          ELSE reset.run[i] = r.run[i]
  BY TransitionFields
<1> HIDE DEF reset
<1>2. /\ released \in BatchRows
      /\ SameIdentity(reset, released) /\ SameItems(reset, released) /\ SameRow(reset, released)
      /\ released.shared = reset.shared /\ ~released.artifact
  BY <1>1, ReleaseArtifactFields
<1> HIDE DEF released
<1>3. /\ over \in BatchRows
      /\ SameIdentity(released, over) /\ SameItems(released, over) /\ SameRest(released, over)
      /\ over.row = "none" /\ over.open = {} /\ ~over.pinned
  BY <1>2, RowClosedFields
<1> HIDE DEF over
<1>4. /\ SameIdentity(r, over) /\ over.run = reset.run /\ over.shared = r.shared /\ ~over.artifact
  BY <1>1, <1>2, <1>3 DEF SameIdentity, SameItems, SameRest
<1>5. /\ outs \in [Items -> {"none", "succeeded", "failed", "cancelled"}]
      /\ \A i \in Items : outs[i] = IF r.outcome[i] = "none" THEN "cancelled" ELSE r.outcome[i]
  BY DEF BatchRows, Incomplete
<1>6. done \in 0..NItems
  BY FiniteItems DEF DecidedItems
<1>7. shared \in {"none", "pending", "running", "succeeded", "failed", "cancelled"}
      /\ (r.shared = "none" => shared = "none")
  BY <1>3, <1>4 DEF BatchRows
<1> HIDE DEF outs, done, shared, s
<1>8. /\ s \in BatchRows
      /\ SameIdentity(over, s) /\ SameRow(over, s) /\ s.run = over.run /\ s.artifact = over.artifact
      /\ s.outcome = outs /\ s.completed = done /\ s.shared = shared /\ s.status = "cancelled"
  <2>1. "cancelled" \in {"none", "queued", "running", "cancelling"} \cup Final
    BY DEF Final
  <2>2. s \in BatchRows
    BY <1>3, <1>5, <1>6, <1>7, <2>1, ZenonT(30) DEF s, BatchRows
  <2> QED BY <1>3, <2>2 DEF s, BatchRows, SameIdentity, SameRow
<1>9. Cancels(r, s)
  BY <1>3, <1>4, <1>5, <1>8 DEF Cancels, SameIdentity, SameRow
<1>10. RowOf(s)
  BY <1>3, <1>8 DEF RowOf, SameRow
<1>11. ItemsOf(s)
  <2>1. DecidedItems(s) = DecidedItems(r) /\ Incomplete(s) = {}
    BY <1>5, <1>8 DEF DecidedItems, Incomplete
  <2>2. ASSUME NEW i \in Items
        PROVE  s.outcome[i] # "none" /\ s.run[i].status \in {s.outcome[i], "deleted"}
    BY <1>1, <1>4, <1>5, <1>8 DEF Sound, ItemsOf
  <2>3. s.completed = Cardinality(DecidedItems(s))
    BY <1>8, <2>1 DEF done
  <2> QED BY <2>1, <2>2, <2>3 DEF ItemsOf
<1>12. ArtifactOf(s)
  BY <1>4, <1>8 DEF ArtifactOf, Final
<1>13. TasksOf(s)
  BY <1>3, <1>4, <1>7, <1>8 DEF TasksOf, SameRow, SameIdentity, Sound
<1> QED BY <1>0, <1>8, <1>9, <1>10, <1>11, <1>12, <1>13 DEF Sound

LEMMA ClaimedRow ==
    ASSUME NEW r \in BatchRows, Sound(r), r.status = "queued"
    PROVE  LET s == Claimed(r) IN
           /\ s \in BatchRows /\ Sound(s)
           /\ s.status = "running" /\ s.row = "starting" /\ s.fence = r.fence + 1
           /\ s.outcome = r.outcome /\ s.used = r.used /\ s.open = r.open
<1> DEFINE runs == [i \in Items |-> IF i \in Incomplete(r)
                      THEN [status |-> "running", fence |-> r.run[i].fence + 1] ELSE r.run[i]]
           next == r.fence + 1
           s == Claimed(r)
<1>1. /\ r.run \in [Items -> [status : {"queued", "running", "succeeded", "failed", "cancelled",
                                        "deleted"}, fence : Nat]]
      /\ r.fence \in Nat
  BY DEF BatchRows
<1>2. /\ runs \in [Items -> [status : {"queued", "running", "succeeded", "failed", "cancelled",
                                       "deleted"}, fence : Nat]]
      /\ next \in Nat
  BY <1>1
<1>3. \A i \in Items : IF r.outcome[i] = "none" THEN runs[i].status = "running"
                       ELSE runs[i] = r.run[i]
  BY DEF Incomplete
<1>4. s = [r EXCEPT !.status = "running", !.fence = next, !.row = "starting", !.lease = "live",
                    !.pinned = TRUE, !.retained = FALSE, !.run = runs]
  BY DEF Claimed, BatchRows
<1> HIDE DEF runs, next, s
<1>5. /\ s \in BatchRows
      /\ s.status = "running" /\ s.row = "starting" /\ s.fence = next /\ s.run = runs /\ s.pinned
      /\ s.outcome = r.outcome /\ s.used = r.used /\ s.open = r.open /\ s.completed = r.completed
      /\ s.kind = r.kind /\ s.shared = r.shared /\ s.artifact = r.artifact
  BY <1>2, <1>4 DEF BatchRows
<1>6. RowOf(s)
  BY <1>5 DEF RowOf, Sound
<1>7. ItemsOf(s)
  BY <1>3, <1>5 DEF ItemsOf, Sound, DecidedItems, Incomplete, Final
<1>8. ArtifactOf(s) /\ TasksOf(s)
  BY <1>5 DEF ArtifactOf, TasksOf, Sound, Final
<1> QED BY <1>5, <1>6, <1>7, <1>8 DEF Sound, s, next

-----------------------------------------------------------------------------
(* Changes of the rows by commands, and by the transactions of a claim *)

LEMMA NoBatchRow == NoBatch \in BatchRows /\ RowInv(NoBatch)
<1>1. NoBatch \in BatchRows
  BY DEF NoBatch, BatchRows
<1>2. DecidedItems(NoBatch) = {}
  BY DEF NoBatch, DecidedItems
<1>3. Sound(NoBatch)
  BY <1>2, FS_EmptySet DEF NoBatch, Sound, RowOf, ItemsOf, ArtifactOf, TasksOf, Final
<1>4. SpentOf(NoBatch)
  BY <1>1, FiniteSpent DEF SpentOf, NoBatch
<1> QED BY <1>1, <1>3, <1>4 DEF RowInv

Admitted(k) ==
    [NoBatch EXCEPT !.status = "queued", !.kind = k, !.retained = TRUE,
                    !.shared = IF k = "strategy_sweep" THEN "pending" ELSE "none"]

LEMMA AdmittedRow ==
    ASSUME NEW k \in Kinds
    PROVE  RowInv(Admitted(k)) /\ Admitted(k).status = "queued" /\ Admitted(k).row = "none"
           /\ Admitted(k).outcome = NoBatch.outcome
<1> DEFINE s == Admitted(k)
<1>0. s \in BatchRows /\ s.status = "queued" /\ s.row = "none" /\ s.outcome = NoBatch.outcome
      /\ s.fence = 0
  BY NoBatchRow, ZenonT(30) DEF Admitted, NoBatch, BatchRows
<1>2. DecidedItems(s) = {}
  BY <1>0 DEF NoBatch, DecidedItems
<1>3. Sound(s)
  BY <1>2, FS_EmptySet DEF NoBatch, Admitted, Sound, RowOf, ItemsOf, ArtifactOf, TasksOf, Final
<1>4. SpentOf(s)
  BY <1>0, FiniteSpent DEF SpentOf
<1> QED BY <1>0, <1>3, <1>4 DEF RowInv

\* Changes of what Sound does not look at, except the status of a running batch.
LEMMA FenceMoved ==
    ASSUME NEW r \in BatchRows, Sound(r), NEW st \in {r.status, "cancelling"},
           st = r.status \/ r.status = "running"
    PROVE  LET s == [r EXCEPT !.status = st, !.fence = @ + 1] IN
           /\ s \in BatchRows /\ Sound(s)
           /\ s.status = st /\ s.row = r.row /\ s.fence = r.fence + 1 /\ s.outcome = r.outcome
           /\ s.used = r.used /\ s.open = r.open
<1> DEFINE next == r.fence + 1
           s == [r EXCEPT !.status = st, !.fence = next]
<1>1. next \in Nat /\ st \in {"none", "queued", "running", "cancelling"} \cup Final
  BY DEF BatchRows
<1> HIDE DEF next
<1>2. s \in BatchRows
  BY <1>1 DEF BatchRows
<1>3. Sound(s)
  BY DEF BatchRows, Sound, RowOf, ItemsOf, DecidedItems, Incomplete, ArtifactOf, TasksOf, Final
<1>4. /\ s.status = st /\ s.row = r.row /\ s.fence = next /\ s.outcome = r.outcome
      /\ s.used = r.used /\ s.open = r.open
  BY DEF BatchRows
<1> QED BY <1>2, <1>3, <1>4 DEF next

LEMMA DeletedRow ==
    ASSUME NEW r \in BatchRows, Sound(r), NEW i \in Items, r.outcome[i] # "none"
    PROVE  LET s == [r EXCEPT !.run[i].status = "deleted"] IN
           /\ s \in BatchRows /\ Sound(s)
           /\ s.status = r.status /\ s.row = r.row /\ s.fence = r.fence
           /\ s.outcome = r.outcome /\ s.used = r.used /\ s.open = r.open
<1> DEFINE runs == [r.run EXCEPT ![i] = [r.run[i] EXCEPT !.status = "deleted"]]
           s == [r EXCEPT !.run = runs]
<1>1. r.run \in [Items -> [status : {"queued", "running", "succeeded", "failed", "cancelled",
                                     "deleted"}, fence : Nat]]
  BY DEF BatchRows
<1>2. /\ runs \in [Items -> [status : {"queued", "running", "succeeded", "failed", "cancelled",
                                       "deleted"}, fence : Nat]]
      /\ \A j \in Items : IF j = i THEN runs[j].status = "deleted" ELSE runs[j] = r.run[j]
  BY <1>1
<1>3. [r EXCEPT !.run[i].status = "deleted"] = s
  BY DEF BatchRows
<1> HIDE DEF runs
<1>4. s \in BatchRows /\ s.run = runs
  BY <1>2 DEF BatchRows
<1>5. /\ s.status = r.status /\ s.row = r.row /\ s.fence = r.fence /\ s.completed = r.completed
      /\ s.outcome = r.outcome /\ s.used = r.used /\ s.open = r.open /\ s.pinned = r.pinned
      /\ s.kind = r.kind /\ s.shared = r.shared /\ s.artifact = r.artifact
  BY DEF BatchRows
<1> HIDE DEF s
<1>6. ItemsOf(s)
  BY <1>2, <1>4, <1>5 DEF Sound, ItemsOf, DecidedItems, Incomplete
<1>7. Sound(s)
  BY <1>5, <1>6 DEF Sound, RowOf, ArtifactOf, TasksOf
<1> QED BY <1>3, <1>4, <1>5, <1>7

\* A change within one attempt: it still has its row, and no spent attempt is given back.
Goes(r, s) ==
    /\ s.status = r.status /\ s.fence = r.fence /\ Spent(r) \subseteq Spent(s)

LEMMA SpentKept ==
    ASSUME NEW r \in BatchRows, NEW s \in BatchRows, s.used = r.used, s.open \subseteq r.open
    PROVE  Spent(r) \subseteq Spent(s)
<1> SUFFICES ASSUME NEW t \in Tasks, NEW k \in 1..MaxTaskAttempts, <<t, k>> \in Spent(r)
             PROVE  <<t, k>> \in Spent(s)
  BY DEF Spent
<1>1. r.used[t] \in Nat
  BY DEF BatchRows
<1>2. k <= r.used[t] - (IF t \in r.open THEN 1 ELSE 0)
  BY DEF Spent
<1>3. k <= s.used[t] - (IF t \in s.open THEN 1 ELSE 0)
  BY <1>1, <1>2
<1> QED BY <1>3 DEF Spent

LEMMA ActivatedRow ==
    ASSUME NEW r \in BatchRows, Sound(r), r.row = "starting", NEW f \in Nat
    PROVE  LET s == [r EXCEPT !.row = "running", !.attempts = @ \cup {f}] IN
           s \in BatchRows /\ Sound(s) /\ s.row = "running" /\ Goes(r, s) /\ s.outcome = r.outcome
<1> DEFINE more == r.attempts \cup {f}
           s == [r EXCEPT !.row = "running", !.attempts = more]
<1>1. more \in SUBSET Nat
  BY DEF BatchRows
<1> HIDE DEF more
<1>2. s \in BatchRows
  BY <1>1 DEF BatchRows
<1>3. /\ s.row = "running" /\ s.status = r.status /\ s.fence = r.fence /\ s.outcome = r.outcome
      /\ s.used = r.used /\ s.open = r.open
  BY DEF BatchRows
<1>4. Sound(s)
  BY DEF BatchRows, Sound, RowOf, ItemsOf, DecidedItems, Incomplete, ArtifactOf, TasksOf
<1> QED BY <1>2, <1>3, <1>4, SpentKept DEF more, Goes

\* Only the lease and the marks on the attempt row differ.
MarksOnly(r, s) ==
    /\ SameItems(r, s) /\ s.status = r.status /\ s.fence = r.fence /\ s.kind = r.kind
    /\ s.used = r.used /\ s.row = r.row /\ s.open = r.open /\ s.pinned = r.pinned
    /\ s.shared = r.shared /\ s.artifact = r.artifact

LEMMA MarkedRow ==
    ASSUME NEW r \in BatchRows, Sound(r), NEW s \in BatchRows, MarksOnly(r, s)
    PROVE  Sound(s) /\ Goes(r, s)
<1>1. Sound(s)
  BY DEF MarksOnly, Sound, RowOf, ItemsOf, DecidedItems, Incomplete, ArtifactOf, TasksOf, SameItems
<1> QED BY <1>1, SpentKept DEF MarksOnly, Goes

LEMMA TaskOpenedFields ==
    ASSUME NEW r \in BatchRows, NEW t \in Tasks, TaskFits(r, t)
    PROVE  LET s == TaskOpened(r, t) IN
           /\ s \in BatchRows /\ SameItems(r, s) /\ SameRest(r, s)
           /\ s.fence = r.fence /\ s.kind = r.kind /\ s.row = r.row /\ s.pinned = r.pinned
           /\ s.open = r.open \cup {t}
           /\ \A u \in Tasks :
                s.used[u] = r.used[u] + (IF u = t /\ t \notin r.open THEN 1 ELSE 0)
<1>1. r.used \in [Tasks -> 0..MaxTaskAttempts] /\ r.open \in SUBSET Tasks
  BY DEF BatchRows
<1>2. CASE t \in r.open
  <2>1. r.open = r.open \cup {t}
    BY <1>2
  <2> QED BY <1>1, <1>2, <2>1 DEF TaskOpened, SameItems, SameRest
<1>3. CASE t \notin r.open
  <2> DEFINE used == [r.used EXCEPT ![t] = r.used[t] + 1]
             open == r.open \cup {t}
             s == [r EXCEPT !.open = open, !.used = used]
  <2>1. /\ used \in [Tasks -> 0..MaxTaskAttempts] /\ open \in SUBSET Tasks
        /\ \A u \in Tasks : used[u] = r.used[u] + (IF u = t THEN 1 ELSE 0)
    BY <1>1, <1>3 DEF TaskFits
  <2>2. TaskOpened(r, t) = s
    BY <1>3 DEF TaskOpened, BatchRows
  <2> HIDE DEF used
  <2>3. /\ s \in BatchRows /\ SameItems(r, s) /\ SameRest(r, s)
        /\ s.fence = r.fence /\ s.kind = r.kind /\ s.row = r.row /\ s.pinned = r.pinned
        /\ s.open = open /\ s.used = used
    BY <2>1 DEF BatchRows, SameItems, SameRest
  <2> HIDE DEF s
  <2> QED BY <1>3, <2>1, <2>2, <2>3
<1> QED BY <1>2, <1>3

LEMMA TaskOpenedRow ==
    ASSUME NEW r \in BatchRows, Sound(r), r.row = "running", NEW t \in Tasks,
           NEW s \in BatchRows, SameItems(r, s), s.status = r.status, s.artifact = r.artifact,
           s.fence = r.fence, s.kind = r.kind, s.row = r.row, s.pinned = r.pinned,
           s.open = r.open \cup {t},
           \A u \in Tasks : s.used[u] = r.used[u] + (IF u = t /\ t \notin r.open THEN 1 ELSE 0),
           IF t = Shared
           THEN r.kind = "strategy_sweep" /\ r.shared = "pending" /\ s.shared = "running"
           ELSE s.shared = r.shared
    PROVE  Sound(s) /\ Goes(r, s)
<1>1. r.used \in [Tasks -> 0..MaxTaskAttempts] /\ r.open \in SUBSET Tasks
  BY DEF BatchRows
<1>2. RowOf(s) /\ ItemsOf(s)
  BY DEF Sound, RowOf, ItemsOf, DecidedItems, Incomplete, SameItems
<1>3. ArtifactOf(s)
  BY DEF Sound, ArtifactOf, TasksOf
<1>4. ASSUME NEW u \in s.open PROVE s.used[u] >= 1
  <2>1. r.used[u] \in Nat /\ (u \in r.open => r.used[u] >= 1)
    BY <1>1 DEF Sound, TasksOf
  <2> QED BY <1>1, <2>1
<1>5. TasksOf(s)
  BY <1>4 DEF Sound, TasksOf
<1>6. ASSUME NEW u \in Tasks, NEW k \in 1..MaxTaskAttempts, <<u, k>> \in Spent(r)
       PROVE  <<u, k>> \in Spent(s)
  <2>1. r.used[u] \in Nat /\ k <= r.used[u] - (IF u \in r.open THEN 1 ELSE 0)
    BY <1>1, <1>6 DEF Spent
  <2>2. k <= s.used[u] - (IF u \in s.open THEN 1 ELSE 0)
    BY <2>1
  <2> QED BY <2>2 DEF Spent
<1>7. Spent(r) \subseteq Spent(s)
  BY <1>6 DEF Spent
<1> QED BY <1>2, <1>3, <1>5, <1>7 DEF Sound, Goes

\* The shared task of a sweep: taken over, done, or failed.
LEMMA SharedRow ==
    ASSUME NEW r \in BatchRows, Sound(r), r.row = "running", r.status = "running",
           r.kind = "strategy_sweep",
           NEW s \in BatchRows, SameIdentity(r, s), SameItems(r, s),
           s.status = r.status, s.row = r.row, s.pinned = r.pinned,
           s.open \subseteq r.open, Shared \in s.open => s.shared = "running",
           s.artifact <=> s.shared = "succeeded"
    PROVE  Sound(s) /\ Goes(r, s)
<1>1. RowOf(s) /\ ItemsOf(s)
  BY DEF Sound, RowOf, ItemsOf, DecidedItems, Incomplete, SameItems
<1>2. ArtifactOf(s) /\ TasksOf(s)
  BY DEF Sound, ArtifactOf, TasksOf, Final, SameIdentity
<1> QED BY <1>1, <1>2, SpentKept DEF Sound, Goes, SameIdentity

LEMMA ItemCompletedRow ==
    ASSUME NEW r \in BatchRows, Sound(r), r.row = "running", r.status = "running",
           NEW i \in Items, r.outcome[i] = "none", NEW o \in {"succeeded", "failed"}
    PROVE  LET s == ItemCompleted(r, i, o) IN
           /\ s \in BatchRows /\ Sound(s) /\ s.row = "running" /\ Goes(r, s)
           /\ \A j \in Items : s.outcome[j] = IF j = i THEN o ELSE r.outcome[j]
<1> DEFINE outs == [r.outcome EXCEPT ![i] = o]
           runs == [r.run EXCEPT ![i] = [r.run[i] EXCEPT !.status = o]]
           open == r.open \ {i}
           done == r.completed + 1
           s == [r EXCEPT !.outcome = outs, !.run = runs, !.open = open, !.completed = done]
<1>1. /\ r.run \in [Items -> [status : {"queued", "running", "succeeded", "failed", "cancelled",
                                        "deleted"}, fence : Nat]]
      /\ r.outcome \in [Items -> {"none", "succeeded", "failed", "cancelled"}]
  BY DEF BatchRows
<1>2. /\ runs \in [Items -> [status : {"queued", "running", "succeeded", "failed", "cancelled",
                                       "deleted"}, fence : Nat]]
      /\ outs \in [Items -> {"none", "succeeded", "failed", "cancelled"}]
      /\ \A j \in Items : IF j = i THEN outs[j] = o /\ runs[j].status = o
                          ELSE outs[j] = r.outcome[j] /\ runs[j] = r.run[j]
  BY <1>1
<1>3. ItemCompleted(r, i, o) = s
  BY DEF ItemCompleted, BatchRows
<1> HIDE DEF outs, runs, done
<1>4. /\ s.row = "running" /\ s.status = "running" /\ s.fence = r.fence
      /\ s.pinned = r.pinned /\ s.kind = r.kind /\ s.used = r.used
      /\ s.artifact = r.artifact /\ s.shared = r.shared
      /\ s.outcome = outs /\ s.run = runs /\ s.open = open /\ s.completed = done
  BY DEF BatchRows
<1>5. done = Cardinality(DecidedItems(s)) /\ done \in 0..NItems
  <2>1. {i} \in SUBSET Incomplete(r) /\ Cardinality({i}) = 1
    BY FS_Singleton DEF Incomplete
  <2>2. \A j \in Items : IF j \in {i} THEN s.outcome[j] \in {"succeeded", "failed"}
                         ELSE s.outcome[j] = r.outcome[j]
    BY <1>2, <1>4
  <2> HIDE DEF s
  <2>3. Cardinality(DecidedItems(s)) = Cardinality(DecidedItems(r)) + 1
        /\ Cardinality(DecidedItems(s)) \in 0..NItems
    BY <2>1, <2>2, DecidedMore
  <2> QED BY <2>3 DEF done, Sound, ItemsOf
<1>6. s \in BatchRows
  BY <1>2, <1>5 DEF BatchRows
<1> HIDE DEF s
<1>7. RowOf(s)
  BY <1>4 DEF Sound, RowOf
<1>8. ItemsOf(s)
  BY <1>2, <1>4, <1>5 DEF Sound, ItemsOf, Final
<1>9. ArtifactOf(s) /\ TasksOf(s)
  BY <1>4 DEF Sound, ArtifactOf, TasksOf, Final
<1> QED BY <1>2, <1>3, <1>4, <1>6, <1>7, <1>8, <1>9, SpentKept DEF Sound, Goes

LEMMA FinishedRow ==
    ASSUME NEW r \in BatchRows, Sound(r), r.completed = NItems
    PROVE  LET s == RowClosed([ReleaseArtifact(r) EXCEPT !.status = TerminalStatus(r)]) IN
           s \in BatchRows /\ Sound(s) /\ Closes(r, s) /\ s.status # "queued"
<1> DEFINE released == ReleaseArtifact(r)
           status == TerminalStatus(r)
           verdict == [released EXCEPT !.status = status]
           s == RowClosed(verdict)
<1>1. /\ released \in BatchRows
      /\ SameIdentity(r, released) /\ SameItems(r, released) /\ SameRow(r, released)
      /\ released.shared = r.shared /\ ~released.artifact
  BY ReleaseArtifactFields
<1>2. status \in Final
  BY ReopenedValues
<1> HIDE DEF released, status
<1>3. /\ verdict \in BatchRows
      /\ SameIdentity(released, verdict) /\ SameItems(released, verdict)
      /\ verdict.status = status /\ verdict.shared = released.shared
      /\ verdict.artifact = released.artifact
  BY <1>1, <1>2, ZenonT(30) DEF BatchRows, SameIdentity, SameItems
<1> HIDE DEF verdict
<1>4. /\ s \in BatchRows
      /\ SameIdentity(verdict, s) /\ SameItems(verdict, s) /\ SameRest(verdict, s)
      /\ s.row = "none" /\ s.open = {} /\ ~s.pinned
  BY <1>3, RowClosedFields
<1> HIDE DEF s
<1>5. /\ SameIdentity(r, s) /\ SameItems(r, s) /\ s.status = status /\ s.shared = r.shared
      /\ ~s.artifact
  BY <1>1, <1>3, <1>4 DEF SameIdentity, SameItems, SameRest
<1>6. DecidedItems(r) = Items
  BY FiniteItems DEF Sound, ItemsOf, DecidedItems
<1>7. Incomplete(s) = {} /\ \A i \in Items : r.outcome[i] \in {"succeeded", "failed"}
  BY <1>5, <1>6 DEF Incomplete, DecidedItems, SameItems
<1>8. RowOf(s)
  BY <1>2, <1>4, <1>5 DEF RowOf, Final
<1>9. ItemsOf(s)
  BY <1>5, <1>7 DEF ItemsOf, Sound, DecidedItems, SameItems
<1>10. ArtifactOf(s) /\ TasksOf(s)
  BY <1>2, <1>4, <1>5 DEF ArtifactOf, TasksOf, Sound, SameIdentity
<1>11. status = TerminalStatus(s)
  BY <1>5 DEF TerminalStatus, SameItems, status
<1>12. Closes(r, s) /\ s.status # "queued"
  BY <1>2, <1>4, <1>5, <1>7, <1>11 DEF Closes, SameItems, Final
<1> QED BY <1>4, <1>8, <1>9, <1>10, <1>12 DEF Sound, s, verdict, released, status

-----------------------------------------------------------------------------
(* The ways in which a step changes the rows of a batch *)

\* No child of the batch calculates.
Free(b) == \A c \in children : c.b = b => c.phase # "working"

Unchanged(r, s) == s = r

Admits(r, s) == r.status = "none" /\ \E k \in Kinds : s = Admitted(k)

Asks(r, s) ==
    /\ r.status = "running" /\ s.status = "cancelling"
    /\ s.row = r.row /\ s.fence = r.fence + 1 /\ s.outcome = r.outcome
    /\ s.used = r.used /\ s.open = r.open

Works(r, s) ==
    /\ Goes(r, s)
    /\ r.row = "running" => s.row = "running"
    /\ \/ s.outcome = r.outcome
       \/ /\ r.status = "running"
          /\ \E i \in Items, o \in {"succeeded", "failed"} :
               /\ r.outcome[i] = "none"
               /\ \A j \in Items : s.outcome[j] = IF j = i THEN o ELSE r.outcome[j]

Ends(r, s) ==
    /\ r.status = "running"
    /\ Closes(r, s)
    /\ s.status = "queued" => r.open # {} \/ r.fence < MaxTaskAttempts

Gives(r, s) ==
    /\ r.status \in {"queued", "cancelling"}
    /\ s.row = "none" /\ s.open = {} /\ s.status = "cancelled" /\ s.used = r.used
    /\ s.fence = r.fence \/ (r.status = "queued" /\ s.fence = r.fence + 1)
    /\ \A i \in Items : s.outcome[i] = IF r.outcome[i] = "none" THEN "cancelled" ELSE r.outcome[i]

Starts(r, s) ==
    \E m \in BatchRows :
       /\ Sound(m) /\ m.status = "queued" /\ (m = r \/ Ends(r, m))
       /\ s.status = "running" /\ s.row = "starting" /\ s.fence = m.fence + 1
       /\ s.outcome = m.outcome /\ s.used = m.used /\ s.open = m.open

\* Rows are given up only when no child works on them.
Way(r, s, free) ==
    \/ Unchanged(r, s) \/ Admits(r, s) \/ Asks(r, s) \/ Works(r, s)
    \/ (r.row = "none" \/ free) /\ (Ends(r, s) \/ Gives(r, s) \/ Starts(r, s))

Step(r, s, free) == s \in BatchRows /\ Sound(s) /\ Way(r, s, free)

AllStep == /\ DOMAIN batch' = Batches /\ batch' = [b \in Batches |-> batch'[b]]
           /\ \A b \in Batches : Step(batch[b], batch'[b], Free(b))

LEMMA RowTrue ==
    ASSUME BatchInv, NEW b \in Batches
    PROVE  batch[b] \in BatchRows /\ RowInv(batch[b]) /\ Sound(batch[b])
BY DEF BatchInv, RowInv

LEMMA WorkerTrue ==
    ASSUME TypeOK, NEW w \in Workers
    PROVE  worker[w].b \in Batches /\ worker[w].f \in Nat /\ worker[w].todo \in SUBSET Items
BY DEF TypeOK

LEMMA RowsKept == ASSUME BatchInv, UNCHANGED batch PROVE AllStep
BY RowTrue DEF AllStep, Step, Way, Unchanged, BatchInv, TypeOK

LEMMA RowWritten ==
    ASSUME BatchInv, NEW b \in Batches, NEW s, batch' = [batch EXCEPT ![b] = s],
           Step(batch[b], s, Free(b))
    PROVE  AllStep
<1>1. batch \in [Batches -> BatchRows]
  BY DEF BatchInv, TypeOK
<1>2. batch'[b] = s /\ \A c \in Batches \ {b} : batch'[c] = batch[c]
  BY <1>1
<1>3. \A c \in Batches \ {b} : Step(batch[c], batch'[c], Free(c))
  BY <1>2, RowTrue DEF Step, Way, Unchanged
<1>4. DOMAIN batch' = Batches /\ batch' = [c \in Batches |-> batch'[c]]
  BY <1>1
<1> QED BY <1>2, <1>3, <1>4 DEF AllStep

LEMMA ExitedFree ==
    ASSUME BatchInv, NEW b \in Batches, ChildExited(b, RowFence(batch[b]))
    PROVE  Free(b)
BY DEF BatchInv, WorkingChildOwnsRow, Free, ChildExited

LEMMA RowExitedFree ==
    ASSUME BatchInv, NEW b \in Batches, RowExited(b)
    PROVE  batch[b].row = "none" \/ Free(b)
BY ExitedFree DEF RowExited, StartingExited

LEMMA RecoveredStep ==
    ASSUME BatchInv, NEW b \in Batches, Recoverable(b)
    PROVE  LET s == Recovered(batch[b]) IN
           s \in BatchRows /\ Sound(s) /\ Ends(batch[b], s) /\ Free(b)
<1>1. batch[b] \in BatchRows /\ Sound(batch[b]) /\ batch[b].status = "running"
      /\ batch[b].row \in {"starting", "running"}
  BY RowTrue DEF Recoverable, BatchRows
<1>2. Free(b)
  BY RowExitedFree DEF Recoverable
<1>4. CASE batch[b].row = "starting"
  BY <1>1, <1>2, <1>4, StartingClosedRow DEF Recovered, Ends
<1>5. CASE batch[b].row = "running"
  BY <1>1, <1>2, <1>5, AttemptClosedRow DEF Recovered, Ends
<1> QED BY <1>1, <1>4, <1>5

-----------------------------------------------------------------------------
(* Every action changes every batch in one of these ways *)

LEMMA AdmitStep == ASSUME BatchInv, NEW b \in Batches, Admit(b) PROVE AllStep
<1>1. PICK k \in Kinds : batch' = [batch EXCEPT ![b] = Admitted(k)]
  BY DEF Admit, Admitted
<1>2. RowInv(Admitted(k)) /\ batch[b].status = "none"
  BY AdmittedRow DEF Admit
<1>3. Step(batch[b], Admitted(k), Free(b))
  BY <1>2 DEF RowInv, Step, Way, Admits
<1> QED BY <1>1, <1>3, RowWritten

LEMMA CancelQueuedStep == ASSUME BatchInv, NEW b \in Batches, CancelQueued(b) PROVE AllStep
<1> DEFINE r == batch[b]
           q == [r EXCEPT !.status = r.status, !.fence = @ + 1]
           s == Cancelled(q)
<1>1. r \in BatchRows /\ Sound(r) /\ r.status = "queued"
  BY RowTrue DEF CancelQueued
<1>2. /\ q \in BatchRows /\ Sound(q) /\ q.fence = r.fence + 1 /\ q.outcome = r.outcome
      /\ q.used = r.used /\ q.row = r.row
  BY <1>1, FenceMoved
<1>3. q = [r EXCEPT !.fence = @ + 1]
  BY <1>1 DEF BatchRows
<1>4. batch' = [batch EXCEPT ![b] = s]
  <2>1. batch' = [batch EXCEPT ![b] = Cancelled([r EXCEPT !.fence = @ + 1])]
    BY DEF CancelQueued
  <2> HIDE DEF q, r
  <2> QED BY <1>3, <2>1
<1> HIDE DEF q
<1>5. s \in BatchRows /\ Sound(s) /\ Cancels(q, s)
  BY <1>2, CancelledRow
<1> HIDE DEF s
<1>6. Gives(r, s)
  BY <1>1, <1>2, <1>5 DEF Cancels, Gives, SameIdentity
<1>7. r.row = "none"
  BY <1>1 DEF Sound, RowOf, BatchRows
<1>8. Step(r, s, Free(b))
  BY <1>5, <1>6, <1>7 DEF Step, Way
<1> QED BY <1>4, <1>8, RowWritten

LEMMA CancelRunningStep == ASSUME BatchInv, NEW b \in Batches, CancelRunning(b) PROVE AllStep
<1> DEFINE r == batch[b]
           s == [r EXCEPT !.status = "cancelling", !.fence = @ + 1]
<1>1. r \in BatchRows /\ Sound(r) /\ r.status = "running"
  BY RowTrue DEF CancelRunning
<1>2. batch' = [batch EXCEPT ![b] = s]
  BY <1>1, ZenonT(30) DEF CancelRunning, BatchInv, TypeOK, BatchRows
<1>3. /\ s \in BatchRows /\ Sound(s)
      /\ s.status = "cancelling" /\ s.row = r.row /\ s.fence = r.fence + 1 /\ s.outcome = r.outcome
      /\ s.used = r.used /\ s.open = r.open
  BY <1>1, FenceMoved
<1> HIDE DEF s
<1>4. Step(r, s, Free(b))
  BY <1>1, <1>3 DEF Step, Way, Asks
<1> QED BY <1>2, <1>4, RowWritten

LEMMA DeleteRunStep ==
    ASSUME BatchInv, NEW b \in Batches, NEW i \in Items, DeleteRun(b, i)
    PROVE  AllStep
<1> DEFINE r == batch[b]
           s == [r EXCEPT !.run[i].status = "deleted"]
<1>1. r \in BatchRows /\ Sound(r) /\ r.outcome[i] # "none"
  BY RowTrue DEF DeleteRun
<1>2. batch' = [batch EXCEPT ![b] = s]
  BY <1>1 DEF DeleteRun, BatchInv, TypeOK, BatchRows
<1>3. /\ s \in BatchRows /\ Sound(s)
      /\ s.status = r.status /\ s.row = r.row /\ s.fence = r.fence
      /\ s.outcome = r.outcome /\ s.used = r.used /\ s.open = r.open
  BY <1>1, DeletedRow
<1> HIDE DEF s
<1>4. Works(r, s)
  BY <1>1, <1>3, SpentKept DEF Works, Goes
<1>5. Step(r, s, Free(b))
  BY <1>3, <1>4 DEF Step, Way
<1> QED BY <1>2, <1>5, RowWritten

\* A cancelling batch whose row is gone with its child is settled.
LEMMA CancelledStep ==
    ASSUME BatchInv, NEW b \in Batches, batch[b].status = "cancelling", RowExited(b),
           batch' = [batch EXCEPT ![b] = Cancelled(@)]
    PROVE  AllStep
<1> DEFINE r == batch[b]
           s == Cancelled(r)
<1>1. r \in BatchRows /\ Sound(r)
  BY RowTrue
<1>2. batch' = [batch EXCEPT ![b] = s]
  BY DEF BatchInv, TypeOK
<1>3. s \in BatchRows /\ Sound(s) /\ Cancels(r, s)
  BY <1>1, CancelledRow
<1> HIDE DEF s
<1>4. Gives(r, s)
  BY <1>3 DEF Cancels, Gives, SameIdentity
<1>5. r.row = "none" \/ Free(b)
  BY RowExitedFree
<1>6. Step(r, s, Free(b))
  BY <1>3, <1>4, <1>5 DEF Step, Way
<1> QED BY <1>2, <1>6, RowWritten

LEMMA LostBatch ==
    ASSUME BatchInv, NEW b \in Batches, Recoverable(b)
    PROVE  Step(batch[b], Recovered(batch[b]), Free(b))
BY RecoveredStep DEF Step, Way

LEMMA ClaimNothingStep ==
    ASSUME BatchInv, NEW w \in Workers, ClaimNothing(w)
    PROVE  AllStep
<1>1. batch' = [b \in Batches |-> IF b \in Settled THEN Recovered(batch[b]) ELSE batch[b]]
  BY DEF ClaimNothing
<1>2. ASSUME NEW b \in Batches PROVE Step(batch[b], batch'[b], Free(b))
  <2>1. CASE b \in Settled
    BY <1>1, <2>1, LostBatch DEF Settled
  <2>2. CASE b \notin Settled
    BY <1>1, <2>2, RowTrue DEF Step, Way, Unchanged
  <2> QED BY <2>1, <2>2
<1> QED BY <1>1, <1>2 DEF AllStep

LEMMA ClaimStep ==
    ASSUME BatchInv, NEW w \in Workers, NEW b \in Batches, Claim(w, b)
    PROVE  AllStep
<1> DEFINE m == ClaimableRow(b)
           new == Claimed(m)
<1>1. PICK R \in SUBSET (Settled \ {b}) :
        batch' = [c \in Batches |-> IF c = b THEN new
                                    ELSE IF c \in R THEN Recovered(batch[c]) ELSE batch[c]]
  BY DEF Claim
<1>2. batch[b] \in BatchRows /\ Sound(batch[b])
  BY RowTrue
<1>3. /\ m \in BatchRows /\ Sound(m) /\ m.status = "queued"
      /\ m = batch[b] \/ Ends(batch[b], m)
      /\ batch[b].row = "none" \/ Free(b)
  <2>1. m.status = "queued"
    BY DEF Claim, Claimable
  <2>2. CASE Recoverable(b)
    BY <2>1, <2>2, RecoveredStep DEF ClaimableRow
  <2>3. CASE ~Recoverable(b)
    BY <1>2, <2>1, <2>3 DEF ClaimableRow, Sound, RowOf, BatchRows
  <2> QED BY <2>2, <2>3
<1> HIDE DEF m
<1>4. /\ new \in BatchRows /\ Sound(new)
      /\ new.status = "running" /\ new.row = "starting" /\ new.fence = m.fence + 1
      /\ new.outcome = m.outcome /\ new.used = m.used /\ new.open = m.open
  BY <1>3, ClaimedRow
<1> HIDE DEF new
<1>5. Starts(batch[b], new)
  BY <1>3, <1>4 DEF Starts
<1>6. Step(batch[b], new, Free(b))
  BY <1>3, <1>4, <1>5 DEF Step, Way
<1>7. ASSUME NEW c \in Batches PROVE Step(batch[c], batch'[c], Free(c))
  <2>1. CASE c = b
    BY <1>1, <1>6, <2>1
  <2>2. CASE c # b /\ c \in R
    BY <1>1, <2>2, LostBatch DEF Settled
  <2>3. CASE c # b /\ c \notin R
    BY <1>1, <2>3, RowTrue DEF Step, Way, Unchanged
  <2> QED BY <2>1, <2>2, <2>3
<1> QED BY <1>1, <1>7 DEF AllStep

LEMMA RaisesStep ==
    ASSUME BatchInv, NEW w, NEW why, Raises(w, why) PROVE AllStep
BY RowsKept DEF Raises

LEMMA RowOfWorker ==
    ASSUME BatchInv, NEW w \in Workers
    PROVE  /\ worker[w].b \in Batches /\ worker[w].f \in Nat /\ worker[w].todo \in SUBSET Items
           /\ Row(w) = batch[worker[w].b] /\ Row(w) \in BatchRows /\ Sound(Row(w))
           /\ RowInv(Row(w))
BY WorkerTrue, RowTrue DEF Row, BatchInv

\* A change of the rows within the attempt of a worker.
LEMMA WorksStep ==
    ASSUME BatchInv, NEW w \in Workers, NEW s,
           s \in BatchRows, Sound(s), Goes(Row(w), s), s.row = "running", s.outcome = Row(w).outcome,
           batch' = [batch EXCEPT ![worker[w].b] = s]
    PROVE  AllStep
<1>1. Step(Row(w), s, Free(worker[w].b))
  BY DEF Step, Way, Works
<1> QED BY <1>1, RowOfWorker, RowWritten

LEMMA TransactionStep ==
    ASSUME BatchInv, NEW w \in Workers, NEW authorized, NEW s, NEW pc,
           Transaction(w, authorized, s, pc),
           authorized => /\ s \in BatchRows /\ Sound(s)
                         /\ Goes(Row(w), s) /\ s.row = "running" /\ s.outcome = Row(w).outcome
    PROVE  AllStep
<1>1. CASE authorized
  <2>1. batch' = [batch EXCEPT ![worker[w].b] = s]
    BY <1>1 DEF Transaction
  <2> QED BY <1>1, <2>1, WorksStep
<1>2. CASE ~authorized
  BY <1>2, RaisesStep DEF Transaction
<1> QED BY <1>1, <1>2

LEMMA MaterializeStep == ASSUME BatchInv, NEW w \in Workers, Materialize(w) PROVE AllStep
BY RowsKept DEF Materialize, Raises

\* Two updates of fields of a row are one update of the row.
LEMMA RowWrittenTwice ==
    ASSUME NEW rows \in [Batches -> BatchRows], NEW b \in Batches, NEW row, NEW f
    PROVE  [rows EXCEPT ![b].row = row, ![b].attempts = @ \cup {f}]
             = [rows EXCEPT ![b] = [rows[b] EXCEPT !.row = row, !.attempts = @ \cup {f}]]
BY DEF BatchRows

LEMMA ActivateStep == ASSUME BatchInv, NEW w \in Workers, Activate(w) PROVE AllStep
<1>1. CASE StartingRow(w) /\ Row(w).lease = "live"
  <2> DEFINE r == Row(w)
             s == [r EXCEPT !.row = "running", !.attempts = @ \cup {worker[w].f}]
  <2>0. /\ batch \in [Batches -> BatchRows] /\ worker[w].b \in Batches
        /\ batch' = [batch EXCEPT ![worker[w].b].row = "running",
                                 ![worker[w].b].attempts = @ \cup {worker[w].f}]
    BY <1>1, RowOfWorker DEF Activate, BatchInv, TypeOK
  <2>1. batch' = [batch EXCEPT ![worker[w].b] = s]
    BY <2>0, RowWrittenTwice DEF Row
  <2>2. s \in BatchRows /\ Sound(s) /\ s.row = "running" /\ Goes(r, s) /\ s.outcome = r.outcome
    BY <1>1, RowOfWorker, ActivatedRow DEF StartingRow
  <2> HIDE DEF s
  <2> QED BY <2>1, <2>2, WorksStep
<1>2. CASE ~(StartingRow(w) /\ Row(w).lease = "live")
  BY <1>2, RaisesStep DEF Activate
<1> QED BY <1>1, <1>2

LEMMA StartSharedStep == ASSUME BatchInv, NEW w \in Workers, StartShared(w) PROVE AllStep
<1> DEFINE r == Row(w)
<1>0. r \in BatchRows /\ Sound(r)
  BY RowOfWorker
<1>1. CASE worker[w].reused
  <2> DEFINE shared == IF r.shared = "pending" THEN "running" ELSE r.shared
             s == [r EXCEPT !.shared = shared]
             authorized == Authorized(w) /\ r.shared \in {"pending", "succeeded"}
                             /\ (r.shared = "succeeded" => r.artifact)
  <2>1. Transaction(w, authorized, s, "sharing")
    BY <1>0, <1>1 DEF StartShared, BatchRows
  <2>3. ASSUME authorized
        PROVE  s \in BatchRows /\ Sound(s) /\ Goes(r, s) /\ s.row = "running"
               /\ s.outcome = r.outcome
    <3>1. r.row = "running" /\ r.status = "running" /\ r.shared \in {"pending", "succeeded"}
      BY <2>3 DEF Authorized, AttemptRow
    <3>2. r.kind = "strategy_sweep" /\ (Shared \in r.open => shared = "running")
          /\ (r.artifact <=> shared = "succeeded") /\ shared \in {"running", "succeeded"}
      BY <1>0, <3>1 DEF Sound, ArtifactOf, TasksOf, Final
    <3> HIDE DEF shared
    <3>3. s \in BatchRows /\ s.shared = shared /\ s.artifact = r.artifact /\ s.open = r.open
          /\ s.status = r.status /\ s.row = r.row /\ s.pinned = r.pinned
          /\ SameIdentity(r, s) /\ SameItems(r, s)
      BY <1>0, <3>2 DEF BatchRows, SameIdentity, SameItems
    <3> HIDE DEF s
    <3> QED BY <1>0, <3>1, <3>2, <3>3, SharedRow DEF SameItems
  <2> HIDE DEF s, authorized
  <2> QED BY <2>1, <2>3, TransactionStep
<1>2. CASE ~worker[w].reused
  <2> DEFINE s == [TaskOpened(r, Shared) EXCEPT !.shared = "running"]
             authorized == TaskFits(r, Shared) /\ Authorized(w) /\ r.shared = "pending"
  <2>1. Transaction(w, authorized, s, "sharing")
    BY <1>2 DEF StartShared
  <2>2. ASSUME authorized
        PROVE  s \in BatchRows /\ Sound(s) /\ Goes(r, s) /\ s.row = "running"
               /\ s.outcome = r.outcome
    <3>1. r.row = "running" /\ r.shared = "pending" /\ TaskFits(r, Shared)
      BY <2>2 DEF Authorized, AttemptRow
    <3>2. r.kind = "strategy_sweep" /\ Shared \in Tasks
      BY <1>0, <3>1 DEF Sound, TasksOf, Tasks
    <3> DEFINE opened == TaskOpened(r, Shared)
    <3>3. /\ opened \in BatchRows /\ SameItems(r, opened) /\ SameRest(r, opened)
          /\ opened.fence = r.fence /\ opened.kind = r.kind /\ opened.row = r.row
          /\ opened.pinned = r.pinned /\ opened.open = r.open \cup {Shared}
          /\ \A u \in Tasks :
               opened.used[u] = r.used[u] + (IF u = Shared /\ Shared \notin r.open THEN 1 ELSE 0)
      BY <1>0, <3>1, <3>2, TaskOpenedFields
    <3> HIDE DEF opened
    <3>4. /\ s \in BatchRows /\ SameItems(opened, s) /\ s.status = opened.status
          /\ s.artifact = opened.artifact /\ s.fence = opened.fence /\ s.kind = opened.kind
          /\ s.row = opened.row /\ s.pinned = opened.pinned /\ s.open = opened.open
          /\ s.used = opened.used /\ s.shared = "running"
      BY <3>3 DEF BatchRows, SameItems, opened
    <3> HIDE DEF s
    <3> QED BY <1>0, <3>1, <3>2, <3>3, <3>4, TaskOpenedRow DEF SameItems, SameRest
  <2> HIDE DEF s, authorized
  <2> QED BY <2>1, <2>2, TransactionStep
<1> QED BY <1>1, <1>2

LEMMA ShareSucceedsStep == ASSUME BatchInv, NEW w \in Workers, ShareSucceeds(w) PROVE AllStep
<1> DEFINE r == Row(w)
<1>0. r \in BatchRows /\ Sound(r)
  BY RowOfWorker
<1>1. CASE worker[w].reused
  <2>1. Transaction(w, Authorized(w) /\ r.artifact, r, "items")
    BY <1>1 DEF ShareSucceeds
  <2>2. ASSUME Authorized(w) PROVE r.row = "running" /\ Goes(r, r)
    BY <2>2 DEF Authorized, AttemptRow, Goes
  <2> QED BY <1>0, <2>1, <2>2, TransactionStep
<1>2. CASE ~worker[w].reused
  <2> DEFINE s == [r EXCEPT !.artifact = TRUE, !.open = @ \ {Shared}, !.shared = "succeeded"]
             authorized == /\ Authorized(w) /\ ~r.artifact /\ Shared \in r.open
                           /\ r.shared = "running"
  <2>1. Transaction(w, authorized, s, "items")
    BY <1>2 DEF ShareSucceeds
  <2>2. ASSUME authorized
        PROVE  s \in BatchRows /\ Sound(s) /\ Goes(r, s) /\ s.row = "running"
               /\ s.outcome = r.outcome
    <3>1. r.row = "running" /\ r.status = "running" /\ r.kind = "strategy_sweep"
      BY <1>0, <2>2 DEF Authorized, AttemptRow, Sound, TasksOf
    <3>2. s \in BatchRows /\ s.shared = "succeeded" /\ s.artifact /\ s.open = r.open \ {Shared}
          /\ s.status = r.status /\ s.row = r.row /\ s.pinned = r.pinned
          /\ SameIdentity(r, s) /\ SameItems(r, s)
      BY <1>0 DEF BatchRows, SameIdentity, SameItems
    <3> HIDE DEF s
    <3> QED BY <1>0, <3>1, <3>2, SharedRow DEF SameItems
  <2> HIDE DEF s, authorized
  <2> QED BY <2>1, <2>2, TransactionStep
<1> QED BY <1>1, <1>2

LEMMA FailSharedStep == ASSUME BatchInv, NEW w \in Workers, FailShared(w) PROVE AllStep
<1> DEFINE r == Row(w)
           s == [r EXCEPT !.open = @ \ {Shared}, !.shared = "failed"]
           authorized == Authorized(w) /\ Shared \in r.open /\ r.shared = "running"
<1>0. r \in BatchRows /\ Sound(r)
  BY RowOfWorker
<1>1. Transaction(w, authorized, s, "items")
  BY DEF FailShared
<1>3. ASSUME authorized
      PROVE  s \in BatchRows /\ Sound(s) /\ Goes(r, s) /\ s.row = "running" /\ s.outcome = r.outcome
  <2>1. r.row = "running" /\ r.status = "running" /\ r.kind = "strategy_sweep" /\ ~r.artifact
    BY <1>0, <1>3 DEF Authorized, AttemptRow, Sound, TasksOf, ArtifactOf, Final
  <2>2. s \in BatchRows /\ s.shared = "failed" /\ s.artifact = r.artifact /\ s.open = r.open \ {Shared}
        /\ s.status = r.status /\ s.row = r.row /\ s.pinned = r.pinned
        /\ SameIdentity(r, s) /\ SameItems(r, s)
    BY <1>0 DEF BatchRows, SameIdentity, SameItems
  <2> HIDE DEF s
  <2> QED BY <1>0, <2>1, <2>2, SharedRow DEF SameItems
<1> HIDE DEF s, authorized
<1> QED BY <1>1, <1>3, TransactionStep

LEMMA StartItemStep ==
    ASSUME BatchInv, NEW w \in Workers, NEW i \in Items, StartItem(w, i)
    PROVE  AllStep
<1> DEFINE r == Row(w)
           s == TaskOpened(r, i)
           authorized == TaskFits(r, i) /\ r.outcome[i] = "none" /\ Authorized(w)
<1>0. r \in BatchRows /\ Sound(r)
  BY RowOfWorker
<1>1. Transaction(w, authorized, s, "items")
  BY DEF StartItem
<1>2. ASSUME authorized
      PROVE  s \in BatchRows /\ Sound(s) /\ Goes(r, s) /\ s.row = "running" /\ s.outcome = r.outcome
  <2>1. r.row = "running" /\ TaskFits(r, i)
    BY <1>2 DEF Authorized, AttemptRow
  <2>2. i \in Tasks /\ i # Shared
    BY DEF Tasks, Items, Shared
  <2>3. /\ s \in BatchRows /\ SameItems(r, s) /\ SameRest(r, s)
        /\ s.fence = r.fence /\ s.kind = r.kind /\ s.row = r.row
        /\ s.pinned = r.pinned /\ s.open = r.open \cup {i}
        /\ \A u \in Tasks : s.used[u] = r.used[u] + (IF u = i /\ i \notin r.open THEN 1 ELSE 0)
    BY <1>0, <2>1, <2>2, TaskOpenedFields
  <2> HIDE DEF s
  <2> QED BY <1>0, <2>1, <2>2, <2>3, TaskOpenedRow DEF SameItems, SameRest
<1> HIDE DEF s, authorized
<1> QED BY <1>1, <1>2, TransactionStep

\* The child Run of an item gets its outcome.
LEMMA ItemCompletedStep ==
    ASSUME BatchInv, NEW w \in Workers, NEW i \in Items, NEW o \in {"succeeded", "failed"},
           MayComplete(w, i),
           NEW s, s = ItemCompleted(Row(w), i, o), batch' = [batch EXCEPT ![worker[w].b] = s]
    PROVE  AllStep
<1> DEFINE r == Row(w)
<1>1. r \in BatchRows /\ Sound(r) /\ r.row = "running" /\ r.status = "running"
      /\ r.outcome[i] = "none"
  BY RowOfWorker DEF MayComplete, Authorized, AttemptRow
<1>2. /\ s \in BatchRows /\ Sound(s) /\ s.row = "running" /\ Goes(r, s)
      /\ \A j \in Items : s.outcome[j] = IF j = i THEN o ELSE r.outcome[j]
  BY <1>1, ItemCompletedRow
<1>3. Step(r, s, Free(worker[w].b))
  BY <1>1, <1>2 DEF Step, Way, Works
<1>5. r = batch[worker[w].b] /\ worker[w].b \in Batches
  BY RowOfWorker
<1> HIDE DEF r
<1> QED BY <1>3, <1>5, RowWritten

LEMMA FailItemOfSharedStep == ASSUME BatchInv, NEW w \in Workers, FailItemOfShared(w) PROVE AllStep
<1>1. PICK i \in FirstItem(worker[w].todo) :
        IF MayComplete(w, i)
        THEN batch' = [batch EXCEPT ![worker[w].b] = ItemCompleted(Row(w), i, "failed")]
        ELSE Raises(w, "permanent")
  BY DEF FailItemOfShared
<1>2. i \in Items
  BY RowOfWorker DEF FirstItem
<1>3. "failed" \in {"succeeded", "failed"}
  OBVIOUS
<1> QED BY <1>1, <1>2, <1>3, ItemCompletedStep, RaisesStep

LEMMA EndItemStep ==
    ASSUME BatchInv, NEW w \in Workers, NEW i \in Items, NEW o \in {"succeeded", "failed"},
           EndItem(w, i, o)
    PROVE  AllStep
BY ItemCompletedStep, RaisesStep DEF EndItem

\* Marks on the attempt row, and the lapse of its lease.
LEMMA MarkedStep ==
    ASSUME BatchInv, NEW b \in Batches, NEW s \in BatchRows, MarksOnly(batch[b], s),
           batch' = [batch EXCEPT ![b] = s]
    PROVE  AllStep
<1>1. Sound(s) /\ Goes(batch[b], s)
  BY RowTrue, MarkedRow
<1>2. Step(batch[b], s, Free(b))
  BY <1>1 DEF Step, Way, Works, MarksOnly, SameItems
<1> QED BY <1>2, RowWritten

LEMMA LeaseLapsesStep == ASSUME BatchInv, NEW b \in Batches, LeaseLapses(b) PROVE AllStep
<1> DEFINE r == batch[b]
           s == [r EXCEPT !.lease = "lapsed"]
<1>1. r \in BatchRows
  BY RowTrue
<1>2. batch' = [batch EXCEPT ![b] = s]
  BY DEF LeaseLapses, BatchInv, TypeOK
<1>3. s \in BatchRows /\ MarksOnly(r, s)
  BY <1>1 DEF BatchRows, MarksOnly, SameItems
<1> HIDE DEF s
<1> QED BY <1>2, <1>3, MarkedStep

LEMMA RecordAcknowledgedStep ==
    ASSUME BatchInv, NEW w \in Workers, RecordAcknowledged(w) PROVE AllStep
<1> DEFINE b == worker[w].b
           r == batch[b]
           s == [r EXCEPT !.exited = TRUE, !.acked = TRUE]
<1>0. b \in Batches /\ r \in BatchRows
  BY RowOfWorker
<1>1. CASE batch' = batch
  BY <1>1, RowsKept
<1>2. CASE batch' # batch
  <2>1. batch' = [batch EXCEPT ![b].exited = TRUE, ![b].acked = TRUE]
    BY <1>2 DEF RecordAcknowledged
  <2>2. batch' = [batch EXCEPT ![b] = s]
    BY <1>0, <2>1, ZenonT(30) DEF BatchInv, TypeOK, BatchRows
  <2>3. s \in BatchRows /\ MarksOnly(r, s)
    BY <1>0 DEF BatchRows, MarksOnly, SameItems
  <2> HIDE DEF s, b
  <2> QED BY <1>0, <2>2, <2>3, MarkedStep
<1> QED BY <1>1, <1>2

LEMMA CloseChildStep == ASSUME BatchInv, NEW w \in Workers, CloseChild(w) PROVE AllStep
<1> DEFINE b == worker[w].b
           r == batch[b]
<1>0. b \in Batches /\ r \in BatchRows
  BY RowOfWorker
<1>1. CASE batch' = batch
  BY <1>1, RowsKept
<1>2. CASE batch' # batch
  <2>1. PICK recorded \in BOOLEAN :
          batch' = [batch EXCEPT ![b].exited = batch[b].exited \/ recorded]
    BY <1>2 DEF CloseChild
  <2> DEFINE exited == r.exited \/ recorded
             s == [r EXCEPT !.exited = exited]
  <2>2. batch' = [batch EXCEPT ![b] = s]
    BY <1>0, <2>1 DEF BatchInv, TypeOK, BatchRows
  <2>3. exited \in BOOLEAN
    BY <1>0 DEF BatchRows
  <2> HIDE DEF exited
  <2>4. s \in BatchRows /\ MarksOnly(r, s)
    BY <1>0, <2>3 DEF BatchRows, MarksOnly, SameItems
  <2> HIDE DEF s, b
  <2> QED BY <1>0, <2>2, <2>4, MarkedStep
<1> QED BY <1>1, <1>2

LEMMA FinishSuccessfulStep ==
    ASSUME BatchInv, NEW w \in Workers, FinishSuccessful(w) PROVE AllStep
<1> DEFINE r == Row(w)
           b == worker[w].b
           s == RowClosed([ReleaseArtifact(r) EXCEPT !.status = TerminalStatus(r)])
<1>1. Transaction(w, MayFinish(w), s, "cleanup")
  BY DEF FinishSuccessful
<1>2. CASE MayFinish(w)
  <2>1. /\ r \in BatchRows /\ Sound(r) /\ r.completed = NItems /\ r.status = "running"
        /\ b \in Batches /\ r = batch[b]
    BY <1>2, RowOfWorker DEF MayFinish
  <2>2. s \in BatchRows /\ Sound(s) /\ Closes(r, s) /\ s.status # "queued"
    BY <2>1, FinishedRow
  <2>3. Free(b)
    BY <1>2, <2>1, ExitedFree DEF MayFinish, AttemptRow
  <2>4. batch' = [batch EXCEPT ![b] = s]
    BY <1>1, <1>2 DEF Transaction
  <2> HIDE DEF s
  <2>5. Step(r, s, Free(b))
    BY <2>1, <2>2, <2>3 DEF Step, Way, Ends
  <2> HIDE DEF r, b
  <2> QED BY <2>1, <2>4, <2>5, RowWritten
<1>3. CASE ~MayFinish(w)
  BY <1>1, <1>3, RaisesStep DEF Transaction
<1> QED BY <1>2, <1>3

LEMMA SettleCancelledStep ==
    ASSUME BatchInv, NEW w \in Workers, SettleCancelled(w) PROVE AllStep
<1>1. CASE batch' = batch
  BY <1>1, RowsKept
<1>2. CASE batch' # batch
  <2>1. /\ CancelPending(w) /\ RowExited(worker[w].b)
        /\ batch' = [batch EXCEPT ![worker[w].b] = Cancelled(@)]
    BY <1>2 DEF SettleCancelled
  <2>2. worker[w].b \in Batches /\ batch[worker[w].b].status = "cancelling"
    BY <2>1, RowOfWorker DEF CancelPending
  <2> QED BY <2>1, <2>2, CancelledStep
<1> QED BY <1>1, <1>2

LEMMA SettleInterruptedStep ==
    ASSUME BatchInv, NEW w \in Workers, SettleInterrupted(w)
    PROVE  AllStep
<1> DEFINE b == worker[w].b
           r == batch[b]
           why == worker[w].error
<1>0. b \in Batches /\ r \in BatchRows /\ Sound(r) /\ Row(w) = r
  BY RowOfWorker
<1>1. CASE /\ StartingRow(w) /\ StartingExited(b, worker[w].f) /\ r.status = "running"
           /\ batch' = [batch EXCEPT ![b] = StartingClosed(@, why)]
  <2> DEFINE s == StartingClosed(r, why)
  <2>1. r.row = "starting" /\ Free(b)
    BY <1>0, <1>1, ExitedFree DEF StartingRow, StartingExited
  <2>2. s \in BatchRows /\ Sound(s) /\ Closes(r, s) /\ (s.status = "queued" => r.fence < MaxTaskAttempts)
    BY <1>0, <1>1, <2>1, StartingClosedRow
  <2>3. batch' = [batch EXCEPT ![b] = s]
    BY <1>1 DEF BatchInv, TypeOK
  <2> HIDE DEF s
  <2>4. Step(r, s, Free(b))
    BY <1>1, <2>1, <2>2 DEF Step, Way, Ends
  <2> HIDE DEF b
  <2> QED BY <1>0, <2>3, <2>4, RowWritten
<1>2. CASE /\ Authorized(w) /\ ChildExited(b, worker[w].f)
           /\ batch' = [batch EXCEPT ![b] = AttemptClosed(@, why)]
  <2> DEFINE s == AttemptClosed(r, why)
  <2>1. r.row = "running" /\ r.status = "running" /\ Free(b)
    BY <1>0, <1>2, ExitedFree DEF Authorized, AttemptRow
  <2>2. s \in BatchRows /\ Sound(s) /\ Closes(r, s)
        /\ (s.status = "queued" => r.open # {} \/ r.fence < MaxTaskAttempts)
    BY <1>0, <2>1, AttemptClosedRow
  <2>3. batch' = [batch EXCEPT ![b] = s]
    BY <1>2 DEF BatchInv, TypeOK
  <2> HIDE DEF s
  <2>4. Step(r, s, Free(b))
    BY <2>1, <2>2 DEF Step, Way, Ends
  <2> HIDE DEF b
  <2> QED BY <1>0, <2>3, <2>4, RowWritten
<1>3. CASE batch' = batch
  BY <1>3, RowsKept
<1>4. batch' = batch \/ (Authorized(w) /\ ChildExited(b, worker[w].f)
                         /\ batch' = [batch EXCEPT ![b] = AttemptClosed(@, why)])
      \/ (StartingRow(w) /\ StartingExited(b, worker[w].f) /\ r.status = "running"
          /\ batch' = [batch EXCEPT ![b] = StartingClosed(@, why)])
  BY <1>0 DEF SettleInterrupted
<1> QED BY <1>1, <1>2, <1>3, <1>4

LEMMA CommandSteps == ASSUME BatchInv, NEW b \in Batches, Command(b) PROVE AllStep
BY AdmitStep, CancelQueuedStep, CancelRunningStep, DeleteRunStep DEF Command

LEMMA PollSteps == ASSUME BatchInv, NEW w \in Workers, Poll(w) PROVE AllStep
<1>1. CASE Reconcile(w)
  BY <1>1, CancelledStep DEF Reconcile, Reconcilable, Cancelling
<1>2. CASE NothingToReconcile(w) \/ ClaimRaises(w)
  BY <1>2, RowsKept DEF NothingToReconcile, ClaimRaises
<1>3. CASE ClaimNothing(w) \/ \E b \in Batches : Claim(w, b)
  BY <1>3, ClaimNothingStep, ClaimStep
<1> QED BY <1>1, <1>2, <1>3 DEF Poll

LEMMA StartSteps == ASSUME BatchInv, NEW w \in Workers, Start(w) PROVE AllStep
<1>1. CASE Spawn(w) \/ Prepared(w)
  BY <1>1, RowsKept DEF Spawn, Prepared
<1>2. CASE ReportStarted(w)
  BY <1>2, RowsKept DEF ReportStarted, Raises
<1> QED BY <1>1, <1>2, MaterializeStep, ActivateStep DEF Start

LEMMA WorkSteps == ASSUME BatchInv, NEW w \in Workers, Work(w) PROVE AllStep
<1>1. CASE ShareFails(w)
  BY <1>1, RowsKept DEF ShareFails
<1>2. CASE Acknowledge(w) \/ ChildLost(w)
  BY <1>2, RowsKept DEF Acknowledge, ChildLost, Raises
<1>3. CASE \E i \in Items : \/ StartItem(w, i) \/ FactorItemSucceeds(w, i)
                            \/ StrategyItemSucceeds(w, i) \/ ItemFails(w, i)
  BY <1>3, StartItemStep, EndItemStep DEF FactorItemSucceeds, StrategyItemSucceeds, ItemFails
<1>4. CASE \/ StartShared(w) \/ ShareSucceeds(w) \/ FailItemOfShared(w) \/ FailShared(w)
  BY <1>4, StartSharedStep, ShareSucceedsStep, FailItemOfSharedStep, FailSharedStep
<1> QED BY <1>1, <1>2, <1>3, <1>4 DEF Work

LEMMA EndSteps == ASSUME BatchInv, NEW w \in Workers, End(w) PROVE AllStep
<1>1. CASE Cleanup(w)
  BY <1>1, RowsKept DEF Cleanup
<1> QED BY <1>1, RecordAcknowledgedStep, FinishSuccessfulStep, CloseChildStep,
           SettleCancelledStep, SettleInterruptedStep DEF End

LEMMA NextSteps == ASSUME BatchInv, [Next]_vars PROVE AllStep
<1>1. CASE UNCHANGED vars
  BY <1>1, RowsKept DEF vars
<1>2. CASE MoveHead \/ Collect
  BY <1>2, RowsKept DEF MoveHead, Collect
<1>3. CASE \E b \in Batches : Command(b) \/ LeaseLapses(b)
  BY <1>3, CommandSteps, LeaseLapsesStep
<1>4. CASE \E w \in Workers : \/ Poll(w) \/ Start(w) \/ Work(w) \/ End(w)
  BY <1>4, PollSteps, StartSteps, WorkSteps, EndSteps
<1>5. CASE \E w \in Workers : Crash(w) \/ \E why \in Errors : Fails(w, why)
  BY <1>5, RowsKept DEF Crash, Fails, Raises
<1>6. CASE \E c \in children : ChildReady(c) \/ ChildExits(c)
  BY <1>6, RowsKept DEF ChildReady, ChildExits
<1>7. CASE \E a \in scratch : ReconcileFiles(a)
  BY <1>7, RowsKept DEF ReconcileFiles
<1> QED BY <1>1, <1>2, <1>3, <1>4, <1>5, <1>6, <1>7 DEF Next

-----------------------------------------------------------------------------
(* The rows stay sound *)

LEMMA ClosedSpent ==
    ASSUME NEW r \in BatchRows, RowInv(r), NEW s \in BatchRows, Ends(r, s)
    PROVE  SpentOf(s)
<1>1. s.used = r.used /\ s.open = {} /\ s.fence = r.fence /\ r.status = "running"
  BY DEF Ends, Closes, SameIdentity
<1>2. Spent(r) \subseteq Spent(s)
  BY <1>1, SpentKept
<1>3. /\ Cardinality(Spent(r)) \in Nat /\ Cardinality(Spent(s)) \in Nat /\ r.fence \in Nat
      /\ Cardinality(Spent(r)) <= Cardinality(Spent(s))
      /\ r.fence <= MaxTaskAttempts + Cardinality(Spent(r))
  BY <1>1, <1>2, FiniteSpent, SpentGrows DEF RowInv, SpentOf, BatchRows
<1>4. s.status # "running"
  <2>1. TerminalStatus(s) \in Final
    BY ReopenedValues
  <2> QED BY <2>1 DEF Ends, Closes, Final
<1>5. CASE s.status # "queued"
  BY <1>1, <1>3, <1>4, <1>5 DEF SpentOf
<1>6. CASE s.status = "queued" /\ r.fence < MaxTaskAttempts
  BY <1>1, <1>3, <1>6 DEF SpentOf
<1>7. CASE s.status = "queued" /\ r.open # {}
  <2>1. PICK t \in r.open : TRUE
    BY <1>7
  <2>2. t \in Tasks /\ r.used[t] \in 1..MaxTaskAttempts
    BY <2>1 DEF RowInv, Sound, TasksOf, BatchRows
  <2>3. <<t, r.used[t]>> \in Spent(s) /\ <<t, r.used[t]>> \notin Spent(r)
    BY <1>1, <2>1, <2>2 DEF Spent
  <2>4. Cardinality(Spent(r)) < Cardinality(Spent(s))
    BY <1>2, <2>3, SpentMore
  <2> QED BY <1>1, <1>3, <1>7, <2>4 DEF SpentOf
<1> QED BY <1>5, <1>6, <1>7 DEF Ends

LEMMA StepSpent ==
    ASSUME NEW r \in BatchRows, RowInv(r), NEW s, NEW free, Step(r, s, free)
    PROVE  RowInv(s)
<1>0. s \in BatchRows /\ Sound(s)
  BY DEF Step
<1>1. r.fence \in Nat /\ s.fence \in Nat /\ SpentOf(r)
      /\ Cardinality(Spent(r)) \in Nat /\ Cardinality(Spent(s)) \in Nat
  BY <1>0, FiniteSpent DEF RowInv, BatchRows
<1>2. CASE Unchanged(r, s)
  BY <1>2 DEF Unchanged
<1>3. CASE Admits(r, s)
  BY <1>3, AdmittedRow DEF Admits
<1>4. CASE Asks(r, s)
  <2>1. Cardinality(Spent(r)) <= Cardinality(Spent(s))
    BY <1>0, <1>4, SpentKept, SpentGrows DEF Asks
  <2> QED BY <1>0, <1>1, <1>4, <2>1 DEF Asks, SpentOf, RowInv
<1>5. CASE Works(r, s)
  <2>1. Cardinality(Spent(r)) <= Cardinality(Spent(s))
    BY <1>0, <1>5, SpentGrows DEF Works, Goes
  <2> QED BY <1>0, <1>1, <1>5, <2>1 DEF Works, Goes, SpentOf, RowInv
<1>6. CASE Ends(r, s)
  BY <1>0, <1>6, ClosedSpent DEF RowInv
<1>7. CASE Gives(r, s)
  <2>1. Cardinality(Spent(r)) <= Cardinality(Spent(s))
    BY <1>0, <1>7, SpentKept, SpentGrows DEF Gives
  <2> QED BY <1>0, <1>1, <1>7, <2>1 DEF Gives, SpentOf, RowInv
<1>8. CASE Starts(r, s)
  <2>1. PICK m \in BatchRows :
          /\ m.status = "queued" /\ (m = r \/ Ends(r, m))
          /\ s.status = "running" /\ s.fence = m.fence + 1 /\ s.used = m.used /\ s.open = m.open
    BY <1>8 DEF Starts
  <2>2. SpentOf(m)
    BY <1>1, <2>1, ClosedSpent
  <2>3. Cardinality(Spent(m)) <= Cardinality(Spent(s)) /\ Cardinality(Spent(m)) \in Nat
        /\ m.fence \in Nat
    BY <1>0, <2>1, SpentKept, SpentGrows, FiniteSpent DEF BatchRows
  <2> QED BY <1>0, <1>1, <2>1, <2>2, <2>3 DEF SpentOf, RowInv
<1> QED BY <1>2, <1>3, <1>4, <1>5, <1>6, <1>7, <1>8 DEF Step, Way

-----------------------------------------------------------------------------
(* Children that calculate own the row of their batch *)

\* A child starts to work only for the attempt that has the row.
ChildrenWay ==
    \A c \in children' : c.phase = "working" =>
        \/ c \in children
        \/ UNCHANGED batch /\ batch[c.b].row = "running" /\ RowFence(batch[c.b]) = c.f

LEMMA NextChildren == ASSUME TypeOK, [Next]_vars PROVE ChildrenWay
<1>1. ASSUME NEW b \in Batches, Command(b) \/ LeaseLapses(b) PROVE ChildrenWay
  BY <1>1 DEF Command, Admit, CancelQueued, CancelRunning, DeleteRun, LeaseLapses, ChildrenWay
<1>2. ASSUME NEW w \in Workers, Poll(w) PROVE ChildrenWay
  BY <1>2 DEF Poll, Reconcile, NothingToReconcile, Claim, ClaimNothing, ClaimRaises, ChildrenWay
<1>3. ASSUME NEW w \in Workers, Start(w) PROVE ChildrenWay
  <2>1. CASE Materialize(w) \/ Activate(w) \/ Prepared(w)
    BY <2>1 DEF Materialize, Activate, Prepared, Raises, ChildrenWay
  <2>2. CASE Spawn(w)
    BY <2>2 DEF Spawn, Child, ChildrenWay
  <2>3. CASE ReportStarted(w)
    <3>1. CASE Authorized(w)
      BY <2>3, <3>1 DEF ReportStarted, WithoutChild, Child, Authorized, AttemptRow, Row, ChildrenWay
    <3>2. CASE ~Authorized(w)
      BY <2>3, <3>2 DEF ReportStarted, Raises, ChildrenWay
    <3> QED BY <3>1, <3>2
  <2> QED BY <1>3, <2>1, <2>2, <2>3 DEF Start
<1>4. ASSUME NEW w \in Workers, Work(w) PROVE ChildrenWay
  <2>1. children' \subseteq children
    BY <1>4 DEF Work, StartShared, ShareSucceeds, ShareFails, FailItemOfShared, FailShared,
          StartItem, FactorItemSucceeds, StrategyItemSucceeds, ItemFails, EndItem, Acknowledge,
          ChildLost, Transaction, Raises, WithoutChild
  <2> QED BY <2>1 DEF ChildrenWay
<1>5. ASSUME NEW w \in Workers, End(w) PROVE ChildrenWay
  <2>1. children' \subseteq children
    BY <1>5 DEF End, RecordAcknowledged, FinishSuccessful, CloseChild, SettleCancelled,
          SettleInterrupted, Cleanup, Transaction, Raises, WithoutChild
  <2> QED BY <2>1 DEF ChildrenWay
<1>6. ASSUME NEW w \in Workers, Crash(w) \/ \E why \in Errors : Fails(w, why)
      PROVE  ChildrenWay
  BY <1>6 DEF Crash, Fails, Raises, ChildrenWay
<1>7. ASSUME NEW c \in children, ChildReady(c) \/ ChildExits(c) PROVE ChildrenWay
  <2>1. c \in [b : Batches, f : Nat, phase : {"spawned", "ready", "working"}]
    BY DEF TypeOK
  <2>2. [c EXCEPT !.phase = "ready"].phase = "ready"
    BY <2>1
  <2> QED BY <1>7, <2>2 DEF ChildReady, ChildExits, ChildrenWay
<1>8. CASE MoveHead \/ Collect \/ UNCHANGED vars \/ \E a \in scratch : ReconcileFiles(a)
  BY <1>8 DEF MoveHead, Collect, vars, ReconcileFiles, ChildrenWay
<1> QED BY <1>1, <1>2, <1>3, <1>4, <1>5, <1>6, <1>7, <1>8 DEF Next

\* A row that belongs to a working child stays with it, whatever happens to the batch.
LEMMA OwnerKept ==
    ASSUME NEW r \in BatchRows, Sound(r), r.row = "running", NEW s, Step(r, s, FALSE)
    PROVE  s.row = "running" /\ RowFence(s) = RowFence(r)
<1>1. r.status \in {"running", "cancelling"} /\ r.fence \in Nat
  BY DEF Sound, RowOf, BatchRows
<1>2. Unchanged(r, s) \/ Asks(r, s) \/ Works(r, s)
  BY <1>1 DEF Step, Way, Admits
<1>3. CASE Unchanged(r, s)
  BY <1>3 DEF Unchanged
<1>4. CASE Asks(r, s)
  BY <1>1, <1>4 DEF Asks, RowFence
<1>5. CASE Works(r, s)
  BY <1>5 DEF Works, Goes, RowFence
<1> QED BY <1>2, <1>3, <1>4, <1>5

LEMMA OwnersKept == ASSUME BatchInv, AllStep, ChildrenWay, children' \subseteq
                             [b : Batches, f : Nat, phase : {"spawned", "ready", "working"}]
                    PROVE  WorkingChildOwnsRow'
<1> SUFFICES ASSUME NEW c \in children', c.phase = "working"
             PROVE  batch'[c.b].row = "running" /\ RowFence(batch'[c.b]) = c.f
  BY DEF WorkingChildOwnsRow, RowFence
<1>1. CASE c \in children
  <2>1. batch[c.b].row = "running" /\ RowFence(batch[c.b]) = c.f /\ c.b \in Batches /\ ~Free(c.b)
    BY <1>1 DEF BatchInv, WorkingChildOwnsRow, Free
  <2>2. batch[c.b] \in BatchRows /\ Sound(batch[c.b]) /\ Step(batch[c.b], batch'[c.b], FALSE)
    <3>1. Step(batch[c.b], batch'[c.b], Free(c.b))
      BY <2>1 DEF AllStep
    <3> QED BY <2>1, <3>1, RowTrue DEF Step, Way
  <2> QED BY <2>1, <2>2, OwnerKept
<1>2. CASE UNCHANGED batch /\ batch[c.b].row = "running" /\ RowFence(batch[c.b]) = c.f
  BY <1>2
<1> QED BY <1>1, <1>2 DEF ChildrenWay

-----------------------------------------------------------------------------
(* The types of everything but the rows *)

WorkerRows ==
    [pc : Pcs, b : Batches, f : Nat, todo : SUBSET Items, runs : [Items -> Nat],
     reused : BOOLEAN, error : Errors \cup {"none"}]
ChildRows == [b : Batches, f : Nat, phase : {"spawned", "ready", "working"}]

RestTyped ==
    /\ order \in Seq(Batches)
    /\ children \in SUBSET ChildRows
    /\ scratch \in SUBSET (Batches \X Nat)
    /\ data \in {"head", "old", "gone"}
    /\ worker \in [Workers -> WorkerRows]

LEMMA RestOfTypes == TypeOK <=> batch \in [Batches -> BatchRows] /\ RestTyped
BY DEF TypeOK, RestTyped, WorkerRows, ChildRows

LEMMA PcKnown ==
    /\ StartPc \subseteq Pcs /\ ChildPc \subseteq Pcs
    /\ {"idle", "claim", "acked", "closing", "settle", "settle2", "cleanup", "claimed", "spawn",
        "starting", "activated", "prepare", "share", "sharing", "failing", "unshare", "items",
        "finishing"} \subseteq Pcs
BY DEF Pcs, StartPc, ChildPc

LEMMA IdleTyped == Idle \in WorkerRows
<1>1. (CHOOSE b \in Batches : TRUE) \in Batches
  OBVIOUS
<1> QED BY <1>1, PcKnown DEF Idle, WorkerRows

LEMMA GotoTyped ==
    ASSUME worker \in [Workers -> WorkerRows], NEW w \in Workers, NEW pc \in Pcs, Goto(w, pc)
    PROVE  worker' \in [Workers -> WorkerRows]
<1>1. [worker[w] EXCEPT !.pc = pc] \in WorkerRows
  BY DEF WorkerRows
<1> QED BY <1>1 DEF Goto

LEMMA RaisesTyped ==
    ASSUME RestTyped, NEW w \in Workers, NEW why \in Errors, Raises(w, why)
    PROVE  RestTyped'
<1> DEFINE pc == IF worker[w].pc \in ChildPc \cup {"acked"} THEN "closing" ELSE "settle"
           s == [worker[w] EXCEPT !.pc = pc, !.error = why]
<1>1. pc \in Pcs
  BY PcKnown
<1>2. worker[w] \in WorkerRows
  BY DEF RestTyped
<1>3. worker' = [worker EXCEPT ![w] = s]
  BY <1>2 DEF Raises, RestTyped, WorkerRows
<1> HIDE DEF pc
<1>4. s \in WorkerRows
  BY <1>1, <1>2 DEF WorkerRows
<1> HIDE DEF s
<1> QED BY <1>3, <1>4, ZenonT(30) DEF Raises, RestTyped

LEMMA TransactionTyped ==
    ASSUME RestTyped, NEW w \in Workers, NEW authorized, NEW new, NEW pc \in Pcs,
           Transaction(w, authorized, new, pc)
    PROVE  RestTyped'
<1>1. CASE authorized
  BY <1>1, GotoTyped DEF Transaction, RestTyped
<1>2. CASE ~authorized
  BY <1>2, RaisesTyped DEF Transaction, Errors
<1> QED BY <1>1, <1>2

\* A Worker goes on and may leave or remove files of its attempt, or stop its child.
LEMMA WorkerGoes ==
    ASSUME RestTyped, NEW w \in Workers, NEW pc \in Pcs, Goto(w, pc), UNCHANGED <<order, data>>,
           children' \subseteq children \cup {Child(w, "spawned"), Child(w, "working")},
           scratch' \subseteq scratch \cup {<<worker[w].b, worker[w].f>>}
    PROVE  RestTyped'
<1>1. worker[w].b \in Batches /\ worker[w].f \in Nat
  BY DEF RestTyped, WorkerRows
<1>2. Child(w, "spawned") \in ChildRows /\ Child(w, "working") \in ChildRows
  BY <1>1 DEF Child, ChildRows
<1>3. worker' \in [Workers -> WorkerRows]
  BY GotoTyped DEF RestTyped
<1> QED BY <1>1, <1>2, <1>3 DEF RestTyped

LEMMA ClaimTyped ==
    ASSUME BatchInv, NEW w \in Workers, NEW b \in Batches, Claim(w, b)
    PROVE  RestTyped'
<1> DEFINE m == ClaimableRow(b)
           new == Claimed(m)
           runs == [i \in Items |-> new.run[i].fence]
           s == [Idle EXCEPT !.pc = "claimed", !.b = b, !.f = new.fence,
                             !.todo = Incomplete(new), !.runs = runs]
<1>0. RestTyped
  BY RestOfTypes DEF BatchInv
<1>1. worker' = [worker EXCEPT ![w] = s] /\ UNCHANGED <<order, children, scratch, data>>
  BY DEF Claim
<1>2. new \in BatchRows
  <2>1. m \in BatchRows /\ Sound(m) /\ m.status = "queued"
    <3>1. CASE Recoverable(b)
      BY <3>1, RecoveredStep DEF ClaimableRow, Claim, Claimable
    <3>2. CASE ~Recoverable(b)
      BY <3>2, RowTrue DEF ClaimableRow, Claim, Claimable
    <3> QED BY <3>1, <3>2
  <2> HIDE DEF m
  <2> QED BY <2>1, ClaimedRow
<1> HIDE DEF new
<1>3. new.fence \in Nat /\ runs \in [Items -> Nat] /\ Incomplete(new) \in SUBSET Items
  BY <1>2 DEF BatchRows, Incomplete
<1> HIDE DEF runs
<1>4. "claimed" \in Pcs
  BY PcKnown
<1>5. s \in WorkerRows
  BY <1>3, <1>4, IdleTyped DEF WorkerRows
<1> HIDE DEF s
<1> QED BY <1>0, <1>1, <1>5 DEF RestTyped

\* What only a step of a command, of time or of housekeeping changes besides the rows.
LEMMA QuietTyped ==
    ASSUME RestTyped, UNCHANGED <<order, data, worker>>, children' \subseteq children,
           scratch' \subseteq scratch
    PROVE  RestTyped'
BY DEF RestTyped

LEMMA CommandTyped == ASSUME RestTyped, NEW b \in Batches, Command(b) \/ LeaseLapses(b) PROVE RestTyped'
<1>1. CASE Admit(b)
  <2>1. order' \in Seq(Batches)
    BY <1>1 DEF Admit, RestTyped
  <2> QED BY <1>1, <2>1 DEF Admit, RestTyped
<1>2. CASE CancelQueued(b)
  BY <1>2, QuietTyped DEF CancelQueued, ScratchLeft
<1>3. CASE CancelRunning(b) \/ LeaseLapses(b) \/ \E i \in Items : DeleteRun(b, i)
  BY <1>3, QuietTyped DEF CancelRunning, LeaseLapses, DeleteRun
<1> QED BY <1>1, <1>2, <1>3 DEF Command

LEMMA PollTyped == ASSUME BatchInv, NEW w \in Workers, Poll(w) PROVE RestTyped'
<1>0. RestTyped
  BY RestOfTypes DEF BatchInv
<1>1. CASE Reconcile(w)
  BY <1>0, <1>1, QuietTyped DEF Reconcile, ScratchLeft
<1>2. CASE NothingToReconcile(w)
  <2>1. Goto(w, "claim") /\ UNCHANGED <<order, children, scratch, data>> /\ "claim" \in Pcs
    BY <1>2, PcKnown DEF NothingToReconcile, Goto
  <2> QED BY <1>0, <2>1, WorkerGoes
<1>3. CASE ClaimNothing(w) \/ ClaimRaises(w)
  <2>1. Goto(w, "idle") /\ UNCHANGED <<order, children, scratch, data>> /\ "idle" \in Pcs
    BY <1>3, PcKnown DEF ClaimNothing, ClaimRaises, Goto
  <2> QED BY <1>0, <2>1, WorkerGoes
<1> QED BY <1>1, <1>2, <1>3, ClaimTyped DEF Poll

LEMMA StartTyped == ASSUME RestTyped, NEW w \in Workers, Start(w) PROVE RestTyped'
<1>0. {"retryable", "permanent"} \subseteq Errors
  BY DEF Errors
<1>1. CASE Materialize(w)
  <2>1. CASE Goto(w, "spawn") /\ UNCHANGED <<batch, order, children, scratch, data>>
    BY <2>1, PcKnown, WorkerGoes
  <2>2. CASE \E why \in Errors : Raises(w, why)
    BY <2>2, RaisesTyped
  <2>3. CASE /\ worker' = [worker EXCEPT ![w].pc = "spawn", ![w].reused = TRUE]
             /\ scratch' = scratch \cup {<<worker[w].b, worker[w].f>>}
             /\ UNCHANGED <<batch, order, children, data>>
    <3> DEFINE s == [worker[w] EXCEPT !.pc = "spawn", !.reused = TRUE]
    <3>1. worker[w] \in WorkerRows /\ "spawn" \in Pcs
      BY PcKnown DEF RestTyped
    <3>2. worker' = [worker EXCEPT ![w] = s]
      BY <2>3, <3>1 DEF RestTyped, WorkerRows
    <3>3. s \in WorkerRows /\ worker[w].b \in Batches /\ worker[w].f \in Nat
      BY <3>1 DEF WorkerRows
    <3> HIDE DEF s
    <3>4. worker' \in [Workers -> WorkerRows]
      BY <3>2, <3>3 DEF RestTyped
    <3>5. scratch' \in SUBSET (Batches \X Nat)
      BY <2>3, <3>3 DEF RestTyped
    <3> QED BY <2>3, <3>4, <3>5 DEF RestTyped
  <2> QED BY <1>0, <1>1, <2>1, <2>2, <2>3 DEF Materialize
<1>2. CASE Spawn(w)
  BY <1>2, PcKnown, WorkerGoes DEF Spawn
<1>3. CASE Activate(w)
  <2>1. CASE Goto(w, "activated") /\ UNCHANGED <<order, children, scratch, data>>
    BY <2>1, PcKnown, WorkerGoes
  <2>2. CASE \E why \in Errors : Raises(w, why)
    BY <2>2, RaisesTyped
  <2> QED BY <1>0, <1>3, <2>1, <2>2 DEF Activate
<1>4. CASE ReportStarted(w)
  <2>1. CASE /\ Goto(w, "prepare") /\ UNCHANGED <<batch, order, scratch, data>>
             /\ children' = WithoutChild(w) \cup {Child(w, "working")}
    BY <2>1, PcKnown, WorkerGoes DEF WithoutChild
  <2>2. CASE \E why \in Errors : Raises(w, why)
    BY <2>2, RaisesTyped
  <2> QED BY <1>0, <1>4, <2>1, <2>2 DEF ReportStarted
<1>5. CASE Prepared(w)
  <2>1. PICK pc \in {"share", "items"} : Goto(w, pc)
    BY <1>5 DEF Prepared
  <2>2. pc \in Pcs /\ UNCHANGED <<order, data, children>>
        /\ scratch' \subseteq scratch \cup {<<worker[w].b, worker[w].f>>}
    BY <1>5, PcKnown DEF Prepared
  <2> QED BY <2>1, <2>2, WorkerGoes
<1> QED BY <1>1, <1>2, <1>3, <1>4, <1>5 DEF Start

\* The items of a Worker become fewer.
LEMMA TodoTyped ==
    ASSUME RestTyped, NEW w \in Workers, NEW i, NEW pc \in Pcs,
           worker' = [worker EXCEPT ![w] = [worker[w] EXCEPT !.todo = worker[w].todo \ {i}, !.pc = pc]],
           UNCHANGED <<order, children, scratch, data>>
    PROVE  RestTyped'
<1> DEFINE s == [worker[w] EXCEPT !.todo = worker[w].todo \ {i}, !.pc = pc]
<1>1. s \in WorkerRows
  BY DEF RestTyped, WorkerRows
<1> HIDE DEF s
<1>2. worker' = [worker EXCEPT ![w] = s]
  BY DEF s
<1> QED BY <1>1, <1>2 DEF RestTyped

LEMMA EndItemTyped ==
    ASSUME RestTyped, NEW w \in Workers, NEW i, NEW o, EndItem(w, i, o)
    PROVE  RestTyped'
<1>1. CASE MayComplete(w, i)
  <2>1. worker[w].pc \in Pcs /\ worker[w] \in WorkerRows
    BY DEF RestTyped, WorkerRows
  <2>2. worker' = [worker EXCEPT ![w] = [worker[w] EXCEPT !.todo = worker[w].todo \ {i},
                                                          !.pc = worker[w].pc]]
    BY <1>1, <2>1 DEF EndItem, RestTyped, WorkerRows
  <2> QED BY <1>1, <2>1, <2>2, TodoTyped DEF EndItem
<1>2. CASE ~MayComplete(w, i)
  BY <1>2, RaisesTyped DEF EndItem, Errors
<1> QED BY <1>1, <1>2

LEMMA FailItemOfSharedTyped ==
    ASSUME RestTyped, NEW w \in Workers, FailItemOfShared(w)
    PROVE  RestTyped'
<1>1. PICK i \in FirstItem(worker[w].todo) :
        IF MayComplete(w, i)
        THEN /\ worker' = [worker EXCEPT ![w].todo = @ \ {i},
                              ![w].pc = IF worker[w].todo = {i} THEN "unshare" ELSE @]
             /\ UNCHANGED <<order, children, scratch, data>>
        ELSE Raises(w, "permanent")
  BY DEF FailItemOfShared
<1>2. CASE MayComplete(w, i)
  <2> DEFINE pc == IF worker[w].todo = {i} THEN "unshare" ELSE worker[w].pc
  <2>1. pc \in Pcs /\ worker[w] \in WorkerRows
    BY PcKnown DEF RestTyped, WorkerRows
  <2>2. worker' = [worker EXCEPT ![w] = [worker[w] EXCEPT !.todo = worker[w].todo \ {i}, !.pc = pc]]
    BY <1>1, <1>2, <2>1 DEF RestTyped, WorkerRows
  <2> HIDE DEF pc
  <2> QED BY <1>1, <1>2, <2>1, <2>2, TodoTyped
<1>3. CASE ~MayComplete(w, i)
  BY <1>1, <1>3, RaisesTyped DEF Errors
<1> QED BY <1>2, <1>3

LEMMA WorkTyped == ASSUME RestTyped, NEW w \in Workers, Work(w) PROVE RestTyped'
<1>0. {"retryable", "permanent"} \subseteq Errors
  BY DEF Errors
<1>1. CASE StartShared(w) \/ ShareSucceeds(w) \/ FailShared(w)
           \/ \E i \in Items : StartItem(w, i)
  BY <1>1, PcKnown, TransactionTyped DEF StartShared, ShareSucceeds, FailShared, StartItem
<1>2. CASE \E i \in Items : FactorItemSucceeds(w, i) \/ StrategyItemSucceeds(w, i) \/ ItemFails(w, i)
  BY <1>2, EndItemTyped DEF FactorItemSucceeds, StrategyItemSucceeds, ItemFails
<1>3. CASE ShareFails(w)
  BY <1>3, PcKnown, WorkerGoes DEF ShareFails
<1>4. CASE Acknowledge(w)
  <2>1. CASE Authorized(w)
    BY <1>4, <2>1, PcKnown, WorkerGoes DEF Acknowledge, WithoutChild
  <2>2. CASE ~Authorized(w)
    BY <1>0, <1>4, <2>2, RaisesTyped DEF Acknowledge
  <2> QED BY <2>1, <2>2
<1>5. CASE ChildLost(w)
  BY <1>0, <1>5, RaisesTyped DEF ChildLost
<1> QED BY <1>1, <1>2, <1>3, <1>4, <1>5, FailItemOfSharedTyped DEF Work

LEMMA IdleAgain ==
    ASSUME RestTyped, NEW w \in Workers, worker' = [worker EXCEPT ![w] = Idle],
           UNCHANGED <<order, children, data>>, scratch' \subseteq scratch
    PROVE  RestTyped'
BY IdleTyped DEF RestTyped

LEMMA EndTyped == ASSUME RestTyped, NEW w \in Workers, End(w) PROVE RestTyped'
<1>1. CASE RecordAcknowledged(w)
  BY <1>1, PcKnown, WorkerGoes DEF RecordAcknowledged
<1>2. CASE FinishSuccessful(w)
  BY <1>2, PcKnown, TransactionTyped DEF FinishSuccessful
<1>3. CASE CloseChild(w)
  <2>1. PICK pc \in {"settle", "cleanup"} : Goto(w, pc)
    BY <1>3 DEF CloseChild
  <2>2. UNCHANGED <<order, data, scratch>> /\ children' \subseteq children
    BY <1>3 DEF CloseChild, WithoutChild
  <2> QED BY <2>1, <2>2, PcKnown, WorkerGoes
<1>4. CASE SettleCancelled(w)
  <2>1. PICK pc \in {"settle2", "cleanup"} : Goto(w, pc)
    BY <1>4 DEF SettleCancelled
  <2>2. UNCHANGED <<order, data, children>> /\ scratch' \subseteq scratch
    BY <1>4 DEF SettleCancelled, ScratchLeft
  <2> QED BY <2>1, <2>2, PcKnown, WorkerGoes
<1>5. CASE SettleInterrupted(w)
  BY <1>5, PcKnown, WorkerGoes DEF SettleInterrupted
<1>6. CASE Cleanup(w)
  BY <1>6, IdleAgain DEF Cleanup
<1> QED BY <1>1, <1>2, <1>3, <1>4, <1>5, <1>6 DEF End

LEMMA NextTyped == ASSUME BatchInv, [Next]_vars PROVE RestTyped'
<1>0. RestTyped
  BY RestOfTypes DEF BatchInv
<1>1. CASE UNCHANGED vars
  BY <1>0, <1>1, QuietTyped DEF vars
<1>2. CASE MoveHead \/ Collect
  BY <1>0, <1>2 DEF MoveHead, Collect, RestTyped
<1>3. CASE \E b \in Batches : Command(b) \/ LeaseLapses(b)
  BY <1>0, <1>3, CommandTyped
<1>4. CASE \E w \in Workers : \/ Poll(w) \/ Start(w) \/ Work(w) \/ End(w)
  BY <1>0, <1>4, PollTyped, StartTyped, WorkTyped, EndTyped
<1>5. CASE \E w \in Workers : Crash(w)
  BY <1>0, <1>5, IdleAgain DEF Crash
<1>6. CASE \E w \in Workers : \E why \in Errors : Fails(w, why)
  BY <1>0, <1>6, RaisesTyped DEF Fails
<1>7. CASE \E c \in children : ChildReady(c)
  <2>1. PICK c \in children : ChildReady(c)
    BY <1>7
  <2>2. [c EXCEPT !.phase = "ready"] \in ChildRows
    BY <1>0 DEF RestTyped, ChildRows
  <2> QED BY <1>0, <2>1, <2>2 DEF ChildReady, RestTyped
<1>8. CASE \E c \in children : ChildExits(c)
  BY <1>0, <1>8, QuietTyped DEF ChildExits
<1>9. CASE \E a \in scratch : ReconcileFiles(a)
  BY <1>0, <1>9, QuietTyped DEF ReconcileFiles
<1> QED BY <1>1, <1>2, <1>3, <1>4, <1>5, <1>6, <1>7, <1>8, <1>9 DEF Next

-----------------------------------------------------------------------------
(* The invariant and what it says *)

LEMMA InitHolds == Init => BatchInv
<1> SUFFICES ASSUME Init PROVE BatchInv
  OBVIOUS
<1>1. RowInv(NoBatch) /\ NoBatch \in BatchRows
  BY NoBatchRow
<1>2. \A b \in Batches : batch[b] = NoBatch
  BY DEF Init
<1>3. batch \in [Batches -> BatchRows]
  BY <1>1 DEF Init
<1>4. RestTyped
  BY IdleTyped DEF Init, RestTyped
<1>5. WorkingChildOwnsRow
  BY DEF Init, WorkingChildOwnsRow
<1>6. NothingEarly
  BY <1>2 DEF NothingEarly, NoBatch
<1> QED BY <1>1, <1>2, <1>3, <1>4, <1>5, <1>6, RestOfTypes DEF BatchInv

\* A batch without a status stays as it is until it is admitted.
LEMMA NothingEarlyKept == ASSUME BatchInv, AllStep PROVE NothingEarly'
<1> SUFFICES ASSUME NEW b \in Batches, batch'[b].status = "none"
             PROVE  batch'[b].outcome = [i \in Items |-> "none"]
  BY DEF NothingEarly
<1> DEFINE r == batch[b]
           s == batch'[b]
<1>1. r \in BatchRows /\ s \in BatchRows /\ Way(r, s, Free(b))
  BY RowTrue DEF AllStep, Step
<1>2. \A k \in Kinds : Admitted(k).status = "queued"
  BY DEF Admitted, NoBatch
<1>3. ~Ends(r, s) /\ ~Gives(r, s) /\ ~Starts(r, s) /\ ~Asks(r, s) /\ ~Admits(r, s)
  <2>1. TerminalStatus(s) # "none"
    BY DEF TerminalStatus
  <2> HIDE DEF r, s
  <2> QED BY <1>2, <2>1 DEF Ends, Closes, Gives, Starts, Asks, Admits, s
<1>4. r.status = "none" /\ s.outcome = r.outcome
  BY <1>1, <1>3 DEF Way, Unchanged, Works, Goes
<1> QED BY <1>4 DEF BatchInv, NothingEarly

LEMMA NextHolds == BatchInv /\ [Next]_vars => BatchInv'
<1> SUFFICES ASSUME BatchInv, [Next]_vars PROVE BatchInv'
  OBVIOUS
<1>1. AllStep
  BY NextSteps
<1>2. RestTyped'
  BY NextTyped
<1>3. \A b \in Batches : RowInv(batch'[b])
  BY <1>1, StepSpent, RowTrue DEF AllStep
<1>4. batch' \in [Batches -> BatchRows]
  BY <1>1 DEF AllStep, Step
<1>5. TypeOK'
  BY <1>2, <1>4 DEF TypeOK, RestTyped, WorkerRows, ChildRows
<1>6. WorkingChildOwnsRow'
  <2>1. ChildrenWay
    BY NextChildren DEF BatchInv
  <2>2. children' \subseteq [b : Batches, f : Nat, phase : {"spawned", "ready", "working"}]
    BY <1>2 DEF RestTyped, ChildRows
  <2> QED BY <1>1, <2>1, <2>2, OwnersKept
<1>7. NothingEarly'
  BY <1>1, NothingEarlyKept
<1> QED BY <1>3, <1>5, <1>6, <1>7 DEF BatchInv, RowInv, SpentOf, Sound, RowOf, ItemsOf, ArtifactOf, TasksOf

\* Every reachable state satisfies the inductive invariant.
THEOREM BatchInvariance == Spec => []BatchInv
<1>1. Init => BatchInv
  BY InitHolds
<1>2. BatchInv /\ [Next]_vars => BatchInv'
  BY NextHolds
<1> QED BY <1>1, <1>2, PTL DEF Spec

\* All variables have their types.
THEOREM BatchTypes == Spec => []TypeOK
<1>1. BatchInv => TypeOK
  BY DEF BatchInv
<1> QED BY <1>1, BatchInvariance, PTL

\* RowClosed and the claims: running and cancelling batches, and no others, have one open
\* claim or attempt and its pin.
THEOREM BatchRowsFollow == Spec => []RowFollowsStatus
<1>1. BatchInv => RowFollowsStatus
  BY DEF BatchInv, RowInv, Sound, RowFollowsStatus, RowOf
<1> QED BY <1>1, BatchInvariance, PTL

\* Every transaction that decides items: items, child Runs and progress agree.
THEOREM BatchItemsAgree == Spec => []ItemsAgree
<1>1. BatchInv => ItemsAgree
  BY DEF BatchInv, RowInv, Sound, ItemsAgree, ItemsOf, DecidedItems
<1> QED BY <1>1, BatchInvariance, PTL

\* _acknowledge_private_artifact and _release_private_artifact_in_transaction: the private
\* artifact is there exactly while a sweep may reuse it.
THEOREM BatchArtifactAgrees == Spec => []ArtifactAgrees
<1>1. BatchInv => ArtifactAgrees
  BY DEF BatchInv, RowInv, Sound, ArtifactAgrees, ArtifactOf
<1> QED BY <1>1, BatchInvariance, PTL

\* A child calculates only for the open attempt of its batch.
THEOREM BatchChildren == Spec => []WorkingChildOwnsRow
<1>1. BatchInv => WorkingChildOwnsRow
  BY DEF BatchInv
<1> QED BY <1>1, BatchInvariance, PTL

LEMMA AttemptsWithinSpent == BatchInv => AttemptsBounded
<1> SUFFICES ASSUME BatchInv, NEW b \in Batches
             PROVE  batch[b].fence <= MaxTaskAttempts * (Cardinality(Tasks) + 1) + 1
  BY DEF AttemptsBounded
<1> DEFINE m == MaxTaskAttempts
           t == Cardinality(Tasks)
           s == Cardinality(Spent(batch[b]))
<1>1. batch[b].fence \in Nat /\ batch[b].fence <= m + s + 1
  BY RowTrue DEF RowInv, SpentOf, BatchRows
<1>2. s \in Nat /\ s <= m * t
  BY RowTrue, FiniteSpent
<1>3. m \in Nat /\ t \in Nat
  <2>1. IsFiniteSet(Items) /\ IsFiniteSet({Shared})
    BY FiniteItems, FS_Singleton
  <2> QED BY <2>1, FS_Union, FS_CardinalityType DEF Tasks
<1> HIDE DEF m, t, s
<1>4. m * (t + 1) = m * t + m /\ m * t \in Nat
  BY <1>3
<1>5. batch[b].fence <= m * (t + 1) + 1
  BY <1>1, <1>2, <1>3, <1>4
<1> QED BY <1>5 DEF m, t

\* A batch is claimed a bounded number of times: an attempt that is not one of the first
\* MaxTaskAttempts follows one that used up an attempt of some task.
THEOREM BatchAttempts == Spec => []AttemptsBounded
BY BatchInvariance, AttemptsWithinSpent, PTL

\* The rows of a batch, its items and child Runs, its artifact, its children and its count of
\* attempts tell one story, whoever wrote them and in whatever order.
THEOREM BatchRowsAgree == Spec => []RowsAgree
BY BatchRowsFollow, BatchItemsAgree, BatchArtifactAgrees, BatchChildren, BatchAttempts, PTL
   DEF RowsAgree

-----------------------------------------------------------------------------
(* Research Batches implement their contract *)

PhaseOf(r) == IF r.status \in {"queued", "running"} THEN "open" ELSE r.status

\* What the contract says of one batch, on its rows before and after a step.
Seen(r, s) ==
    LET decides(outcomes) ==
          \A i \in Items : IF r.outcome[i] = "none" THEN s.outcome[i] \in outcomes \cup {"none"}
                           ELSE s.outcome[i] = r.outcome[i]
        all == \A i \in Items : s.outcome[i] # "none"
    IN
    \/ PhaseOf(s) = PhaseOf(r) /\ s.outcome = r.outcome
    \/ PhaseOf(r) = "none" /\ PhaseOf(s) = "open" /\ s.outcome = r.outcome
    \/ PhaseOf(r) = "open" /\ PhaseOf(s) = "cancelling" /\ s.outcome = r.outcome
    \/ /\ PhaseOf(r) = "open" /\ decides({"succeeded", "failed"})
       /\ PhaseOf(s) = "open" \/ (all /\ PhaseOf(s) = TerminalStatus(s))
    \/ /\ PhaseOf(r) \in {"open", "cancelling"} /\ decides({"cancelled"}) /\ all
       /\ PhaseOf(s) = "cancelled"

LEMMA EndsSeen ==
    ASSUME NEW r \in BatchRows, NEW s \in BatchRows, Sound(s), Ends(r, s)
    PROVE  Seen(r, s)
<1>1. /\ r.status = "running"
      /\ \A i \in Items : IF r.outcome[i] = "none" THEN s.outcome[i] \in {"succeeded", "failed", "none"}
                          ELSE s.outcome[i] = r.outcome[i]
  BY DEF Ends, Closes
<1>2. CASE s.status = "queued"
  BY <1>1, <1>2 DEF Seen, PhaseOf
<1>3. CASE s.status # "queued"
  <2>1. s.status = TerminalStatus(s) /\ TerminalStatus(s) \in Final
    BY <1>3, ReopenedValues DEF Ends, Closes
  <2>2. \A i \in Items : s.outcome[i] # "none"
    BY <2>1 DEF Sound, ItemsOf, Incomplete
  <2> QED BY <1>1, <2>1, <2>2 DEF Seen, PhaseOf, Final
<1> QED BY <1>2, <1>3

LEMMA StepSeen ==
    ASSUME NEW r \in BatchRows, NEW s, NEW free, Step(r, s, free),
           r.status = "none" => r.outcome = [i \in Items |-> "none"]
    PROVE  Seen(r, s)
<1>0. s \in BatchRows /\ Sound(s)
  BY DEF Step
<1>1. CASE Unchanged(r, s)
  BY <1>1 DEF Unchanged, Seen
<1>2. CASE Admits(r, s)
  BY <1>2 DEF Admits, Admitted, NoBatch, Seen, PhaseOf
<1>3. CASE Asks(r, s)
  BY <1>3 DEF Asks, Seen, PhaseOf
<1>4. CASE Works(r, s)
  <2>1. CASE s.outcome = r.outcome
    BY <1>4, <2>1 DEF Works, Goes, Seen, PhaseOf
  <2>2. CASE s.outcome # r.outcome
    BY <1>4, <2>2 DEF Works, Goes, Seen, PhaseOf
  <2> QED BY <2>1, <2>2
<1>5. CASE Ends(r, s)
  BY <1>0, <1>5, EndsSeen
<1>6. CASE Gives(r, s)
  <2>1. \A i \in Items : s.outcome[i] = IF r.outcome[i] = "none" THEN "cancelled" ELSE r.outcome[i]
    BY <1>6 DEF Gives
  <2> QED BY <1>6, <2>1 DEF Gives, Seen, PhaseOf
<1>7. CASE Starts(r, s)
  <2>1. PICK m \in BatchRows :
          /\ Sound(m) /\ m.status = "queued" /\ (m = r \/ Ends(r, m))
          /\ s.status = "running" /\ s.outcome = m.outcome
    BY <1>7 DEF Starts
  <2>2. CASE m = r
    BY <2>1, <2>2 DEF Seen, PhaseOf
  <2>3. CASE Ends(r, m)
    BY <2>1, <2>3 DEF Ends, Closes, Seen, PhaseOf
  <2> QED BY <2>1, <2>2, <2>3
<1> QED BY <1>1, <1>2, <1>3, <1>4, <1>5, <1>6, <1>7 DEF Step, Way

LEMMA SeenOf ==
    ASSUME BatchInv, AllStep, NEW b \in Batches, Seen(batch[b], batch'[b])
    PROVE  \/ Contract!Keeps(b) \/ Contract!Admit(b) \/ Contract!AskCancel(b)
           \/ Contract!Progress(b) \/ Contract!Cancel(b)
BY DEF Seen, PhaseOf, TerminalStatus, Contract!Keeps, Contract!Admit, Contract!AskCancel,
       Contract!Progress, Contract!Cancel, Contract!Decides, Contract!AllDecided, Contract!Verdict

LEMMA InitImplements == Init => Contract!Init
BY DEF Init, NoBatch, Contract!Init

LEMMA StepImplements == BatchInv /\ [Next]_vars => Contract!Next
<1> SUFFICES ASSUME BatchInv, [Next]_vars PROVE Contract!Next
  OBVIOUS
<1>1. AllStep
  BY NextSteps
<1>2. \A b \in Batches : batch'[b] \in BatchRows /\ Seen(batch[b], batch'[b])
  BY <1>1, StepSeen, RowTrue DEF AllStep, Step, BatchInv, NothingEarly
<1>3. [b \in Batches |-> PhaseOf(batch'[b])] \in [Batches -> Contract!Phases]
  BY <1>2 DEF BatchRows, Final, PhaseOf, Contract!Phases, Contract!Verdicts
<1>4. [b \in Batches |-> batch'[b].outcome] \in [Batches -> [Items -> Contract!Outcomes]]
  BY <1>2 DEF BatchRows, Contract!Outcomes
<1> QED BY <1>1, <1>2, <1>3, <1>4, SeenOf DEF PhaseOf, Contract!Next

\* What a researcher sees of Research Batches is a behaviour of BatchContract: whichever
\* Worker, recovery or command writes, no outcome and no verdict changes.
THEOREM BatchRefinement == Spec => ImplementsContract
<1>1. Init => Contract!Init
  BY InitImplements
<1>2. BatchInv /\ [Next]_vars => [Contract!Next]_Contract!vars
  BY StepImplements
<1> QED BY <1>1, <1>2, BatchInvariance, PTL DEF Spec, ImplementsContract, Contract!Spec

=============================================================================
