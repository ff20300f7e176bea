------------------------- MODULE DataLifecycleProofs -------------------------
(***************************************************************************)
(* Proofs about DataLifecycle, for any generations and files, any number   *)
(* of refreshes, workers, owners and collections.                          *)
(*                                                                         *)
(* That no needed file is deleted rests on the rows alone: claims carry    *)
(* tokens of their own (TokensDiffer), so a stale worker changes no row;   *)
(* a running refresh and a running collection exclude each other; and a    *)
(* plan is disjoint from what its roots reach (PlansDisjoint), to which    *)
(* the Head belongs whenever a target is being deleted (TargetFree).       *)
(***************************************************************************)
EXTENDS DataLifecycle, TLAPS

Working == {"claimed", "collecting", "writing", "protected", "moved"}
Planned == {"executing", "deleting", "deleted"}
Planning == {"started", "snapshot", "inspected"}

\* A worker's job names an operation, and the later steps a generation.
JobsNamed ==
    \A w \in Workers :
        /\ worker[w].pc \in Working \cup {"noted"} => worker[w].op \in Operations
        /\ worker[w].pc \in Working => worker[w].token # 0
        /\ worker[w].pc \in {"writing", "protected", "moved"} => worker[w].generation \in Generations
        /\ worker[w].pc \in Working \ {"claimed"} => worker[w].expected \in Generations

\* Rows: a retry is left while accepted, a deleted receipt says nothing, submissions in order.
RowsShaped ==
    \A k \in Operations :
        /\ ops[k].status = "accepted" => ops[k].attempts < MaxAttempts
        /\ ops[k].status = "none" => ops[k].attempts = 0
        /\ ops[k].status = "deleted" => ops[k] = Deleted
        /\ ops[k].status # "none" => \A j \in Operations : j < k => ops[j].status # "none"

OwnersNamed == \A o \in Owners : owner[o].pc # "idle" => owner[o].generation \in Generations

\* No two claims of one operation carry the same token, none is ahead of its row.
TokensDiffer ==
    /\ \A w \in Workers : worker[w].pc \in Working =>
          \/ ops[worker[w].op].status = "deleted"
          \/ worker[w].token <= ops[worker[w].op].attempts
    /\ \A v, w \in Workers :
          /\ worker[v].pc \in Working /\ worker[w].pc \in Working
          /\ worker[v].op = worker[w].op /\ worker[v].token = worker[w].token
          => v = w

\* The claim of w is the one its row was given to last.
Latest(w) == Running(worker[w].op) /\ ops[worker[w].op].attempts = worker[w].token

\* What a worker knows of its own claim: no generation recorded before the candidate is
\* protected, what it wrote still there, the candidate released once the Head has moved.
ClaimsHonest ==
    \A w \in Workers :
        /\ worker[w].pc \in {"claimed", "collecting", "writing"} /\ Latest(w) =>
              ops[worker[w].op].generation = "none"
        /\ worker[w].pc = "writing" /\ Latest(w) => worker[w].written \subseteq files
        /\ worker[w].pc = "moved" => candidates[OperationId(w)] = "none"

\* One collection runs at a time, the collector's own once it has planned.
OneCollection ==
    /\ \A c, d \in Collections :
          collections[c].status = "running" /\ collections[d].status = "running" => c = d
    /\ collector.pc # "idle" => collector.key \in Collections
    /\ collector.pc \in Planning => ~ CollectionActive
    /\ collector.pc \in Planned => collections[collector.key].status = "running"

PlansDisjoint ==
    \A c \in Collections : collections[c].status = "running" =>
        collections[c].targets \cap Reachable(collections[c].roots) = {}

InspectedPresent == collector.pc = "inspected" => Reachable(collector.roots) \subseteq files

TargetFree ==
    collector.pc \in {"deleting", "deleted"} =>
        /\ collector.file \in collections[collector.key].targets
        /\ head \in collections[collector.key].roots

Shape == TypeOK /\ JobsNamed /\ RowsShaped /\ OwnersNamed
DataInv ==
    /\ Shape /\ TokensDiffer /\ ClaimsHonest /\ OneCollection /\ PlansDisjoint
    /\ InspectedPresent /\ TargetFree
    /\ WorkExcludesCollection /\ NoLeakedCandidate /\ FifoOrder
    /\ PublishedDataIntact /\ PlannedRootsIntact

-----------------------------------------------------------------------------
(* Types *)

\* A worker's claim has an operation id.
LEMMA ClaimHasId ==
    ASSUME Shape, NEW w \in Workers, worker[w].pc \in Working
    PROVE  /\ worker[w].op \in Operations /\ worker[w].token \in 1..MaxAttempts
           /\ OperationId(w) \in OperationIds
<1>1. worker[w].token \in 0..MaxAttempts /\ worker[w].token # 0 /\ worker[w].op \in Operations
  BY DEF Shape, TypeOK, WorkerState, JobsNamed
<1>2. worker[w].token \in 1..MaxAttempts BY <1>1, AttemptsAssumption
<1> QED BY <1>1, <1>2 DEF OperationId, OperationIds

\* Releasing candidates leaves the others as they are.
LEMMA ReleasedShape ==
    ASSUME Shape, NEW ids
    PROVE  /\ Released(ids) \in [OperationIds -> Maybe(Generations)]
           /\ \A i \in OperationIds : Released(ids)[i] = IF i \in ids THEN "none" ELSE candidates[i]
BY DEF Shape, TypeOK, Released, Maybe

\* What _record_failure and the recovery of expired claims write is a row again.
LEMMA FailureShape ==
    ASSUME NEW row \in RefreshRow, NEW retryable \in BOOLEAN
    PROVE  LET after == AfterFailure(row, retryable)
           IN  /\ after \in RefreshRow /\ after.attempts = row.attempts
               /\ after.status \in {"accepted", "failed"}
               /\ after.status = "accepted" => after.attempts < MaxAttempts
BY AttemptsAssumption DEF AfterFailure, RefreshRow, Row, Maybe

\* The roots of a collection are generations.
LEMMA RootsAreGenerations ==
    ASSUME Shape
    PROVE  RetentionRoots \subseteq Generations /\ head \in RetentionRoots
<1>1. RootsOfPins \subseteq Generations BY DEF Shape, OwnersNamed, RootsOfPins
<1>2. RootsOfCandidates \subseteq Generations
  BY DEF Shape, TypeOK, OwnersNamed, RootsOfCandidates, Maybe
<1> QED BY <1>1, <1>2 DEF RetentionRoots, Shape, TypeOK

\* The files of a set of generations.
LEMMA ReachableShape ==
    ASSUME NEW roots \in SUBSET Generations
    PROVE  /\ Reachable(roots) \subseteq Files
           /\ \A g \in roots : FilesOf[g] \subseteq Reachable(roots)
BY DEF Reachable, Files

-----------------------------------------------------------------------------
(* Submission, cancellation, leases: one row changes, no worker does *)

\* Submit and Cancel.
LEMMA SubmissionStep ==
    ASSUME DataInv, NEW k \in Operations, Submit(k) \/ Cancel(k)
    PROVE  DataInv'
<1> USE DEF DataInv, Shape
<1>1. /\ ops' \in [Operations -> RefreshRow]
      /\ \A j \in Operations : j # k => ops'[j] = ops[j]
      /\ ops[k].status \in {"none", "accepted"} /\ ops'[k].status \in {"accepted", "cancelled"}
      /\ ops'[k].attempts = ops[k].attempts
      /\ UNCHANGED <<files, head, candidates, owner, collections, worker, collector>>
  BY AttemptsAssumption DEF Submit, Cancel, TypeOK, RowsShaped, RefreshRow, Row, Maybe
<1>2. TypeOK' BY <1>1 DEF TypeOK
<1>3. JobsNamed' /\ OwnersNamed' BY <1>1 DEF JobsNamed, OwnersNamed
<1>4. RowsShaped'
  BY <1>1, AttemptsAssumption, OperationsAssumption DEF RowsShaped, Submit, Cancel, Row, TypeOK, RefreshRow
<1>5. TokensDiffer' BY <1>1 DEF TokensDiffer, JobsNamed, TypeOK, WorkerState
<1>6. ClaimsHonest'
  <2>1. \A w \in Workers : worker[w].pc \in Working /\ Latest(w)' => worker[w].op # k
    BY <1>1 DEF Latest, Running, JobsNamed
  <2> QED BY <1>1, <2>1 DEF ClaimsHonest, Latest, Running, OperationId, JobsNamed, Working
<1>7. OneCollection' /\ PlansDisjoint' /\ InspectedPresent' /\ TargetFree' /\ PlannedRootsIntact'
  BY <1>1 DEF OneCollection, PlansDisjoint, InspectedPresent, TargetFree, PlannedRootsIntact,
              CollectionActive
<1>8. WorkExcludesCollection'
  BY <1>1 DEF WorkExcludesCollection, CollectionActive, DataWorkActive, Running
<1>9. NoLeakedCandidate' BY <1>1 DEF NoLeakedCandidate, Running
<1>10. FifoOrder'
  BY <1>1 DEF FifoOrder, Running, Settled, Deleted, Row
<1>11. PublishedDataIntact' BY <1>1 DEF PublishedDataIntact
<1> QED BY <1>2, <1>3, <1>4, <1>5, <1>6, <1>7, <1>8, <1>9, <1>10, <1>11

\* LeaseLapses.
LEMMA LeaseStep ==
    ASSUME DataInv, NEW k \in Operations, LeaseLapses(k)
    PROVE  DataInv'
<1> USE DEF DataInv, Shape
<1>1. /\ ops' \in [Operations -> RefreshRow]
      /\ \A j \in Operations : j # k => ops'[j] = ops[j]
      /\ ops[k].status = "running" /\ ops'[k].status = "running"
      /\ ops'[k].attempts = ops[k].attempts /\ ops'[k].generation = ops[k].generation
      /\ UNCHANGED <<files, head, candidates, owner, collections, worker, collector>>
  BY DEF LeaseLapses, Running, TypeOK, RefreshRow, Maybe
<1>2. TypeOK' BY <1>1 DEF TypeOK
<1>3. JobsNamed' /\ OwnersNamed' BY <1>1 DEF JobsNamed, OwnersNamed
<1>4. RowsShaped' BY <1>1 DEF RowsShaped
<1>5. TokensDiffer' BY <1>1 DEF TokensDiffer, JobsNamed
<1>6. ClaimsHonest' BY <1>1 DEF ClaimsHonest, Latest, Running, OperationId, JobsNamed, Working
<1>7. OneCollection' /\ PlansDisjoint' /\ InspectedPresent' /\ TargetFree' /\ PlannedRootsIntact'
  BY <1>1 DEF OneCollection, PlansDisjoint, InspectedPresent, TargetFree, PlannedRootsIntact,
              CollectionActive
<1>8. WorkExcludesCollection'
  BY <1>1 DEF WorkExcludesCollection, CollectionActive, DataWorkActive, Running
<1>9. NoLeakedCandidate' BY <1>1 DEF NoLeakedCandidate, Running
<1>10. FifoOrder' BY <1>1 DEF FifoOrder, Running, Settled, Deleted, Row
<1>11. PublishedDataIntact' BY <1>1 DEF PublishedDataIntact
<1> QED BY <1>2, <1>3, <1>4, <1>5, <1>6, <1>7, <1>8, <1>9, <1>10, <1>11

-----------------------------------------------------------------------------
(* Refresh worker *)

\* Work on the mount adds files and leaves the collections' side as it is.
LEMMA CollectionsSame ==
    ASSUME DataInv, files \subseteq files',
           UNCHANGED <<head, owner, collections, collector>>
    PROVE  /\ OwnersNamed' /\ OneCollection' /\ PlansDisjoint' /\ InspectedPresent'
           /\ TargetFree' /\ PlannedRootsIntact'
BY DEF DataInv, Shape, OwnersNamed, OneCollection, PlansDisjoint, InspectedPresent, TargetFree,
       PlannedRootsIntact, CollectionActive

\* A step that changes one worker's job, and no row: it keeps its claim or drops it.
LEMMA JobStep ==
    ASSUME DataInv, NEW w \in Workers, NEW job \in WorkerState,
           worker' = [worker EXCEPT ![w] = job],
           files \subseteq files', files' \subseteq Files,
           UNCHANGED <<head, ops, candidates, owner, collections, collector>>,
           job.pc = "noted" => job.op \in Operations,
           job.pc \in Working => /\ worker[w].pc \in Working
                                 /\ job.op = worker[w].op /\ job.token = worker[w].token
                                 /\ job.pc # "claimed" => job.expected \in Generations,
           job.pc \in {"writing", "protected", "moved"} => job.generation \in Generations,
           job.pc \in {"claimed", "collecting", "writing"} =>
               worker[w].pc \in {"claimed", "collecting", "writing"},
           job.pc = "writing" /\ Latest(w) => job.written \subseteq files',
           job.pc = "moved" => worker[w].pc = "moved"
    PROVE  DataInv'
<1> USE DEF DataInv, Shape
<1>1. /\ worker' \in [Workers -> WorkerState] /\ worker'[w] = job
      /\ \A v \in Workers : v # w => worker'[v] = worker[v]
  BY DEF TypeOK
<1>2. TypeOK' BY <1>1 DEF TypeOK
<1>3. JobsNamed' BY <1>1 DEF JobsNamed, Working
<1>4. RowsShaped' BY DEF RowsShaped
<1>5. TokensDiffer' BY <1>1 DEF TokensDiffer
<1>6. ClaimsHonest'
  <2>1. job.pc \in Working => OperationId(w)' = OperationId(w) /\ Latest(w)' = Latest(w)
    BY <1>1 DEF OperationId, Latest, Running
  <2>2. \A v \in Workers : v # w => OperationId(v)' = OperationId(v) /\ Latest(v)' = Latest(v)
    BY <1>1 DEF OperationId, Latest, Running
  <2> QED BY <1>1, <2>1, <2>2 DEF ClaimsHonest, Working
<1>7. WorkExcludesCollection' /\ NoLeakedCandidate' /\ FifoOrder'
  BY DEF WorkExcludesCollection, NoLeakedCandidate, FifoOrder, CollectionActive, DataWorkActive,
         Running, Settled
<1>8. PublishedDataIntact' BY DEF PublishedDataIntact
<1> QED BY <1>2, <1>3, <1>4, <1>5, <1>6, <1>7, <1>8, CollectionsSame

\* OpenWork, ReadPending, Materialize, WriteFile, a crash and a lost session.
LEMMA WorkerLocalStep ==
    ASSUME DataInv, NEW w \in Workers,
           \/ OpenWork(w) \/ ReadPending(w) \/ WorkerCrash(w) \/ WorkerSessionLost(w)
           \/ \E g \in Generations : Materialize(w, g)
           \/ \E f \in Files : WriteFile(w, f)
    PROVE  DataInv'
<1>1. /\ worker[w] \in WorkerState /\ files \subseteq Files
      /\ worker[w].pc \in Working => worker[w].op \in Operations
      /\ worker[w].pc = "noted" => worker[w].op \in Operations
      /\ worker[w].pc \in {"writing", "protected", "moved"} => worker[w].generation \in Generations
      /\ worker[w].pc \in Working \ {"claimed"} => worker[w].expected \in Generations
      /\ worker[w].pc = "writing" /\ Latest(w) => worker[w].written \subseteq files
  BY DEF DataInv, Shape, TypeOK, JobsNamed, ClaimsHonest
<1>h. head \in Generations BY DEF DataInv, Shape, TypeOK
<1>2. CASE OpenWork(w)
  <2> DEFINE job == Job("polling", 0, 0, "none", "none", {}, "held")
  <2>1. job \in WorkerState BY AttemptsAssumption DEF Job, WorkerState, Maybe
  <2>2. job.pc = "polling" /\ worker' = [worker EXCEPT ![w] = job] BY <1>2 DEF OpenWork, Job
  <2> HIDE DEF job
  <2> QED BY <1>2, <1>1, <2>1, <2>2, JobStep DEF OpenWork, Working
<1>3. CASE ReadPending(w)
  <2>1. CASE \E k \in Reconcilable :
               worker' = [worker EXCEPT ![w] = Job("noted", k, 0, "none", head, {}, @.session)]
    <3>1. PICK k \in Reconcilable :
               worker' = [worker EXCEPT ![w] = Job("noted", k, 0, "none", head, {}, @.session)]
      BY <2>1
    <3> DEFINE job == Job("noted", k, 0, "none", head, {}, worker[w].session)
    <3>2. job \in WorkerState /\ job.pc = "noted" /\ job.op \in Operations
      BY <1>1, <1>h, AttemptsAssumption DEF Job, WorkerState, Maybe, Reconcilable
    <3>3. worker' = [worker EXCEPT ![w] = job] BY <3>1
    <3> HIDE DEF job
    <3> QED BY <1>3, <1>1, <3>2, <3>3, JobStep DEF ReadPending, Working
  <2>2. CASE Proceed(w, "reconciled")
    <3> DEFINE job == [worker[w] EXCEPT !.pc = "reconciled"]
    <3>1. job \in WorkerState /\ job.pc = "reconciled" BY <1>1 DEF WorkerState
    <3>2. worker' = [worker EXCEPT ![w] = job] BY <2>2 DEF Proceed
    <3> HIDE DEF job
    <3> QED BY <1>3, <1>1, <3>1, <3>2, JobStep DEF ReadPending, Working
  <2> QED BY <1>3, <2>1, <2>2 DEF ReadPending
<1>4. CASE WorkerCrash(w)
  <2>1. NoJob \in WorkerState /\ NoJob.pc = "idle"
    BY AttemptsAssumption DEF NoJob, Job, WorkerState, Maybe
  <2> QED BY <1>4, <1>1, <2>1, JobStep DEF WorkerCrash, Close, Working
<1>5. CASE WorkerSessionLost(w)
  <2> DEFINE job == [worker[w] EXCEPT !.session = "lost"]
  <2>1. /\ job \in WorkerState /\ job.pc = worker[w].pc /\ job.op = worker[w].op
        /\ job.token = worker[w].token /\ job.expected = worker[w].expected
        /\ job.generation = worker[w].generation /\ job.written = worker[w].written
    BY <1>1 DEF WorkerState, Maybe
  <2>2. worker' = [worker EXCEPT ![w] = job] BY <1>5 DEF WorkerSessionLost
  <2> HIDE DEF job
  <2> QED BY <1>5, <1>1, <2>1, <2>2, JobStep DEF WorkerSessionLost, Working
<1>6. CASE \E g \in Generations : Materialize(w, g)
  <2>1. PICK g \in Generations : Materialize(w, g) BY <1>6
  <2> DEFINE job == Job("writing", worker[w].op, worker[w].token, worker[w].expected, g, {},
                        worker[w].session)
  <2>2. /\ job \in WorkerState /\ job.pc = "writing" /\ job.op = worker[w].op
        /\ job.token = worker[w].token /\ job.expected = worker[w].expected
        /\ job.generation = g /\ job.written = {}
    BY <1>1 DEF Job, WorkerState, Maybe
  <2>3. worker' = [worker EXCEPT ![w] = job] BY <2>1 DEF Materialize
  <2> HIDE DEF job
  <2> QED BY <1>1, <2>1, <2>2, <2>3, JobStep DEF Materialize, Working
<1>7. CASE \E f \in Files : WriteFile(w, f)
  <2>1. PICK f \in Files : WriteFile(w, f) BY <1>7
  <2> DEFINE job == [worker[w] EXCEPT !.written = @ \cup {f}]
  <2>2. /\ job \in WorkerState /\ job.pc = "writing" /\ job.op = worker[w].op
        /\ job.token = worker[w].token /\ job.expected = worker[w].expected
        /\ job.generation = worker[w].generation /\ job.written = worker[w].written \cup {f}
    BY <1>1, <2>1 DEF WriteFile, WorkerState, Maybe
  <2>3. worker' = [worker EXCEPT ![w] = job] BY <2>1 DEF WriteFile
  <2>4. /\ files' = files \cup {f} /\ worker[w].pc = "writing"
        /\ UNCHANGED <<head, ops, candidates, owner, collections, collector>>
    BY <2>1 DEF WriteFile
  <2>5. /\ files \subseteq files' /\ files' \subseteq Files
        /\ job.pc # "noted" /\ job.pc # "moved" /\ worker[w].pc \in Working
        /\ job.expected \in Generations /\ job.generation \in Generations
        /\ Latest(w) => job.written \subseteq files'
    BY <1>1, <2>2, <2>4 DEF Working
  <2> HIDE DEF job
  <2> QED BY <2>2, <2>3, <2>4, <2>5, JobStep
<1> QED BY <1>2, <1>3, <1>4, <1>5, <1>6, <1>7

\* The steps that end claims: the operations in ended leave "running" with the attempt they
\* had, no candidate is added and theirs are gone, the worker gives its claim up.
LEMMA EndingStep ==
    ASSUME DataInv, NEW w \in Workers, NEW job \in WorkerState,
           NEW ended \in SUBSET {k \in Operations : Running(k)},
           worker' = [worker EXCEPT ![w] = job], job.pc \notin Working, job.pc # "noted",
           UNCHANGED <<files, head, owner, collections, collector>>,
           ops' \in [Operations -> RefreshRow],
           \A k \in Operations \ ended : ops'[k] = ops[k],
           \A k \in ended : /\ ops'[k].status \in {"accepted", "failed", "succeeded"}
                            /\ ops'[k].attempts = ops[k].attempts
                            /\ ops'[k].status = "accepted" => ops'[k].attempts < MaxAttempts,
           candidates' \in [OperationIds -> Maybe(Generations)],
           \A i \in OperationIds : candidates'[i] \in {candidates[i], "none"},
           \A k \in ended, a \in 1..MaxAttempts : candidates'[<<k, a>>] = "none"
    PROVE  DataInv'
<1> USE DEF DataInv, Shape
<1>1. /\ worker' \in [Workers -> WorkerState] /\ worker'[w] = job
      /\ \A v \in Workers : v # w => worker'[v] = worker[v]
  BY DEF TypeOK
<1>2. \A v \in Workers : worker'[v].pc \in Working \cup {"noted"} => worker'[v] = worker[v]
  BY <1>1
<1>3. TypeOK' BY <1>1 DEF TypeOK
<1>4. JobsNamed' BY <1>2 DEF JobsNamed, Working
<1>5. RowsShaped' BY DEF RowsShaped, Running, Deleted, Row
<1>6. TokensDiffer'
  <2>1. \A k \in Operations : ops[k].status = "deleted" => ops'[k].status = "deleted"
    BY DEF Running
  <2>2. \A k \in Operations : ops'[k].attempts = ops[k].attempts OBVIOUS
  <2> QED BY <1>2, <2>1, <2>2 DEF TokensDiffer, JobsNamed
<1>7. ClaimsHonest'
  <2>1. \A v \in Workers : worker'[v].pc \in Working =>
           /\ Latest(v)' => Latest(v) /\ ops'[worker[v].op] = ops[worker[v].op]
           /\ OperationId(v)' = OperationId(v) /\ OperationId(v) \in OperationIds
    BY <1>2, ClaimHasId DEF JobsNamed, Latest, Running, OperationId
  <2> QED BY <1>2, <2>1 DEF ClaimsHonest, Working
<1>8. WorkExcludesCollection'
  BY DEF WorkExcludesCollection, CollectionActive, DataWorkActive, Running
<1>9. NoLeakedCandidate'
  <2> SUFFICES ASSUME NEW k \in Operations, NEW a \in 1..MaxAttempts,
                      candidates'[<<k, a>>] # "none"
               PROVE  (Running(k) /\ ops[k].attempts = a /\ ops[k].generation = candidates[<<k, a>>])'
    BY DEF NoLeakedCandidate
  <2>1. k \notin ended /\ candidates'[<<k, a>>] = candidates[<<k, a>>] BY DEF OperationIds
  <2> QED BY <2>1 DEF NoLeakedCandidate, Running
<1>10. FifoOrder' BY DEF FifoOrder, Running, Settled, Deleted, Row
<1>11. PublishedDataIntact' BY DEF PublishedDataIntact
<1> QED BY <1>3, <1>4, <1>5, <1>6, <1>7, <1>8, <1>9, <1>10, <1>11, CollectionsSame

\* Only the attempt that runs has a candidate, so releasing it leaves the row none.
LEMMA ReleasedAll ==
    ASSUME DataInv, NEW ended \in SUBSET {k \in Operations : Running(k)},
           candidates' = Released({<<k, ops[k].attempts>> : k \in ended})
    PROVE  /\ candidates' \in [OperationIds -> Maybe(Generations)]
           /\ \A i \in OperationIds : candidates'[i] \in {candidates[i], "none"}
           /\ \A k \in ended, a \in 1..MaxAttempts : candidates'[<<k, a>>] = "none"
<1>1. Shape /\ NoLeakedCandidate BY DEF DataInv
<1>2. /\ candidates' \in [OperationIds -> Maybe(Generations)]
      /\ \A i \in OperationIds : candidates'[i] =
            IF i \in {<<k, ops[k].attempts>> : k \in ended} THEN "none" ELSE candidates[i]
  BY <1>1, ReleasedShape
<1>3. \A k \in ended, a \in 1..MaxAttempts :
         <<k, a>> \in OperationIds /\ (candidates[<<k, a>>] # "none" => ops[k].attempts = a)
  BY <1>1 DEF NoLeakedCandidate, OperationIds
<1> QED BY <1>2, <1>3

\* ReconcilePendingCompletion, RecoverExpiredClaims.
LEMMA ReconciliationStep ==
    ASSUME DataInv, NEW w \in Workers,
           ReconcilePendingCompletion(w) \/ RecoverExpiredClaims(w)
    PROVE  DataInv'
<1>0. Shape /\ TypeOK /\ JobsNamed BY DEF DataInv, Shape
<1>1. CASE ReconcilePendingCompletion(w)
  <2> DEFINE k == worker[w].op
             job == Job("reconciled", 0, 0, "none", "none", {}, worker[w].session)
  <2>1. /\ job \in WorkerState /\ job.pc = "reconciled" /\ worker' = [worker EXCEPT ![w] = job]
        /\ k \in Operations
        /\ UNCHANGED <<files, head, owner, collections, collector>>
    BY <1>0, <1>1, AttemptsAssumption
    DEF ReconcilePendingCompletion, JobsNamed, Job, TypeOK, WorkerState, Maybe
  <2> HIDE DEF job
  <2>2. CASE UNCHANGED <<ops, candidates>>
    <3> DEFINE ended == {}
    <3>1. /\ ops' \in [Operations -> RefreshRow]
          /\ candidates' \in [OperationIds -> Maybe(Generations)]
          /\ \A i \in OperationIds : candidates'[i] \in {candidates[i], "none"}
      BY <1>0, <2>2 DEF TypeOK
    <3>2. /\ ended \in SUBSET {j \in Operations : Running(j)}
          /\ \A j \in Operations \ ended : ops'[j] = ops[j]
          /\ \A j \in ended : /\ ops'[j].status \in {"accepted", "failed", "succeeded"}
                              /\ ops'[j].attempts = ops[j].attempts
                              /\ ops'[j].status = "accepted" => ops'[j].attempts < MaxAttempts
          /\ \A j \in ended, a \in 1..MaxAttempts : candidates'[<<j, a>>] = "none"
      BY <2>2
    <3> HIDE DEF ended
    <3> QED BY <2>1, <3>1, <3>2, EndingStep DEF Working
  <2>3. CASE /\ Running(k)
             /\ candidates' = Released({<<k, ops[k].attempts>>})
             /\ ops' = IF ops[k].generation = "none" THEN ops
                       ELSE [ops EXCEPT ![k].status = "succeeded"]
    <3>1. candidates' = Released({<<j, ops[j].attempts>> : j \in {k}}) BY <2>3
    <3>2. {k} \in SUBSET {j \in Operations : Running(j)} BY <2>1, <2>3
    <3>3. /\ candidates' \in [OperationIds -> Maybe(Generations)]
          /\ \A i \in OperationIds : candidates'[i] \in {candidates[i], "none"}
          /\ \A a \in 1..MaxAttempts : candidates'[<<k, a>>] = "none"
      BY <3>1, <3>2, ReleasedAll
    <3>4. CASE ops[k].generation = "none"
      <4> DEFINE ended == {}
      <4>1. ops' \in [Operations -> RefreshRow] /\ ops' = ops
        BY <1>0, <2>3, <3>4 DEF TypeOK
      <4>2. /\ ended \in SUBSET {j \in Operations : Running(j)}
            /\ \A j \in Operations \ ended : ops'[j] = ops[j]
            /\ \A j \in ended : /\ ops'[j].status \in {"accepted", "failed", "succeeded"}
                                /\ ops'[j].attempts = ops[j].attempts
                                /\ ops'[j].status = "accepted" => ops'[j].attempts < MaxAttempts
            /\ \A j \in ended, a \in 1..MaxAttempts : candidates'[<<j, a>>] = "none"
        BY <4>1
      <4> HIDE DEF ended
      <4> QED BY <2>1, <3>3, <4>1, <4>2, EndingStep DEF Working
    <3>5. CASE ops[k].generation # "none"
      <4> DEFINE ended == {k}
      <4>1. /\ ops' \in [Operations -> RefreshRow] /\ \A j \in Operations \ {k} : ops'[j] = ops[j]
            /\ ops'[k].status = "succeeded" /\ ops'[k].attempts = ops[k].attempts
        BY <1>0, <2>1, <2>3, <3>5 DEF TypeOK, RefreshRow
      <4>2. /\ ended \in SUBSET {j \in Operations : Running(j)}
            /\ \A j \in Operations \ ended : ops'[j] = ops[j]
            /\ \A j \in ended : /\ ops'[j].status \in {"accepted", "failed", "succeeded"}
                                /\ ops'[j].attempts = ops[j].attempts
                                /\ ops'[j].status = "accepted" => ops'[j].attempts < MaxAttempts
            /\ \A j \in ended, a \in 1..MaxAttempts : candidates'[<<j, a>>] = "none"
        BY <3>2, <3>3, <4>1
      <4> HIDE DEF ended
      <4> QED BY <2>1, <3>3, <4>1, <4>2, EndingStep DEF Working
    <3> QED BY <3>4, <3>5
  <2> QED BY <1>1, <2>2, <2>3 DEF ReconcilePendingCompletion
<1>2. CASE RecoverExpiredClaims(w)
  <2> DEFINE job == [worker[w] EXCEPT !.pc = "recovered"]
  <2>1. /\ job \in WorkerState /\ job.pc = "recovered" /\ worker' = [worker EXCEPT ![w] = job]
        /\ UNCHANGED <<files, head, owner, collections, collector>>
    BY <1>0, <1>2 DEF RecoverExpiredClaims, Proceed, TypeOK, WorkerState
  <2> HIDE DEF job
  <2>2. Lapsed \in SUBSET {k \in Operations : Running(k)} BY DEF Lapsed
  <2>3. /\ candidates' \in [OperationIds -> Maybe(Generations)]
        /\ \A i \in OperationIds : candidates'[i] \in {candidates[i], "none"}
        /\ \A k \in Lapsed, a \in 1..MaxAttempts : candidates'[<<k, a>>] = "none"
    BY <1>2, <2>2, ReleasedAll DEF RecoverExpiredClaims
  <2>4. \A k \in Operations : ops[k] \in RefreshRow BY <1>0 DEF TypeOK
  <2>5. ops' = [k \in Operations |-> IF k \in Lapsed THEN AfterFailure(ops[k], TRUE) ELSE ops[k]]
    BY <1>2 DEF RecoverExpiredClaims
  <2>6. \A k \in Operations : /\ AfterFailure(ops[k], TRUE) \in RefreshRow
                              /\ AfterFailure(ops[k], TRUE).attempts = ops[k].attempts
                              /\ AfterFailure(ops[k], TRUE).status \in {"accepted", "failed"}
                              /\ AfterFailure(ops[k], TRUE).status = "accepted" =>
                                    AfterFailure(ops[k], TRUE).attempts < MaxAttempts
    BY <2>4, FailureShape
  <2>7. ops' \in [Operations -> RefreshRow] /\ \A k \in Operations \ Lapsed : ops'[k] = ops[k]
    BY <2>4, <2>5, <2>6
  <2>8. \A k \in Lapsed : /\ ops'[k].status \in {"accepted", "failed", "succeeded"}
                          /\ ops'[k].attempts = ops[k].attempts
                          /\ ops'[k].status = "accepted" => ops'[k].attempts < MaxAttempts
    BY <2>2, <2>5, <2>6
  <2> QED BY <2>1, <2>2, <2>3, <2>7, <2>8, EndingStep DEF Working
<1> QED BY <1>1, <1>2

\* A step of the same kind that changes no row.
LEMMA DroppedStep ==
    ASSUME DataInv, NEW w \in Workers, Close(w),
           UNCHANGED <<files, head, ops, candidates, owner, collections, collector>>
    PROVE  DataInv'
<1>1. NoJob \in WorkerState /\ NoJob.pc = "idle"
  BY AttemptsAssumption DEF NoJob, Job, WorkerState, Maybe
<1>2. files \subseteq Files BY DEF DataInv, Shape, TypeOK
<1> QED BY <1>1, <1>2, JobStep DEF Close, Working

\* CompleteNoChange and CompletePublished: the owner's row has no candidate.
LEMMA CompletionStep ==
    ASSUME DataInv, NEW w \in Workers, CompleteNoChange(w) \/ CompletePublished(w)
    PROVE  DataInv'
<1>0. Shape /\ TypeOK /\ NoLeakedCandidate /\ ClaimsHonest BY DEF DataInv, Shape
<1>1. /\ worker[w].pc \in {"collecting", "moved"} /\ Close(w)
      /\ UNCHANGED <<files, head, candidates, owner, collections, collector>>
  BY DEF CompleteNoChange, CompletePublished
<1>2. CASE UNCHANGED ops BY <1>1, <1>2, DroppedStep
<1>3. CASE /\ Owned(w)
           /\ \/ ops' = [ops EXCEPT ![worker[w].op] = Row("succeeded", @.attempts, @.lease, head, head)]
              \/ ops' = [ops EXCEPT ![worker[w].op].status = "succeeded"]
           /\ worker[w].pc = "collecting" \/ worker[w].pc = "moved"
  <2> DEFINE ended == {worker[w].op}
  <2>1. /\ worker[w].op \in Operations /\ worker[w].token \in 1..MaxAttempts
        /\ Running(worker[w].op) /\ ops[worker[w].op].attempts = worker[w].token
    BY <1>0, <1>1, <1>3, ClaimHasId DEF Working, Owned, Running
  <2>2. \A a \in 1..MaxAttempts : candidates[<<worker[w].op, a>>] = "none"
    <3> SUFFICES ASSUME NEW a \in 1..MaxAttempts, candidates[<<worker[w].op, a>>] # "none"
                 PROVE  FALSE
      OBVIOUS
    <3>1. /\ a = worker[w].token
          /\ ops[worker[w].op].generation = candidates[<<worker[w].op, a>>]
      BY <1>0, <2>1 DEF NoLeakedCandidate
    <3> QED BY <1>0, <1>1, <2>1, <3>1 DEF ClaimsHonest, Latest, OperationId
  <2>3. ops' \in [Operations -> RefreshRow]
    BY <1>0, <1>3, <2>1, SMTT(30) DEF TypeOK, RefreshRow, Row, Maybe
  <2>4. /\ ended \in SUBSET {j \in Operations : Running(j)}
        /\ \A j \in Operations \ ended : ops'[j] = ops[j]
        /\ \A j \in ended : /\ ops'[j].status \in {"accepted", "failed", "succeeded"}
                            /\ ops'[j].attempts = ops[j].attempts
                            /\ ops'[j].status = "accepted" => ops'[j].attempts < MaxAttempts
        /\ \A j \in ended, a \in 1..MaxAttempts : candidates'[<<j, a>>] = "none"
    BY <1>0, <1>1, <1>3, <2>1, <2>2 DEF TypeOK, RefreshRow, Row
  <2>5. /\ candidates' \in [OperationIds -> Maybe(Generations)]
        /\ \A i \in OperationIds : candidates'[i] \in {candidates[i], "none"}
    BY <1>0, <1>1 DEF TypeOK
  <2>6. NoJob \in WorkerState /\ NoJob.pc = "idle"
    BY AttemptsAssumption DEF NoJob, Job, WorkerState, Maybe
  <2> HIDE DEF ended
  <2> QED BY <1>1, <2>3, <2>4, <2>5, <2>6, EndingStep DEF Close, Working
<1> QED BY <1>2, <1>3 DEF CompleteNoChange, CompletePublished

\* WorkerFails.
LEMMA FailureStep ==
    ASSUME DataInv, NEW w \in Workers, WorkerFails(w)
    PROVE  DataInv'
<1>0. Shape /\ TypeOK BY DEF DataInv, Shape
<1>1. /\ worker[w].pc \in Working /\ Close(w)
      /\ UNCHANGED <<files, head, owner, collections, collector>>
  BY DEF WorkerFails, Working
<1>2. CASE UNCHANGED <<ops, candidates>> BY <1>1, <1>2, DroppedStep
<1>3. CASE /\ Owned(w)
           /\ \E retryable \in BOOLEAN :
                 ops' = [ops EXCEPT ![worker[w].op] = AfterFailure(@, retryable)]
           /\ candidates' = Released({OperationId(w)})
  <2> DEFINE ended == {worker[w].op}
  <2>1. /\ worker[w].op \in Operations /\ Running(worker[w].op)
        /\ OperationId(w) = <<worker[w].op, ops[worker[w].op].attempts>>
        /\ ops[worker[w].op] \in RefreshRow
    BY <1>0, <1>1, <1>3, ClaimHasId DEF Working, Owned, Running, OperationId, TypeOK
  <2>2. PICK retryable \in BOOLEAN :
            ops' = [ops EXCEPT ![worker[w].op] = AfterFailure(@, retryable)]
    BY <1>3
  <2> DEFINE after == AfterFailure(ops[worker[w].op], retryable)
  <2>3. /\ after \in RefreshRow /\ after.attempts = ops[worker[w].op].attempts
        /\ after.status \in {"accepted", "failed"}
        /\ after.status = "accepted" => after.attempts < MaxAttempts
    BY <2>1, FailureShape
  <2>4. ops' = [ops EXCEPT ![worker[w].op] = after] BY <2>2
  <2> HIDE DEF after
  <2>5. candidates' = Released({<<k, ops[k].attempts>> : k \in ended}) BY <1>3, <2>1
  <2>6. ended \in SUBSET {k \in Operations : Running(k)} BY <2>1
  <2>7. /\ candidates' \in [OperationIds -> Maybe(Generations)]
        /\ \A i \in OperationIds : candidates'[i] \in {candidates[i], "none"}
        /\ \A k \in ended, a \in 1..MaxAttempts : candidates'[<<k, a>>] = "none"
    BY <2>5, <2>6, ReleasedAll
  <2>8. ops' \in [Operations -> RefreshRow] BY <1>0, <2>3, <2>4 DEF TypeOK
  <2>9. /\ ended \in SUBSET {j \in Operations : Running(j)}
        /\ \A j \in Operations \ ended : ops'[j] = ops[j]
        /\ \A j \in ended : /\ ops'[j].status \in {"accepted", "failed", "succeeded"}
                            /\ ops'[j].attempts = ops[j].attempts
                            /\ ops'[j].status = "accepted" => ops'[j].attempts < MaxAttempts
        /\ \A j \in ended, a \in 1..MaxAttempts : candidates'[<<j, a>>] = "none"
    BY <1>0, <2>1, <2>3, <2>4, <2>7 DEF TypeOK
  <2>10. NoJob \in WorkerState /\ NoJob.pc = "idle"
    BY AttemptsAssumption DEF NoJob, Job, WorkerState, Maybe
  <2> HIDE DEF ended
  <2> QED BY <1>1, <2>7, <2>8, <2>9, <2>10, EndingStep DEF Close, Working
<1> QED BY <1>2, <1>3 DEF WorkerFails

\* Claim: the token is new to the operation, and the oldest accepted one is taken.
LEMMA ClaimStep ==
    ASSUME DataInv, NEW w \in Workers, Claim(w)
    PROVE  DataInv'
<1>0. Shape /\ TypeOK BY DEF DataInv, Shape
<1>1. worker[w].pc = "recovered" /\ UNCHANGED <<files, head, candidates, owner, collections, collector>>
  BY DEF Claim
<1>2. CASE Close(w) /\ UNCHANGED ops BY <1>1, <1>2, DroppedStep
<1>3. CASE \E k \in Operations :
             /\ Claimable(k)
             /\ ops' = [ops EXCEPT ![k] = Row("running", @.attempts + 1, "live", "none", "none")]
             /\ worker' = [worker EXCEPT ![w] =
                              Job("claimed", k, ops[k].attempts + 1, "none", "none", {}, @.session)]
  <2>1. PICK k \in Operations :
             /\ Claimable(k)
             /\ ops' = [ops EXCEPT ![k] = Row("running", @.attempts + 1, "live", "none", "none")]
             /\ worker' = [worker EXCEPT ![w] =
                              Job("claimed", k, ops[k].attempts + 1, "none", "none", {}, @.session)]
    BY <1>3
  <2> DEFINE job == Job("claimed", k, ops[k].attempts + 1, "none", "none", {}, worker[w].session)
  <2>2. /\ ops[k].status = "accepted" /\ ops[k].attempts \in 0..MaxAttempts
        /\ ops[k].attempts < MaxAttempts
    BY <1>0, <2>1 DEF Claimable, Shape, RowsShaped, TypeOK, RefreshRow
  <2>3. \A j \in Operations : ops[j].status # "running"
    BY <2>1 DEF Claimable, DataWorkActive, Running
  <2>4. /\ ops' \in [Operations -> RefreshRow]
        /\ \A j \in Operations : j # k => ops'[j] = ops[j]
        /\ ops'[k].status = "running" /\ ops'[k].attempts = ops[k].attempts + 1
        /\ ops'[k].generation = "none"
    BY <1>0, <2>1, <2>2, AttemptsAssumption DEF TypeOK, RefreshRow, Row, Maybe
  <2>5. /\ job \in WorkerState /\ job.pc = "claimed" /\ job.op = k
        /\ job.token = ops[k].attempts + 1
    BY <1>0, <2>2, AttemptsAssumption DEF Job, TypeOK, WorkerState, Maybe
  <2>6. worker' = [worker EXCEPT ![w] = job] BY <2>1
  <2> HIDE DEF job
  <2>7. /\ worker' \in [Workers -> WorkerState] /\ worker'[w] = job
        /\ \A v \in Workers : v # w => worker'[v] = worker[v]
    BY <1>0, <2>5, <2>6 DEF TypeOK
  <2>8. \A v \in Workers : worker[v].pc \in Working /\ worker[v].op = k =>
           worker[v].token \in 0..MaxAttempts /\ worker[v].token <= ops[k].attempts
    BY <1>0, <2>2 DEF DataInv, TokensDiffer, TypeOK, WorkerState
  <2>9. TypeOK' BY <1>0, <1>1, <2>4, <2>7 DEF TypeOK
  <2>10. JobsNamed' BY <1>0, <2>2, <2>5, <2>7 DEF Shape, JobsNamed, Working
  <2>11. RowsShaped' BY <1>0, <2>2, <2>4 DEF Shape, RowsShaped
  <2>12. TokensDiffer'
    <3>1. \A v \in Workers : worker'[v].pc \in Working =>
             ops'[worker'[v].op].status = "deleted" \/ worker'[v].token <= ops'[worker'[v].op].attempts
      BY <1>0, <2>2, <2>4, <2>5, <2>7, <2>8 DEF DataInv, TokensDiffer, Shape, JobsNamed
    <3>2. \A v \in Workers : v # w /\ worker[v].pc \in Working /\ worker[v].op = k =>
             worker[v].token # job.token
      BY <2>2, <2>5, <2>8
    <3> QED BY <2>5, <2>7, <3>1, <3>2 DEF DataInv, TokensDiffer
  <2>13. ClaimsHonest'
    <3>1. \A v \in Workers : v # w /\ worker[v].pc \in Working =>
             /\ OperationId(v)' = OperationId(v)
             /\ Latest(v)' => Latest(v) /\ ops'[worker[v].op] = ops[worker[v].op]
      <4> SUFFICES ASSUME NEW v \in Workers, v # w, worker[v].pc \in Working, Latest(v)'
                   PROVE  worker[v].op # k
        BY <1>0, <2>4, <2>7 DEF OperationId, Latest, Running, Shape, JobsNamed
      <4> QED BY <2>2, <2>4, <2>7, <2>8 DEF Latest, Running
    <3> QED BY <1>1, <2>4, <2>5, <2>7, <3>1 DEF DataInv, ClaimsHonest, Working
  <2>14. WorkExcludesCollection'
    BY <1>1, <2>1 DEF Claimable, WorkExcludesCollection, CollectionActive
  <2>15. NoLeakedCandidate' BY <1>1, <2>3 DEF DataInv, NoLeakedCandidate, Running
  <2>16. FifoOrder'
    <3> SUFFICES ASSUME NEW j \in Operations, j < k PROVE Settled(j)' \/ ops'[j] = Deleted
      BY <2>3, <2>4 DEF FifoOrder, Running
    <3>1. j # k /\ ~ (k <= j) BY OperationsAssumption
    <3>2. ops'[j] = ops[j] /\ ops[j].status # "accepted" /\ ops[j].status # "running"
      BY <2>1, <2>3, <2>4, <3>1 DEF Claimable
    <3>3. ops[j].status # "none" BY <1>0, <2>2 DEF Shape, RowsShaped
    <3> QED BY <1>0, <3>2, <3>3 DEF Shape, RowsShaped, TypeOK, RefreshRow, Settled
  <2>17. PublishedDataIntact' BY <1>1 DEF DataInv, PublishedDataIntact
  <2> QED BY <1>1, <2>9, <2>10, <2>11, <2>12, <2>13, <2>14, <2>15, <2>16, <2>17, CollectionsSame
      DEF DataInv, Shape
<1> QED BY <1>2, <1>3 DEF Claim

\* RecordExpectedHead and ProtectCandidate: the owner writes to its row.
LEMMA OwnerStep ==
    ASSUME DataInv, NEW w \in Workers, RecordExpectedHead(w) \/ ProtectCandidate(w)
    PROVE  DataInv'
<1>0. Shape /\ TypeOK BY DEF DataInv, Shape
<1> DEFINE k == worker[w].op
           g == worker[w].generation
           marked == ProtectCandidate(w)
<1>1. /\ worker[w].pc \in {"claimed", "writing"} /\ Owned(w)
      /\ worker[w].pc = "writing" <=> marked
      /\ worker'[w].pc = IF marked THEN "protected" ELSE "collecting"
      /\ worker'[w].op = k /\ worker'[w].token = worker[w].token
      /\ worker'[w].expected \in Generations
      /\ marked => worker'[w].generation = g /\ g \in Generations
      /\ worker' \in [Workers -> WorkerState]
      /\ \A v \in Workers : v # w => worker'[v] = worker[v]
      /\ UNCHANGED <<files, head, owner, collections, collector>>
  BY <1>0 DEF RecordExpectedHead, ProtectCandidate, Proceed, Shape, JobsNamed, Working, TypeOK,
              WorkerState, Job, Maybe
<1>2. /\ k \in Operations /\ worker[w].token \in 1..MaxAttempts /\ OperationId(w) \in OperationIds
      /\ OperationId(w) = <<k, worker[w].token>>
      /\ ops[k].status = "running" /\ ops[k].attempts = worker[w].token /\ Latest(w)
      /\ ops[k].generation = "none"
  BY <1>0, <1>1, ClaimHasId DEF Working, Owned, OperationId, Latest, Running, DataInv, ClaimsHonest
<1>3. /\ ops' \in [Operations -> RefreshRow] /\ \A j \in Operations : j # k => ops'[j] = ops[j]
      /\ ops'[k].status = "running" /\ ops'[k].attempts = ops[k].attempts
      /\ ops'[k].generation = IF marked THEN g ELSE "none"
  BY <1>0, <1>1, <1>2, SMTT(30) DEF RecordExpectedHead, ProtectCandidate, TypeOK, RefreshRow, Maybe
<1>4. /\ candidates' \in [OperationIds -> Maybe(Generations)]
      /\ \A i \in OperationIds : candidates'[i] =
            IF marked /\ i = OperationId(w) THEN g ELSE candidates[i]
  BY <1>0, <1>1, <1>2 DEF RecordExpectedHead, ProtectCandidate, TypeOK, Maybe
<1>5. marked => FilesOf[g] \subseteq files
  BY <1>2 DEF ProtectCandidate, DataInv, ClaimsHonest
<1> HIDE DEF marked
<1>6. TypeOK' BY <1>0, <1>1, <1>3, <1>4 DEF TypeOK
<1>7. JobsNamed' BY <1>0, <1>1, <1>2 DEF Shape, JobsNamed, Working
<1>8. RowsShaped' BY <1>0, <1>2, <1>3 DEF Shape, RowsShaped
<1>9. TokensDiffer' BY <1>0, <1>1, <1>2, <1>3 DEF DataInv, TokensDiffer, Shape, JobsNamed, Working
<1>10. \A v \in Workers : v # w /\ worker[v].pc \in Working =>
          /\ OperationId(v)' = OperationId(v) /\ OperationId(v) # OperationId(w)
          /\ OperationId(v) \in OperationIds
          /\ worker[v].op = k => ~ Latest(v)'
          /\ worker[v].op # k => /\ Latest(v)' <=> Latest(v)
                                 /\ ops'[worker[v].op] = ops[worker[v].op]
  <2> SUFFICES ASSUME NEW v \in Workers, v # w, worker[v].pc \in Working
               PROVE  /\ OperationId(v)' = OperationId(v) /\ OperationId(v) # OperationId(w)
                      /\ OperationId(v) \in OperationIds
                      /\ worker[v].op = k => ~ Latest(v)'
                      /\ worker[v].op # k => /\ Latest(v)' <=> Latest(v)
                                             /\ ops'[worker[v].op] = ops[worker[v].op]
    OBVIOUS
  <2>1. worker[v].op \in Operations /\ OperationId(v) \in OperationIds BY <1>0, ClaimHasId
  <2>2. worker[v].op = k => worker[v].token # worker[w].token
    BY <1>1 DEF DataInv, TokensDiffer, Working
  <2> QED BY <1>1, <1>2, <1>3, <2>1, <2>2 DEF OperationId, Latest, Running
<1>11. ClaimsHonest'
  <2>1. \A v \in Workers : v # w /\ worker[v].pc \in Working =>
           candidates'[OperationId(v)] = candidates[OperationId(v)]
    BY <1>4, <1>10
  <2> QED BY <1>1, <1>2, <1>3, <1>10, <2>1 DEF DataInv, ClaimsHonest, Working, Latest, Running
<1>12. WorkExcludesCollection'
  BY <1>1, <1>2 DEF DataInv, WorkExcludesCollection, CollectionActive, DataWorkActive, Running
<1>13. NoLeakedCandidate'
  BY <1>0, <1>2, <1>3, <1>4 DEF DataInv, NoLeakedCandidate, Running, OperationIds, OperationId
<1>14. FifoOrder' BY <1>2, <1>3 DEF DataInv, FifoOrder, Running, Settled, Deleted, Row
<1>15. PublishedDataIntact' BY <1>1, <1>4, <1>5 DEF DataInv, PublishedDataIntact
<1> QED BY <1>1, <1>6, <1>7, <1>8, <1>9, <1>11, <1>12, <1>13, <1>14, <1>15, CollectionsSame
    DEF DataInv, Shape

\* MoveHead: the new Head is a live candidate, whose files are on the mount; no collection
\* runs beside the row.
LEMMA MoveHeadStep ==
    ASSUME DataInv, NEW w \in Workers, MoveHead(w)
    PROVE  DataInv'
<1>0. Shape /\ TypeOK BY DEF DataInv, Shape
<1> DEFINE g == worker[w].generation
<1>1. /\ worker[w].pc = "protected" /\ Owned(w) /\ g \in Generations
      /\ candidates[OperationId(w)] = g /\ head' = g
      /\ UNCHANGED <<files, ops, owner, collections, collector>>
  BY <1>0 DEF MoveHead, Shape, JobsNamed
<1>2. /\ worker[w].op \in Operations /\ OperationId(w) \in OperationIds /\ Running(worker[w].op)
  BY <1>0, <1>1, ClaimHasId DEF Working, Owned, Running
<1>3. /\ worker' \in [Workers -> WorkerState]
      /\ \A v \in Workers : v # w => worker'[v] = worker[v]
      /\ \/ worker'[w] = [worker[w] EXCEPT !.pc = "moved"] /\ candidates' = Released({OperationId(w)})
         \/ worker'[w].pc = "idle" /\ UNCHANGED candidates
  BY <1>0, AttemptsAssumption DEF MoveHead, Proceed, Close, NoJob, Job, TypeOK, WorkerState, Maybe
<1>4. worker'[w].pc = "moved" => /\ worker'[w].op = worker[w].op
                                 /\ worker'[w].token = worker[w].token
                                 /\ worker'[w].expected = worker[w].expected
                                 /\ worker'[w].generation = g
                                 /\ candidates'[OperationId(w)] = "none"
  BY <1>0, <1>1, <1>2, <1>3, ReleasedShape DEF TypeOK, WorkerState
<1>5. worker'[w].pc \in {"moved", "idle"} BY <1>0, <1>3 DEF TypeOK, WorkerState
<1>6. /\ candidates' \in [OperationIds -> Maybe(Generations)]
      /\ \A i \in OperationIds : candidates'[i] \in {candidates[i], "none"}
  BY <1>0, <1>3, ReleasedShape DEF TypeOK
<1>7. TypeOK' BY <1>0, <1>1, <1>3, <1>6 DEF TypeOK
<1>8. JobsNamed' /\ RowsShaped' /\ OwnersNamed'
  BY <1>0, <1>1, <1>2, <1>3, <1>4, <1>5 DEF Shape, JobsNamed, RowsShaped, OwnersNamed, Working
<1>9. TokensDiffer' BY <1>0, <1>1, <1>3, <1>4, <1>5 DEF DataInv, TokensDiffer, Working
<1>10. ClaimsHonest'
  <2>1. \A v \in Workers : v # w /\ worker[v].pc \in Working =>
           OperationId(v)' = OperationId(v) /\ OperationId(v) \in OperationIds
    BY <1>0, <1>3, ClaimHasId DEF OperationId
  <2>2. worker'[w].pc = "moved" => candidates'[OperationId(w)'] = "none" BY <1>4 DEF OperationId
  <2> QED BY <1>1, <1>3, <1>5, <1>6, <2>1, <2>2 DEF DataInv, ClaimsHonest, Latest, Running, Working
<1>11. ~ CollectionActive BY <1>2 DEF DataInv, WorkExcludesCollection, DataWorkActive
<1>12. OneCollection' /\ PlansDisjoint' /\ InspectedPresent' /\ PlannedRootsIntact'
  BY <1>1 DEF DataInv, OneCollection, PlansDisjoint, InspectedPresent, PlannedRootsIntact,
              CollectionActive
<1>13. TargetFree'
  BY <1>1, <1>11 DEF DataInv, OneCollection, TargetFree, CollectionActive, Planned
<1>14. WorkExcludesCollection'
  BY <1>1, <1>11 DEF WorkExcludesCollection, CollectionActive
<1>15. NoLeakedCandidate'
  BY <1>1, <1>6 DEF DataInv, NoLeakedCandidate, Running, OperationIds
<1>16. FifoOrder' BY <1>1 DEF DataInv, FifoOrder, Running, Settled
<1>17. PublishedDataIntact'
  BY <1>1, <1>2, <1>6, NoneAssumption DEF DataInv, PublishedDataIntact
<1> QED BY <1>7, <1>8, <1>9, <1>10, <1>12, <1>13, <1>14, <1>15, <1>16, <1>17 DEF DataInv, Shape

-----------------------------------------------------------------------------
(* Owners and the collection *)

\* The refresh side is as it was: the rows, the claims, the candidates.
LEMMA WorkSame ==
    ASSUME DataInv, files \subseteq files', UNCHANGED <<head, ops, candidates, worker>>
    PROVE  /\ JobsNamed' /\ RowsShaped' /\ TokensDiffer' /\ ClaimsHonest'
           /\ NoLeakedCandidate' /\ FifoOrder' /\ PublishedDataIntact'
<1>1. JobsNamed' /\ RowsShaped' /\ TokensDiffer' BY DEF DataInv, Shape, JobsNamed, RowsShaped, TokensDiffer
<1>2. ClaimsHonest' BY DEF DataInv, ClaimsHonest, Latest, Running, OperationId
<1>3. NoLeakedCandidate' /\ FifoOrder' /\ PublishedDataIntact'
  BY DEF DataInv, NoLeakedCandidate, FifoOrder, PublishedDataIntact, Running, Settled
<1> QED BY <1>1, <1>2, <1>3

\* Freeze, Retain, LetGo: one owner, always with a generation unless idle.
LEMMA OwnerRowStep ==
    ASSUME DataInv, NEW o \in Owners, Own(o)
    PROVE  DataInv'
<1>0. Shape /\ TypeOK BY DEF DataInv, Shape
<1>1. UNCHANGED <<files, head, ops, candidates, collections, worker, collector>>
  BY DEF Own, Freeze, Retain, LetGo, UnchangedData
<1>2. PICK pc \in {"idle", "frozen", "retained", "pinned"}, g \in Maybe(Generations) :
         Hold(o, pc, g) /\ (pc # "idle" => g \in Generations)
  <2>1. CASE Freeze(o) BY <1>0, <2>1 DEF Freeze, TypeOK, Maybe
  <2>2. CASE \E pc \in {"retained", "pinned"} : Retain(o, pc)
    BY <1>0, <2>2 DEF Retain, Shape, OwnersNamed, Maybe
  <2>3. CASE LetGo(o) BY <2>3 DEF LetGo, Maybe
  <2> QED BY <2>1, <2>2, <2>3 DEF Own
<1>3. /\ owner' \in [Owners -> OwnerRow] /\ owner'[o] = [pc |-> pc, generation |-> g]
      /\ \A x \in Owners : x # o => owner'[x] = owner[x]
  BY <1>0, <1>2 DEF Hold, TypeOK, OwnerRow
<1>4. TypeOK' BY <1>0, <1>1, <1>3 DEF TypeOK
<1>5. OwnersNamed' BY <1>0, <1>2, <1>3 DEF Shape, OwnersNamed
<1>6. OneCollection' /\ PlansDisjoint' /\ InspectedPresent' /\ TargetFree' /\ PlannedRootsIntact'
      /\ WorkExcludesCollection'
  BY <1>1 DEF DataInv, OneCollection, PlansDisjoint, InspectedPresent, TargetFree,
              PlannedRootsIntact, WorkExcludesCollection, CollectionActive, DataWorkActive, Running
<1> QED BY <1>1, <1>4, <1>5, <1>6, WorkSame DEF DataInv, Shape

\* A step that moves the collector on and leaves files and collections as they are.
LEMMA CollectorStep ==
    ASSUME DataInv, NEW pass \in CollectorState, collector' = pass,
           UNCHANGED <<files, head, ops, candidates, owner, collections, worker>>,
           pass.pc # "idle" => pass.key = collector.key /\ collector.pc # "idle",
           pass.pc \in Planning => collector.pc \in Planning,
           pass.pc \in Planned => collector.pc \in Planned,
           pass.pc = "inspected" => Reachable(pass.roots) \subseteq files,
           pass.pc \in {"deleting", "deleted"} =>
               /\ pass.file \in collections[pass.key].targets
               /\ head \in collections[pass.key].roots
    PROVE  DataInv'
<1>1. TypeOK' BY DEF DataInv, Shape, TypeOK
<1>2. OneCollection' BY DEF DataInv, OneCollection, CollectionActive, Planned
<1>3. PlansDisjoint' /\ InspectedPresent' /\ TargetFree' /\ PlannedRootsIntact'
      /\ WorkExcludesCollection' /\ OwnersNamed'
  BY DEF DataInv, Shape, PlansDisjoint, InspectedPresent, TargetFree, PlannedRootsIntact,
         WorkExcludesCollection, CollectionActive, DataWorkActive, Running, OwnersNamed
<1> QED BY <1>1, <1>2, <1>3, WorkSame DEF DataInv, Shape

\* SnapshotRetention, InspectMount, a crash and a lost session.
LEMMA InspectionStep ==
    ASSUME DataInv, SnapshotRetention \/ InspectMount \/ CollectorCrash \/ CollectorSessionLost
    PROVE  DataInv'
<1>1. /\ collector \in CollectorState /\ files \subseteq Files
      /\ RetentionRoots \subseteq Generations
      /\ collector.pc = "inspected" => Reachable(collector.roots) \subseteq files
      /\ collector.pc \in {"deleting", "deleted"} =>
            /\ collector.file \in collections[collector.key].targets
            /\ head \in collections[collector.key].roots
  BY RootsAreGenerations DEF DataInv, Shape, TypeOK, InspectedPresent, TargetFree
<1>2. /\ UNCHANGED <<files, head, ops, candidates, owner, collections, worker>>
      /\ collector.pc # "idle" \/ CollectorSessionLost
  BY DEF SnapshotRetention, InspectMount, CollectorCrash, CollectorSessionLost, UnchangedWork
<1>3. CASE EndPass
  <2>1. NoPass \in CollectorState /\ NoPass.pc = "idle" BY DEF NoPass, Pass, CollectorState, Maybe
  <2> QED BY <1>2, <1>3, <2>1, CollectorStep DEF EndPass, Planning, Planned
<1>4. CASE /\ collector.pc = "started"
           /\ collector' = Pass("snapshot", collector.key, RetentionRoots, {}, "none",
                                collector.session)
  <2>1. collector' \in CollectorState /\ collector'.pc = "snapshot" /\ collector'.key = collector.key
    BY <1>1, <1>4 DEF Pass, CollectorState, Maybe
  <2> QED BY <1>2, <1>4, <2>1, CollectorStep DEF Planning, Planned
<1>5. CASE /\ collector.pc = "snapshot" /\ Reachable(collector.roots) \subseteq files
           /\ collector' = Pass("inspected", collector.key, collector.roots, files, "none",
                                collector.session)
  <2>1. /\ collector' \in CollectorState /\ collector'.pc = "inspected"
        /\ collector'.key = collector.key /\ collector'.roots = collector.roots
    BY <1>1, <1>5 DEF Pass, CollectorState, Maybe
  <2> QED BY <1>2, <1>5, <2>1, CollectorStep DEF Planning, Planned
<1>6. CASE CollectorSessionLost
  <2>1. /\ collector' \in CollectorState /\ collector'.pc = collector.pc
        /\ collector'.key = collector.key /\ collector'.roots = collector.roots
        /\ collector'.file = collector.file
    BY <1>1, <1>6 DEF CollectorSessionLost, CollectorState, Maybe
  <2> QED BY <1>1, <1>2, <2>1, CollectorStep
<1> QED BY <1>3, <1>4, <1>5, <1>6 DEF SnapshotRetention, InspectMount, CollectorCrash

\* BeginCollection: whatever was running is abandoned.
LEMMA BeginStep ==
    ASSUME DataInv, NEW c \in Collections, BeginCollection(c)
    PROVE  DataInv'
<1>0. Shape /\ TypeOK BY DEF DataInv, Shape
<1>1. UNCHANGED <<files, head, ops, candidates, owner, worker>>
  BY DEF BeginCollection, UnchangedWork
<1>2. /\ collections' \in [Collections -> CollectionRow]
      /\ \A x \in Collections : collections'[x].status # "running"
  BY <1>0 DEF BeginCollection, TypeOK, CollectionRow, Maybe
<1>3. collector' \in CollectorState /\ collector'.pc = "started" /\ collector'.key = c
  BY DEF BeginCollection, Pass, CollectorState, Maybe
<1>4. TypeOK' BY <1>0, <1>1, <1>2, <1>3 DEF TypeOK
<1>5. OneCollection'
  <2>1. ~ CollectionActive' BY <1>2 DEF CollectionActive
  <2>2. collector'.pc \notin Planned /\ collector'.key \in Collections BY <1>3 DEF Planned
  <2> QED BY <1>2, <2>1, <2>2 DEF OneCollection
<1>6. PlansDisjoint' /\ InspectedPresent' /\ TargetFree' /\ PlannedRootsIntact'
      /\ WorkExcludesCollection'
  BY <1>2, <1>3 DEF PlansDisjoint, InspectedPresent, TargetFree, PlannedRootsIntact,
                    WorkExcludesCollection, CollectionActive
<1>7. OwnersNamed' BY <1>0, <1>1 DEF Shape, OwnersNamed
<1> QED BY <1>1, <1>4, <1>5, <1>6, <1>7, WorkSame DEF DataInv, Shape

\* EnsurePlan: the roots were present when they were inspected and none of them needs a
\* target; no row is running, so the receipts that go with the plan concern nobody.
LEMMA PlanStep ==
    ASSUME DataInv, EnsurePlan
    PROVE  DataInv'
<1>0. Shape /\ TypeOK BY DEF DataInv, Shape
<1>1. /\ collector.pc = "inspected" /\ UNCHANGED <<files, head, candidates, owner, worker>>
      /\ collector \in CollectorState
  BY <1>0 DEF EnsurePlan, TypeOK
<1> DEFINE key == collector.key
           plan == collections[key]
           retained == Reachable(collector.roots)
           targets == IF plan.status = "none" THEN collector.inventory \ retained ELSE plan.targets
<1>2. CASE UNCHANGED <<collections, ops>>
  <2>1. CASE EndPass
    <3>1. NoPass \in CollectorState /\ NoPass.pc = "idle" BY DEF NoPass, Pass, CollectorState, Maybe
    <3> QED BY <1>1, <1>2, <2>1, <3>1, CollectorStep DEF EndPass, Planning, Planned
  <2>2. CASE collector' = Pass("started", collector.key, {}, {}, "none", collector.session)
    <3>1. collector' \in CollectorState /\ collector'.pc = "started" /\ collector'.key = key
      BY <1>1, <2>2 DEF Pass, CollectorState, Maybe
    <3> QED BY <1>1, <1>2, <3>1, CollectorStep DEF Planning, Planned
  <2>3. CASE /\ collections' = [collections EXCEPT ![collector.key] =
                                    Plan("running", targets, plan.deleted, collector.roots)]
             /\ PlanIsCurrent /\ Allowed(targets, retained)
             /\ collector' = Pass("executing", collector.key, {}, {}, "none", collector.session)
    <3>1. key \in Collections /\ ~ CollectionActive
      BY <1>1 DEF DataInv, OneCollection, Planning
    <3>2. plan.status # "running" /\ collections'[key].status = "running"
      BY <1>0, <2>3, <3>1 DEF CollectionActive, TypeOK, Plan
    <3> QED BY <1>2, <3>2
  <2> QED BY <1>2, <2>1, <2>2, <2>3 DEF EnsurePlan
<1>3. CASE /\ collections' = [collections EXCEPT ![collector.key] =
                                  Plan("running", targets, plan.deleted, collector.roots)]
           /\ PlanIsCurrent /\ Allowed(targets, retained)
           /\ \E gone \in SUBSET Expired(plan) :
                 ops' = [k \in Operations |-> IF k \in gone THEN Deleted ELSE ops[k]]
           /\ collector' = Pass("executing", collector.key, {}, {}, "none", collector.session)
  <2>1. key \in Collections /\ ~ CollectionActive
    BY <1>1 DEF DataInv, OneCollection, Planning
  <2>2. \A k \in Operations : ops[k].status # "running"
    BY <1>3 DEF PlanIsCurrent, DataWorkActive, Running
  <2>3. \A i \in OperationIds : candidates'[i] = "none"
    BY <1>1, <2>2 DEF DataInv, NoLeakedCandidate, Running, OperationIds
  <2>4. PICK gone \in SUBSET Expired(plan) :
           ops' = [k \in Operations |-> IF k \in gone THEN Deleted ELSE ops[k]]
    BY <1>3
  <2>5. /\ ops' \in [Operations -> RefreshRow]
        /\ \A k \in Operations : \/ ops'[k] = ops[k]
                                 \/ ops'[k] = Deleted /\ ops'[k].status = "deleted"
                                    /\ ops[k].status \in {"succeeded", "failed", "cancelled"}
    BY <1>0, <2>4, AttemptsAssumption
    DEF Expired, Settled, Deleted, Row, TypeOK, RefreshRow, Maybe
  <2>6. \A k \in Operations : ops'[k].status # "running" BY <2>2, <2>5
  <2>7. targets \in SUBSET Files /\ targets \cap retained = {} /\ retained \subseteq files
    BY <1>0, <1>1, <1>3, <2>1
    DEF Allowed, TypeOK, CollectorState, CollectionRow, DataInv, InspectedPresent
  <2> HIDE DEF targets
  <2>8. /\ collections' \in [Collections -> CollectionRow]
        /\ collections'[key] = Plan("running", targets, plan.deleted, collector.roots)
        /\ \A c \in Collections : c # key => collections'[c] = collections[c]
    BY <1>0, <1>1, <1>3, <2>1, <2>7 DEF TypeOK, CollectionRow, CollectorState, Plan, Maybe
  <2>9. \A c \in Collections : collections'[c].status = "running" => c = key
    BY <2>1, <2>8 DEF CollectionActive
  <2>10. collector' \in CollectorState /\ collector'.pc = "executing" /\ collector'.key = key
    BY <1>1, <1>3 DEF Pass, CollectorState, Maybe
  <2>11. TypeOK' BY <1>0, <1>1, <2>5, <2>8, <2>10 DEF TypeOK
  <2>12. JobsNamed' /\ OwnersNamed' BY <1>0, <1>1 DEF Shape, JobsNamed, OwnersNamed
  <2>13. RowsShaped' BY <1>0, <2>5 DEF Shape, RowsShaped, Deleted, Row
  <2>14. TokensDiffer' BY <1>0, <1>1, <2>5 DEF DataInv, TokensDiffer, Shape, JobsNamed
  <2>15. ClaimsHonest'
    BY <1>0, <1>1, <2>3, <2>6, ClaimHasId
    DEF ClaimsHonest, Latest, Running, Shape, JobsNamed, Working, OperationId
  <2>16. OneCollection'
    <3>1. collections'[collector'.key].status = "running" BY <2>8, <2>10 DEF Plan
    <3>2. collector'.key \in Collections BY <2>1, <2>10
    <3>3. \A c, d \in Collections :
             collections'[c].status = "running" /\ collections'[d].status = "running" => c = d
      BY <2>9
    <3> QED BY <2>10, <3>1, <3>2, <3>3 DEF OneCollection, Planning, Planned
  <2>17. PlansDisjoint' /\ PlannedRootsIntact'
    BY <1>1, <2>7, <2>8, <2>9 DEF PlansDisjoint, PlannedRootsIntact, Plan
  <2>18. InspectedPresent' /\ TargetFree' BY <2>10 DEF InspectedPresent, TargetFree
  <2>19. WorkExcludesCollection' /\ FifoOrder'
    BY <2>6 DEF WorkExcludesCollection, DataWorkActive, FifoOrder, Running
  <2>20. NoLeakedCandidate' BY <2>3 DEF NoLeakedCandidate, OperationIds
  <2>21. PublishedDataIntact' BY <1>1, <2>3 DEF DataInv, PublishedDataIntact
  <2> QED BY <2>11, <2>12, <2>13, <2>14, <2>15, <2>16, <2>17, <2>18, <2>19, <2>20, <2>21
          DEF DataInv, Shape
<1> QED BY <1>2, <1>3 DEF EnsurePlan

\* ClaimTarget, CompleteTarget and Succeed, and a deletion that fails: at most the status and
\* the progress of the running plan change.
LEMMA TargetStep ==
    ASSUME DataInv,
           \/ \E f \in Files : ClaimTarget(f)
           \/ CompleteTarget \/ Succeed
           \/ DeleteFile /\ UNCHANGED files
    PROVE  DataInv'
<1>0. Shape /\ TypeOK BY DEF DataInv, Shape
<1> DEFINE key == collector.key
<1>1. /\ collector.pc \in Planned /\ key \in Collections /\ collector \in CollectorState
      /\ UNCHANGED <<files, head, ops, candidates, owner, worker>>
  BY <1>0 DEF ClaimTarget, CompleteTarget, Succeed, DeleteFile, UnchangedWork, Planned, DataInv,
              OneCollection, TypeOK
<1>2. \A c \in Collections : collections[c].status = "running" <=> c = key
  BY <1>1 DEF DataInv, OneCollection, Planned
<1>3. CASE \E f \in Files : ClaimTarget(f) /\ UNCHANGED collections
  <2>1. PICK f \in Files : ClaimTarget(f) /\ UNCHANGED collections BY <1>3
  <2>2. CASE RetentionRoots \subseteq collections[key].roots
             /\ collector' = Pass("deleting", collector.key, {}, {}, f, collector.session)
    <3>1. /\ collector' \in CollectorState /\ collector'.pc = "deleting"
          /\ collector'.key = key /\ collector'.file = f
      BY <1>1, <2>2 DEF Pass, CollectorState, Maybe
    <3>2. f \in collections[key].targets /\ head \in collections[key].roots
      BY <1>0, <2>1, <2>2, RootsAreGenerations DEF ClaimTarget
    <3> QED BY <1>1, <2>1, <3>1, <3>2, CollectorStep DEF Planning, Planned
  <2>3. CASE Status(key, "failed") /\ EndPass
    <3>1. NoPass \in CollectorState /\ NoPass.pc = "idle" BY DEF NoPass, Pass, CollectorState, Maybe
    <3> QED BY <1>1, <2>1, <2>3, <3>1, CollectorStep DEF EndPass, Planning, Planned
  <2> QED BY <2>1, <2>2, <2>3 DEF ClaimTarget
<1>4. CASE DeleteFile /\ UNCHANGED <<files, collections>> /\ collector' = [collector EXCEPT !.pc = "deleted"]
  <2>1. /\ collector' \in CollectorState /\ collector'.pc = "deleted" /\ collector'.key = key
        /\ collector'.file = collector.file
        /\ collector.file \in collections[key].targets /\ head \in collections[key].roots
    BY <1>1, <1>4 DEF CollectorState, DeleteFile, DataInv, TargetFree
  <2> QED BY <1>1, <1>4, <2>1, CollectorStep DEF Planning, Planned
<1>5. CASE \E status \in {"failed", "succeeded"} : Status(key, status) /\ EndPass
  <2>1. /\ collections' \in [Collections -> CollectionRow]
        /\ \A c \in Collections : collections'[c].status # "running"
    BY <1>0, <1>1, <1>2, <1>5 DEF Status, TypeOK, CollectionRow, Maybe
  <2>2. collector' \in CollectorState /\ collector'.pc = "idle"
    BY <1>5 DEF EndPass, NoPass, Pass, CollectorState, Maybe
  <2>3. TypeOK' BY <1>0, <1>1, <2>1, <2>2 DEF TypeOK
  <2>4. /\ OneCollection' /\ PlansDisjoint' /\ InspectedPresent' /\ TargetFree'
        /\ PlannedRootsIntact' /\ WorkExcludesCollection'
    BY <2>1, <2>2 DEF OneCollection, PlansDisjoint, InspectedPresent, TargetFree,
       PlannedRootsIntact, WorkExcludesCollection, CollectionActive, Planning, Planned
  <2>5. OwnersNamed' BY <1>0, <1>1 DEF Shape, OwnersNamed
  <2> QED BY <1>1, <2>3, <2>4, <2>5, WorkSame DEF DataInv, Shape
<1>6. CASE CompleteTarget
  <2>1. /\ collections' \in [Collections -> CollectionRow]
        /\ \A c \in Collections : /\ collections'[c].status = collections[c].status
                                  /\ collections'[c].targets = collections[c].targets
                                  /\ collections'[c].roots = collections[c].roots
    <3>1. collector.file \in Files
      BY <1>0, <1>1, <1>6 DEF CompleteTarget, DataInv, TargetFree, TypeOK, CollectionRow
    <3> QED BY <1>0, <1>1, <1>6, <3>1 DEF CompleteTarget, TypeOK, CollectionRow
  <2>2. collector' \in CollectorState /\ collector'.pc = "executing" /\ collector'.key = key
    BY <1>1, <1>6 DEF CompleteTarget, Pass, CollectorState, Maybe
  <2>3. TypeOK' BY <1>0, <1>1, <2>1, <2>2 DEF TypeOK
  <2>4. OneCollection' BY <1>1, <1>2, <2>1, <2>2 DEF OneCollection, CollectionActive, Planning, Planned
  <2>5. PlansDisjoint' /\ InspectedPresent' /\ TargetFree' /\ PlannedRootsIntact'
        /\ WorkExcludesCollection'
    BY <1>1, <2>1, <2>2 DEF DataInv, PlansDisjoint, InspectedPresent, TargetFree, PlannedRootsIntact,
       WorkExcludesCollection, CollectionActive, DataWorkActive, Running
  <2>6. OwnersNamed' BY <1>0, <1>1 DEF Shape, OwnersNamed
  <2> QED BY <1>1, <2>3, <2>4, <2>5, <2>6, WorkSame DEF DataInv, Shape
<1> QED BY <1>3, <1>4, <1>5, <1>6 DEF ClaimTarget, Succeed, DeleteFile

\* DeleteFile: the file is a target of the running plan, none of whose roots needs it, the
\* Head among them; no refresh runs, so no candidate lives.
LEMMA DeleteStep ==
    ASSUME DataInv, DeleteFile
    PROVE  DataInv'
<1>0. Shape /\ TypeOK BY DEF DataInv, Shape
<1>1. CASE UNCHANGED files BY <1>1, TargetStep
<1>2. CASE /\ files' = files \ {collector.file}
           /\ collector' = [collector EXCEPT !.pc = "deleted"] /\ UNCHANGED collections
  <2> DEFINE key == collector.key
             file == collector.file
  <2>1. /\ collector.pc = "deleting" /\ UNCHANGED <<head, ops, candidates, owner, worker>>
        /\ collector \in CollectorState
    BY <1>0 DEF DeleteFile, UnchangedWork, TypeOK
  <2>2. /\ key \in Collections /\ collections[key].status = "running"
        /\ file \in collections[key].targets /\ head \in collections[key].roots
        /\ collections[key].roots \subseteq Generations
    BY <1>0, <2>1 DEF DataInv, OneCollection, TargetFree, Planned, TypeOK, CollectionRow
  <2>3. file \notin Reachable(collections[key].roots) BY <2>2 DEF DataInv, PlansDisjoint
  <2>4. \A c \in Collections : collections[c].status = "running" => c = key
    BY <2>2 DEF DataInv, OneCollection
  <2>5. \A k \in Operations : ops[k].status # "running"
    BY <2>2 DEF DataInv, WorkExcludesCollection, CollectionActive, DataWorkActive, Running
  <2>6. collector' \in CollectorState /\ collector'.pc = "deleted" /\ collector'.key = key
        /\ collector'.file = file
    BY <1>2, <2>1 DEF CollectorState
  <2>7. TypeOK' BY <1>0, <1>2, <2>1, <2>6 DEF TypeOK
  <2>8. JobsNamed' /\ RowsShaped' /\ OwnersNamed' /\ TokensDiffer'
    BY <2>1 DEF DataInv, Shape, JobsNamed, RowsShaped, OwnersNamed, TokensDiffer
  <2>9. ClaimsHonest'
    BY <1>0, <2>1, <2>5 DEF DataInv, ClaimsHonest, Latest, Running, OperationId, Shape, JobsNamed,
                            Working
  <2>10. OneCollection' BY <1>2, <2>2, <2>4, <2>6 DEF OneCollection, Planning, Planned
  <2>11. PlansDisjoint' /\ InspectedPresent' /\ TargetFree'
    BY <1>2, <2>1, <2>2, <2>6 DEF DataInv, PlansDisjoint, InspectedPresent, TargetFree
  <2>12. PlannedRootsIntact' BY <1>2, <2>3, <2>4 DEF DataInv, PlannedRootsIntact
  <2>13. WorkExcludesCollection' /\ NoLeakedCandidate' /\ FifoOrder'
    BY <1>2, <2>1 DEF DataInv, WorkExcludesCollection, NoLeakedCandidate, FifoOrder,
                      CollectionActive, DataWorkActive, Running, Settled
  <2>14. PublishedDataIntact'
    <3>1. FilesOf[head] \subseteq files \ {file}
      BY <2>2, <2>3, ReachableShape DEF DataInv, PublishedDataIntact
    <3>2. \A i \in OperationIds : candidates[i] = "none"
      BY <2>5 DEF DataInv, NoLeakedCandidate, Running, OperationIds
    <3> QED BY <1>2, <2>1, <3>1, <3>2 DEF PublishedDataIntact
  <2> QED BY <2>7, <2>8, <2>9, <2>10, <2>11, <2>12, <2>13, <2>14 DEF DataInv, Shape
<1> QED BY <1>1, <1>2 DEF DeleteFile

-----------------------------------------------------------------------------
(* Theorems *)

LEMMA DataInit == ASSUME Init PROVE DataInv
<1> USE DEF Init
<1>1. TypeOK
  BY BootstrapAssumption, AttemptsAssumption
  DEF TypeOK, RefreshRow, OwnerRow, CollectionRow, WorkerState, CollectorState, Unsubmitted, Row,
      Unplanned, Plan, NoJob, Job, NoPass, Pass, Maybe, Files
<1>2. JobsNamed /\ TokensDiffer /\ ClaimsHonest
  BY DEF JobsNamed, TokensDiffer, ClaimsHonest, NoJob, Job, Working
<1>3. RowsShaped /\ FifoOrder /\ \A k \in Operations : ~ Running(k)
  BY DEF RowsShaped, FifoOrder, Running, Unsubmitted, Row
<1>4. OwnersNamed BY DEF OwnersNamed
<1>5. /\ OneCollection /\ PlansDisjoint /\ PlannedRootsIntact /\ WorkExcludesCollection
      /\ InspectedPresent /\ TargetFree
  BY DEF OneCollection, PlansDisjoint, PlannedRootsIntact, WorkExcludesCollection, CollectionActive,
         Unplanned, Plan, InspectedPresent, TargetFree, NoPass, Pass, Planning, Planned
<1>6. NoLeakedCandidate /\ PublishedDataIntact
  BY DEF NoLeakedCandidate, PublishedDataIntact, OperationIds
<1> QED BY <1>1, <1>2, <1>3, <1>4, <1>5, <1>6 DEF DataInv, Shape

LEMMA DataNext == ASSUME DataInv, [Next]_vars PROVE DataInv'
<1>1. CASE UNCHANGED vars
  <2>1. files \subseteq files' /\ TypeOK' BY <1>1 DEF DataInv, Shape, TypeOK, vars
  <2>2. WorkExcludesCollection'
    BY <1>1 DEF DataInv, WorkExcludesCollection, CollectionActive, DataWorkActive, Running, vars
  <2> QED BY <1>1, <2>1, <2>2, CollectionsSame, WorkSame DEF DataInv, Shape, vars
<1>2. CASE \E k \in Operations : Submit(k) \/ Cancel(k) \/ LeaseLapses(k)
  BY <1>2, SubmissionStep, LeaseStep
<1>3. CASE \E w \in Workers : Refresh(w) \/ WorkerCrash(w) \/ WorkerSessionLost(w)
  <2>1. PICK w \in Workers : Refresh(w) \/ WorkerCrash(w) \/ WorkerSessionLost(w) BY <1>3
  <2>2. CASE \/ OpenWork(w) \/ ReadPending(w) \/ WorkerCrash(w) \/ WorkerSessionLost(w)
             \/ \E g \in Generations : Materialize(w, g)
             \/ \E f \in Files : WriteFile(w, f)
    BY <2>2, WorkerLocalStep
  <2>3. CASE ReconcilePendingCompletion(w) \/ RecoverExpiredClaims(w) BY <2>3, ReconciliationStep
  <2>4. CASE Claim(w) BY <2>4, ClaimStep
  <2>5. CASE RecordExpectedHead(w) \/ ProtectCandidate(w) BY <2>5, OwnerStep
  <2>6. CASE CompleteNoChange(w) \/ CompletePublished(w) BY <2>6, CompletionStep
  <2>7. CASE MoveHead(w) BY <2>7, MoveHeadStep
  <2>8. CASE WorkerFails(w) BY <2>8, FailureStep
  <2> QED BY <2>1, <2>2, <2>3, <2>4, <2>5, <2>6, <2>7, <2>8 DEF Refresh
<1>4. CASE \E o \in Owners : Own(o) BY <1>4, OwnerRowStep
<1>5. CASE Collect \/ CollectorCrash \/ CollectorSessionLost
  <2>1. CASE \E c \in Collections : BeginCollection(c) BY <2>1, BeginStep
  <2>2. CASE SnapshotRetention \/ InspectMount \/ CollectorCrash \/ CollectorSessionLost
    BY <2>2, InspectionStep
  <2>3. CASE EnsurePlan BY <2>3, PlanStep
  <2>4. CASE (\E f \in Files : ClaimTarget(f)) \/ CompleteTarget \/ Succeed BY <2>4, TargetStep
  <2>5. CASE DeleteFile BY <2>5, DeleteStep
  <2> QED BY <1>5, <2>1, <2>2, <2>3, <2>4, <2>5 DEF Collect, Execute
<1> QED BY <1>1, <1>2, <1>3, <1>4, <1>5 DEF Next

\* The inductive invariant of the queue, the candidates and the collection.
THEOREM DataInvariance == Spec => []DataInv
BY DataInit, DataNext, PTL DEF Spec

\* Rows, workers and collector keep their types; no refresh is claimed more than max_attempts
\* times.
THEOREM DataTypes == Spec => []TypeOK
<1>1. DataInv => TypeOK BY DEF DataInv, Shape
<1> QED BY <1>1, DataInvariance, PTL

\* No collection deletes a file of the Head or of a live candidate (data/collection.py),
\* whatever crashes, stale workers and lost lock sessions do.
THEOREM PublishedDataSafety == Spec => []PublishedDataIntact
<1>1. DataInv => PublishedDataIntact BY DEF DataInv
<1> QED BY <1>1, DataInvariance, PTL

\* No running collection, a resumed one too, deletes a file of a root it recorded.
THEOREM PlannedRootsSafety == Spec => []PlannedRootsIntact
<1>1. DataInv => PlannedRootsIntact BY DEF DataInv
<1> QED BY <1>1, DataInvariance, PTL

\* _claim and _ensure_plan keep running refreshes and running collections apart.
THEOREM WorkExclusion == Spec => []WorkExcludesCollection
<1>1. DataInv => WorkExcludesCollection BY DEF DataInv
<1> QED BY <1>1, DataInvariance, PTL

\* Every candidate row belongs to the attempt that runs.
THEOREM CandidatesOwned == Spec => []NoLeakedCandidate
<1>1. DataInv => NoLeakedCandidate BY DEF DataInv
<1> QED BY <1>1, DataInvariance, PTL

\* _claim serves the operations in the order of their submission, retries included.
THEOREM FifoSafety == Spec => []FifoOrder
<1>1. DataInv => FifoOrder BY DEF DataInv
<1> QED BY <1>1, DataInvariance, PTL

\* _claim_target takes no target that a root of that moment reaches.
THEOREM TargetSafety == Spec => NoRetainedTarget
<1> DEFINE Step == collector.pc = "executing" /\ collector'.pc = "deleting" =>
                      collector'.file \notin Reachable({head} \cup RootsOfPins \cup RootsOfCandidates)
<1>1. ASSUME DataInv, [Next]_vars PROVE Step
  <2> SUFFICES ASSUME collector.pc = "executing", collector'.pc = "deleting"
               PROVE  collector'.file \notin Reachable(RetentionRoots)
    BY DEF RetentionRoots
  <2>1. collector' # collector /\ collector.pc # "deleting" OBVIOUS
  <2>2. ~ UNCHANGED collector BY <2>1
  <2>3. PICK f \in Files : ClaimTarget(f)
    <3>1. CASE \E k \in Operations : Submit(k) \/ Cancel(k) \/ LeaseLapses(k)
      BY <2>2, <3>1 DEF Submit, Cancel, LeaseLapses
    <3>2. CASE \E w \in Workers : Refresh(w) \/ WorkerCrash(w) \/ WorkerSessionLost(w)
      BY <2>2, <3>2 DEF Refresh, WorkerCrash, WorkerSessionLost, OpenWork, ReadPending,
         ReconcilePendingCompletion, RecoverExpiredClaims, Claim, RecordExpectedHead,
         CompleteNoChange, Materialize, WriteFile, ProtectCandidate, MoveHead, CompletePublished,
         WorkerFails
    <3>3. CASE \E o \in Owners : Own(o)
      BY <2>2, <3>3 DEF Own, Freeze, Retain, LetGo, UnchangedData
    <3>4. CASE CollectorCrash BY <3>4 DEF CollectorCrash, EndPass, NoPass, Pass
    <3>5. CASE CollectorSessionLost
      BY <1>1, <3>5 DEF CollectorSessionLost, DataInv, Shape, TypeOK, CollectorState
    <3>6. CASE Collect
      BY <3>6 DEF Collect, Execute, BeginCollection, SnapshotRetention, InspectMount, EnsurePlan,
         DeleteFile, CompleteTarget, Succeed, EndPass, NoPass, Pass
    <3> QED BY <1>1, <2>2, <3>1, <3>2, <3>3, <3>4, <3>5, <3>6 DEF Next, vars
  <2>4. /\ collector'.file = f /\ f \in collections[collector.key].targets
        /\ RetentionRoots \subseteq collections[collector.key].roots
    BY <2>3 DEF ClaimTarget, Pass, EndPass, NoPass
  <2>5. f \notin Reachable(collections[collector.key].roots)
    BY <1>1, <2>4 DEF DataInv, OneCollection, PlansDisjoint, Planned
  <2> QED BY <2>4, <2>5 DEF Reachable
<1>2. DataInv /\ [Next]_vars => [Step]_vars BY <1>1
<1> QED BY <1>2, DataInvariance, PTL DEF Spec, NoRetainedTarget
=============================================================================
