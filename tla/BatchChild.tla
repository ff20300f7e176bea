----------------------------- MODULE BatchChild -----------------------------
(***************************************************************************)
(* One supervised Research Batch child and the Worker that drives it       *)
(* (research_batch/execution.py, entrypoints/batch_research_child.py,      *)
(* research_batch/private_artifact.py and the message loop of              *)
(* research_batch/service.py).                                             *)
(*                                                                         *)
(* The child is a generator: it computes up to its next message, prints it *)
(* and waits for exactly the command that message expects.  The Worker     *)
(* reads a message, makes it durable and answers.  Factor batches and      *)
(* Independent Strategies share the windows of one Data preparation;       *)
(* a Strategy Sweep first writes (or re-reads) a private artifact of Alpha *)
(* outcomes, then replays it for each item.  Numbers are left out: a       *)
(* continuation is the count of research sessions it has absorbed.         *)
(***************************************************************************)
EXTENDS Integers, Sequences, FiniteSets, SequencesExt, FiniteSetsExt

CONSTANTS
    N,             \* items of the attempt, in ordinal order 1..N
    TotalSessions,         \* research sessions of the frozen plan
    Chunk,         \* chunk_session_count of the plan
    Kinds,         \* batch kinds to run
    GroupOf,       \* accepted Alpha semantics of each item
    CommonItems    \* items whose expressions read common inputs

BatchChildAssumption ==
    /\ N \in Nat \ {0} /\ TotalSessions \in Nat \ {0} /\ Chunk \in Nat \ {0}
    /\ Kinds \subseteq {"factor_evaluation", "strategy_sweep", "independent_strategies"}
    /\ DOMAIN GroupOf = 1..N /\ CommonItems \subseteq 1..N

VARIABLES
    kind, reuse,   \* the request
    child,         \* "run", "wait" (for a command) or "exited"
    code,          \* exit code, -1 while it runs
    pc,            \* where the generator stands: label, window, item or group, failures due
    pipe,          \* messages printed and not yet read (at most one)
    cmds,          \* commands written and not yet taken
    sent,          \* the message the child is waiting on
    failed,        \* items the generator counts as failed
    final,         \* items with final values
    cont,          \* sessions in each item's own continuation
    alpha,         \* sessions in each group's Alpha continuation
    art,           \* the private artifact file
    parts,         \* Strategy partitions on disk, <<item, window>>
    worker,        \* the Worker: "reading", "deciding", "acknowledged", "failed"
    at,            \* where its message loop stands
    msg,           \* its current message
    verdict,       \* what it made durable for each item
    evidence       \* the chunks it recorded for each item, in order

childVars == <<child, code, pc, sent, failed, final, cont, alpha, art, parts>>
workerVars == <<worker, at, msg, verdict, evidence>>
request == <<kind, reuse>>
vars == <<request, childVars, pipe, cmds, workerVars>>

Items == 1..N

-----------------------------------------------------------------------------
(* The plan. *)

\* Windows of Chunk sessions from the first research session; the last may be short.
Windows == 1..((TotalSessions + Chunk - 1) \div Chunk)
LastWindow == Max(Windows)
FinalWindow(w) == (w - 1) * Chunk + Chunk >= TotalSessions
Completed(w) == Min({w * Chunk, TotalSessions})

Before(w) == IF w = 1 THEN 0 ELSE Completed(w - 1)

\* A Factor or Alpha chunk counts the sessions of its window; nothing compares the sum.
Counted(count, w) == count + Completed(w) - Before(w)

\* An account runs from its last session to the window's end.  What it leaves is refused
\* unless the Alpha outcome it used counts the same sessions.
ContinuationAgrees(outcome, w) == outcome = Completed(w)

Groups == {GroupOf[i] : i \in Items}
MembersFailedToo(g) == {i \in Items : GroupOf[i] = g}
Members(g) == {i \in Items : GroupOf[i] = g} \ failed
GroupOrder == SetToSortSeq(Groups, LAMBDA g, h :
                  Min({i \in Items : GroupOf[i] = g}) < Min({i \in Items : GroupOf[i] = h}))

-----------------------------------------------------------------------------
(* Messages. *)

NoMsg == [status |-> "none", item |-> 0, w |-> 0, final |-> FALSE]
Msg(status) == [NoMsg EXCEPT !.status = status]
ItemMsg(status, i, w) == [status |-> status, item |-> i, w |-> w, final |-> FALSE]
FinalChunk(i) == [status |-> "item_chunk_succeeded", item |-> i, w |-> LastWindow, final |-> TRUE]
Started(i) == ItemMsg("item_started", i, 0)
ItemFailed(i) == ItemMsg("item_failed", i, 0)
CommonChunk(i, w) == ItemMsg("item_common_input_chunk_succeeded", i, w)
BatchFailed == Msg("failed")

ProgressStatuses == {"shared_alpha_factor_started", "shared_alpha_factor_chunk_succeeded",
                     "item_started", "item_strategy_chunk_succeeded",
                     "item_common_input_chunk_succeeded", "item_factor_evidence_succeeded"}

\* What the child insists on after each message (_expected_command).
Expected(m) ==
    CASE m.status = "child_ready" -> "acknowledge_ready"
      [] m.status = "batch_prepared" -> "acknowledge_preparation"
      [] m.status \in ProgressStatuses -> "acknowledge_progress"
      [] m.status \in {"item_failed", "item_succeeded"} -> "acknowledge_item"
      [] m.status \in {"shared_alpha_factor_succeeded", "shared_alpha_factor_failed"} ->
            "acknowledge_shared"
      [] m.status = "batch_succeeded" -> "acknowledge_batch"
      [] m.status = "item_chunk_succeeded" ->
            IF m.final THEN "acknowledge_item" ELSE "acknowledge_chunk"

At(label, w, i) == [at |-> label, w |-> w, i |-> i, due |-> {}]
Reporting(label, w, i, items) == [At(label, w, i) EXCEPT !.due = items]

\* yield: print the message and wait.
Yield(m) ==
    /\ pipe' = Append(pipe, m)
    /\ sent' = m
    /\ child' = "wait"
    /\ UNCHANGED code

\* Work between two messages.
Quiet == UNCHANGED <<pipe, sent, child, code>>

\* "failed" is the last message: the child leaves with code 1 and waits for nothing.
Fail ==
    /\ pipe' = Append(pipe, BatchFailed)
    /\ child' = "exited" /\ code' = 1
    /\ UNCHANGED <<sent, pc>>

Running(label) == child = "run" /\ pc.at = label
ChildOnly == UNCHANGED <<request, cmds, workerVars>>
KeepData == UNCHANGED <<failed, final, cont, alpha, art, parts>>

-----------------------------------------------------------------------------
(* The private artifact: written to a .partial file, renamed when complete. *)

NoArtifact == [state |-> "none", frames |-> <<>>, trailer |-> 0]
Frame(w, completed) == [w |-> w, completed |-> completed, final |-> FinalWindow(w)]
WholeArtifact ==
    [state |-> "complete", frames |-> [w \in Windows |-> Frame(w, Completed(w))],
     trailer |-> TotalSessions]

\* The constructor refuses a path that is not empty.
WriterOpens(file) == file.state = "none"
WriterOpened == [NoArtifact EXCEPT !.state = "partial"]

\* append: not after the final frame, and only growing.
CompletedOf(file) == IF file.frames = <<>> THEN 0 ELSE Last(file.frames).completed
FinalSeen(file) == file.frames # <<>> /\ Last(file.frames).final
MayAppend(file, frame) ==
    /\ file.state = "partial"
    /\ ~FinalSeen(file)
    /\ frame.completed > CompletedOf(file)
Appended(file, frame) == [file EXCEPT !.frames = Append(@, frame)]

\* complete: the final frame was seen and the continuation ends where it does.
MayComplete(file, completed) == FinalSeen(file) /\ completed = CompletedOf(file)
Closed(file, completed) == [file EXCEPT !.state = "complete", !.trailer = completed]
Aborted == NoArtifact

\* The reader's walk over frames and trailer.
ReaderAccepts(file) ==
    /\ file.state = "complete"
    /\ \A k \in 1..Len(file.frames) :
          /\ file.frames[k].completed > (IF k = 1 THEN 0 ELSE file.frames[k - 1].completed)
          /\ k < Len(file.frames) => ~file.frames[k].final
    /\ FinalSeen(file)
    /\ file.trailer = CompletedOf(file)

\* A stored chunk must cover the window it is replayed for.
RequireArtifactWindow(frame, w) == frame.w = w /\ frame.final = FinalWindow(w)
ArtifactMatches(file) ==
    /\ ReaderAccepts(file)
    /\ Len(file.frames) = LastWindow
    /\ \A w \in Windows : RequireArtifactWindow(file.frames[w], w)

\* Each partition is written to a .partial path and renamed; an existing one is refused.
PartitionFree(i, w) == <<i, w>> \notin parts

-----------------------------------------------------------------------------
(* The child. *)

TypeOfStart == CASE kind = "factor_evaluation" -> "f_start"
                 [] kind = "independent_strategies" -> "i_start"
                 [] kind = "strategy_sweep" -> "s_start"

\* Items of one scope, field bindings without contradiction, sessions of the frozen
\* plan in the selected Generation's calendar: otherwise the request is refused.
ScopeRejected == Fail /\ KeepData

\* The request is validated before anything is read.
Prepare ==
    /\ Running("prepare")
    /\ \/ Yield(Msg("batch_prepared")) /\ pc' = At(TypeOfStart, 1, 1) /\ KeepData
       \/ ScopeRejected
    /\ ChildOnly

\* A MemoryError anywhere in the calculation ends the batch; the writer drops its file.
OutOfMemory ==
    /\ child = "run"
    /\ pc.at \in {"f_read", "f_item", "i_read", "i_alpha", "i_item", "s_shared", "s_reuse",
                  "s_item"}
    /\ Fail
    /\ art' = IF pc.at = "s_shared" THEN Aborted ELSE art
    /\ UNCHANGED <<failed, final, cont, alpha, parts>>
    /\ ChildOnly

\* A Factor batch announces its first item and starts the windows.
FactorStart ==
    /\ Running("f_start")
    /\ Yield(Started(1))
    /\ pc' = At("f_read", 1, 1)
    /\ KeepData
    /\ ChildOnly

\* One shared read per window; if it raises, every item still undecided carries the error.
FactorRead ==
    /\ Running("f_read")
    /\ Quiet
    /\ \/ pc' = At("f_item", pc.w, 1) /\ UNCHANGED failed
       \/ /\ failed' = failed \union {i \in Items : i \notin final}
          /\ pc' = At("f_final", 1, 1)
    /\ UNCHANGED <<final, cont, alpha, art, parts>>
    /\ ChildOnly

FactorNext == IF pc.i < N THEN At("f_item", pc.w, pc.i + 1) ELSE At("f_window", pc.w, 1)

\* A failed item is skipped in the following windows.
FactorSkips ==
    /\ Running("f_item") /\ pc.i \in failed
    /\ Quiet /\ pc' = FactorNext
    /\ KeepData /\ ChildOnly

\* The item's chunk: its continuation grows by the window, and its evidence is sent.
FactorCalculates ==
    /\ Running("f_item") /\ pc.i \notin failed
    /\ cont' = [cont EXCEPT ![pc.i] = Counted(@, pc.w)]
    /\ final' = IF FinalWindow(pc.w) THEN final \union {pc.i} ELSE final
    /\ IF pc.i \in CommonItems
          THEN Yield(CommonChunk(pc.i, pc.w)) /\ pc' = [pc EXCEPT !.at = "f_evidence"]
          ELSE Quiet /\ pc' = [pc EXCEPT !.at = "f_evidence"]
    /\ UNCHANGED <<failed, alpha, art, parts>>
    /\ ChildOnly

FactorRaises ==
    /\ Running("f_item") /\ pc.i \notin failed
    /\ failed' = failed \union {pc.i}
    /\ Quiet /\ pc' = FactorNext
    /\ UNCHANGED <<final, cont, alpha, art, parts>>
    /\ ChildOnly

FactorEvidence ==
    /\ Running("f_evidence")
    /\ Yield(ItemMsg("item_factor_evidence_succeeded", pc.i, pc.w))
    /\ pc' = FactorNext
    /\ KeepData /\ ChildOnly

\* Between windows the first item reports progress for the whole batch, while it is alive.
FactorWindowEnds ==
    /\ Running("f_window")
    /\ pc' = IF FinalWindow(pc.w) THEN At("f_final", pc.w, 1) ELSE At("f_read", pc.w + 1, 1)
    /\ IF ~FinalWindow(pc.w) /\ 1 \notin failed
          THEN Yield(ItemMsg("item_chunk_succeeded", 1, pc.w))
          ELSE Quiet
    /\ KeepData /\ ChildOnly

\* After the windows each item in turn is started (but the first) and decided.
FactorVerdict(i) == IF i \in failed \/ i \notin final THEN ItemFailed(i) ELSE FinalChunk(i)
FactorAfter(i) == IF i < N THEN At("f_open", 1, i + 1) ELSE At("end", 1, 1)
FactorFinal ==
    /\ Running("f_final")
    /\ Yield(FactorVerdict(pc.i))
    /\ pc' = FactorAfter(pc.i)
    /\ KeepData /\ ChildOnly
FactorOpens ==
    /\ Running("f_open")
    /\ Yield(Started(pc.i)) /\ pc' = At("f_final", 1, pc.i)
    /\ KeepData /\ ChildOnly

-----------------------------------------------------------------------------
(* Independent Strategies: all items advance window by window. *)

IndependentStart ==
    /\ Running("i_start")
    /\ Yield(Started(pc.i))
    /\ pc' = IF pc.i < N THEN At("i_start", 1, pc.i + 1) ELSE At("i_read", 1, 1)
    /\ KeepData /\ ChildOnly

ActiveItems == Items \ failed

\* Nobody is left: the generator returns and the batch ends.
IndependentNobody ==
    /\ Running("i_read") /\ ActiveItems = {}
    /\ Quiet /\ pc' = At("end", 1, 1)
    /\ KeepData /\ ChildOnly

\* A dependency that cannot be read dooms the items that bind it.
Doomed == SUBSET ActiveItems

\* The shared read: it succeeds, or a dependency of some items fails and only they
\* leave, or it raises and everybody leaves.  The doomed items are reported in
\* order, one message each, before anything else happens.
IndependentRead ==
    /\ Running("i_read") /\ ActiveItems # {}
    /\ Quiet
    /\ \/ \E doomed \in Doomed :
             /\ failed' = failed \union doomed
             /\ pc' = Reporting("i_report", pc.w, 1, doomed)
       \/ /\ failed' = Items
          /\ pc' = Reporting("i_abandon", pc.w, 1, ActiveItems)
    /\ UNCHANGED <<final, cont, alpha, art, parts>>
    /\ ChildOnly

IndependentReports ==
    /\ child = "run" /\ pc.at \in {"i_report", "i_abandon", "i_drop"} /\ pc.due # {}
    /\ Yield(ItemFailed(Min(pc.due)))
    /\ pc' = [pc EXCEPT !.due = @ \ {Min(pc.due)}]
    /\ KeepData /\ ChildOnly

GroupIndex(g) == CHOOSE k \in 1..Len(GroupOrder) : GroupOrder[k] = g
IndependentReported ==
    /\ child = "run" /\ pc.at \in {"i_report", "i_abandon", "i_drop"} /\ pc.due = {}
    /\ Quiet
    /\ pc' = CASE pc.at = "i_report" -> At("i_alpha", pc.w, 1)
               [] pc.at = "i_abandon" -> At("end", 1, 1)
               [] pc.at = "i_drop" -> At("i_alpha", pc.w, pc.i + 1)
    /\ KeepData /\ ChildOnly

\* The window is over when every group was visited.
IndependentWindowEnds ==
    /\ Running("i_alpha") /\ pc.i > Len(GroupOrder)
    /\ Quiet
    /\ pc' = IF FinalWindow(pc.w) THEN At("end", 1, 1) ELSE At("i_read", pc.w + 1, 1)
    /\ KeepData /\ ChildOnly

\* A group's Alpha outcome is computed once for its members; if it raises they all fail.
IndependentAlpha ==
    /\ Running("i_alpha") /\ pc.i <= Len(GroupOrder)
    /\ Quiet
    /\ LET g == GroupOrder[pc.i]
       IN  IF Members(g) = {}
              THEN pc' = [pc EXCEPT !.i = @ + 1] /\ KeepData
              ELSE \/ /\ alpha' = [alpha EXCEPT ![g] = Counted(@, pc.w)]
                      /\ pc' = At("i_item", pc.w, Min(Members(g)))
                      /\ UNCHANGED <<failed, final, cont, art, parts>>
                   \/ /\ failed' = failed \union Members(g)
                      /\ pc' = Reporting("i_drop", pc.w, pc.i, Members(g))
                      /\ UNCHANGED <<final, cont, alpha, art, parts>>
    /\ ChildOnly

\* The next member of the same group, else the next group.
NextMember(i, w) ==
    LET later == {j \in Items : GroupOf[j] = GroupOf[i] /\ j > i} \ failed
    IN  IF later # {} THEN At("i_item", w, Min(later))
        ELSE At("i_alpha", w, GroupIndex(GroupOf[i]) + 1)

\* The member's own account consumes the group's Alpha outcome of this window.
IndependentCalculates ==
    /\ Running("i_item")
    /\ ContinuationAgrees(alpha[GroupOf[pc.i]], pc.w)
    /\ cont' = [cont EXCEPT ![pc.i] = Completed(pc.w)]
    /\ pc' = [pc EXCEPT !.at = "i_part"]
    /\ IF pc.i \in CommonItems THEN Yield(CommonChunk(pc.i, pc.w)) ELSE Quiet
    /\ UNCHANGED <<failed, final, alpha, art, parts>>
    /\ ChildOnly

IndependentRaises ==
    /\ child = "run" /\ pc.at \in {"i_item", "i_part", "i_done"}
    /\ failed' = failed \union {pc.i}
    /\ Yield(ItemFailed(pc.i))
    /\ pc' = NextMember(pc.i, pc.w)
    /\ UNCHANGED <<final, cont, alpha, art, parts>>
    /\ ChildOnly

\* Its observations become a partition file, and the chunk is reported.
IndependentPartition ==
    /\ Running("i_part") /\ PartitionFree(pc.i, pc.w)
    /\ parts' = parts \union {<<pc.i, pc.w>>}
    /\ Yield(ItemMsg("item_strategy_chunk_succeeded", pc.i, pc.w))
    /\ pc' = IF FinalWindow(pc.w) THEN [pc EXCEPT !.at = "i_done"] ELSE NextMember(pc.i, pc.w)
    /\ UNCHANGED <<failed, final, cont, alpha, art>>
    /\ ChildOnly

IndependentSucceeds ==
    /\ Running("i_done")
    /\ final' = final \union {pc.i}
    /\ Yield(ItemMsg("item_succeeded", pc.i, pc.w))
    /\ pc' = NextMember(pc.i, pc.w)
    /\ UNCHANGED <<failed, cont, alpha, art, parts>>
    /\ ChildOnly

-----------------------------------------------------------------------------
(* Strategy Sweep: the shared Alpha task, then one item after another. *)

Shared == GroupOf[1]

SweepStart ==
    /\ Running("s_start")
    /\ Yield(Msg("shared_alpha_factor_started"))
    /\ pc' = At(IF reuse THEN "s_reuse" ELSE "s_shared", 1, 1)
    /\ KeepData /\ ChildOnly

\* The windows of the shared task, each appended to the partial artifact.
SweepWindow ==
    /\ Running("s_shared")
    /\ pc.w = 1 => WriterOpens(art)
    /\ alpha' = [alpha EXCEPT ![Shared] = Counted(@, pc.w)]
    /\ LET file == IF pc.w = 1 THEN WriterOpened ELSE art
           frame == Frame(pc.w, alpha'[Shared])
       IN  MayAppend(file, frame) /\ art' = Appended(file, frame)
    /\ IF FinalWindow(pc.w)
          THEN Quiet /\ pc' = At("s_complete", pc.w, 1)
          ELSE Yield(Msg("shared_alpha_factor_chunk_succeeded")) /\ pc' = [pc EXCEPT !.w = @ + 1]
    /\ UNCHANGED <<failed, final, cont, parts>>
    /\ ChildOnly

\* The artifact is there: its bytes are within the admitted capacity or exhaust the batch.
SharedEnds ==
    \/ Yield(Msg("shared_alpha_factor_succeeded")) /\ pc' = At("s_open", 1, 1)
    \/ Fail

\* complete() writes the trailer and renames the file.
SweepCompletes ==
    /\ Running("s_complete")
    /\ MayComplete(art, alpha[Shared])
    /\ art' = Closed(art, alpha[Shared])
    /\ SharedEnds
    /\ UNCHANGED <<failed, final, cont, alpha, parts>>
    /\ ChildOnly

\* A retry re-reads the artifact an earlier attempt published.
SweepReuses ==
    /\ Running("s_reuse")
    /\ ArtifactMatches(art)
    /\ alpha' = [alpha EXCEPT ![Shared] = art.trailer]
    /\ SharedEnds
    /\ UNCHANGED <<failed, final, cont, art, parts>>
    /\ ChildOnly

\* The shared task raises: the partial file is removed and the generator returns.
SweepSharedFails ==
    /\ child = "run" /\ pc.at \in {"s_shared", "s_complete", "s_reuse"}
    /\ art' = IF reuse THEN art ELSE Aborted
    /\ Yield(Msg("shared_alpha_factor_failed"))
    /\ pc' = At("end", 1, 1)
    /\ UNCHANGED <<failed, final, cont, alpha, parts>>
    /\ ChildOnly

SweepOpens ==
    /\ Running("s_open")
    /\ Yield(Started(pc.i)) /\ pc' = At("s_item", 1, pc.i)
    /\ KeepData /\ ChildOnly

SweepAfter(i) == IF i < N THEN At("s_open", 1, i + 1) ELSE At("end", 1, 1)

\* One window of one item: its stored Alpha chunk is checked and replayed.
SweepCalculates ==
    /\ Running("s_item")
    /\ ReaderAccepts(art) /\ RequireArtifactWindow(art.frames[pc.w], pc.w)
    /\ ContinuationAgrees(art.frames[pc.w].completed, pc.w)
    /\ cont' = [cont EXCEPT ![pc.i] = Completed(pc.w)]
    /\ pc' = [pc EXCEPT !.at = "s_part"]
    /\ IF pc.i \in CommonItems THEN Yield(CommonChunk(pc.i, pc.w)) ELSE Quiet
    /\ UNCHANGED <<failed, final, alpha, art, parts>>
    /\ ChildOnly

SweepPartition ==
    /\ Running("s_part") /\ PartitionFree(pc.i, pc.w)
    /\ parts' = parts \union {<<pc.i, pc.w>>}
    /\ Yield(ItemMsg("item_strategy_chunk_succeeded", pc.i, pc.w))
    /\ pc' = IF FinalWindow(pc.w) THEN [pc EXCEPT !.at = "s_done"]
             ELSE At("s_item", pc.w + 1, pc.i)
    /\ UNCHANGED <<failed, final, cont, alpha, art>>
    /\ ChildOnly

\* The trailer must be the continuation the shared task ended with.
SweepSucceeds ==
    /\ Running("s_done") /\ art.trailer = alpha[Shared]
    /\ final' = final \union {pc.i}
    /\ Yield(ItemMsg("item_succeeded", pc.i, LastWindow))
    /\ pc' = SweepAfter(pc.i)
    /\ UNCHANGED <<failed, cont, alpha, art, parts>>
    /\ ChildOnly

SweepItemRaises ==
    /\ child = "run" /\ pc.at \in {"s_item", "s_part", "s_done"}
    /\ failed' = failed \union {pc.i}
    /\ Yield(ItemFailed(pc.i))
    /\ pc' = SweepAfter(pc.i)
    /\ UNCHANGED <<final, cont, alpha, art, parts>>
    /\ ChildOnly

\* Every kind ends with batch_succeeded.
BatchEnds ==
    /\ Running("end")
    /\ Yield(Msg("batch_succeeded"))
    /\ pc' = At("finished", 1, 1)
    /\ KeepData /\ ChildOnly

-----------------------------------------------------------------------------
(* The child's main loop and its supervisor watch. *)

\* The expected command resumes the generator, any other one ends the child.
ChildTakes ==
    /\ child = "wait" /\ cmds # <<>>
    /\ cmds' = Tail(cmds)
    /\ IF Head(cmds) # Expected(sent) THEN child' = "exited" /\ code' = 65
       ELSE IF pc.at = "finished" THEN child' = "exited" /\ code' = 0
       ELSE child' = "run" /\ UNCHANGED code
    /\ UNCHANGED <<request, pc, sent, failed, final, cont, alpha, art, parts, pipe, workerVars>>

ChildGone(c) ==
    /\ child' = "exited" /\ code' = c
    /\ UNCHANGED <<pc, sent, failed, final, cont, alpha, art, parts>>

\* Mutant: only a Worker that closes the child's input ends it.
WatchCancels ==
    /\ child # "exited" /\ worker = "failed"
    /\ ChildGone(74)
    /\ UNCHANGED <<request, pipe, cmds, workerVars>>

\* The watch thread ends the child at the end of its input: the Worker closed it or died.
\* (It also knows a "cancel" command, which the Worker never sends.)
WatchEnds ==
    /\ child # "exited" /\ worker \in {"failed", "crashed"}
    /\ ChildGone(74)
    /\ UNCHANGED <<request, pipe, cmds, workerVars>>

\* Out-of-memory killer, operator, crash.
ChildDies ==
    /\ child # "exited"
    /\ ChildGone(137)
    /\ UNCHANGED <<request, pipe, cmds, workerVars>>

-----------------------------------------------------------------------------
(* The Worker's message loop. *)

Answer(m, place, effect) ==
    /\ effect
    /\ at' = place
    /\ cmds' = Append(cmds, m)
    /\ worker' = "reading"
    /\ UNCHANGED <<request, childVars, pipe, msg>>

Deciding(place) == worker = "deciding" /\ at = place

\* _read_message: "failed" raises, and so does a child that left without a message.
WorkerReads ==
    /\ worker = "reading" /\ pipe # <<>>
    /\ pipe' = Tail(pipe)
    /\ msg' = Head(pipe)
    /\ worker' = IF msg'.status = "failed" THEN "failed" ELSE "deciding"
    /\ UNCHANGED <<request, childVars, cmds, at, verdict, evidence>>

WorkerFindsChildGone ==
    /\ worker \in {"reading", "acknowledging"} /\ pipe = <<>> /\ child = "exited"
    /\ worker' = IF worker = "acknowledging" /\ code = 0 THEN "acknowledged" ELSE "failed"
    /\ UNCHANGED <<request, childVars, pipe, cmds, at, msg, verdict, evidence>>

\* Cancellation, a lost claim, a failed publication, an over-budget child: the loop
\* raises, close() ends the child's input.
WorkerGivesUp ==
    /\ worker \in {"reading", "deciding", "acknowledging"}
    /\ worker' = "failed"
    /\ UNCHANGED <<request, childVars, pipe, cmds, at, msg, verdict, evidence>>

WorkerCrashes ==
    /\ worker \in {"reading", "deciding", "acknowledging"}
    /\ worker' = "crashed"
    /\ UNCHANGED <<request, childVars, pipe, cmds, at, msg, verdict, evidence>>

NoEffect == UNCHANGED <<verdict, evidence>>

AnswerReady ==
    /\ Deciding("ready") /\ msg.status = "child_ready"
    /\ Answer("acknowledge_ready", "prepared", NoEffect)

AnswerPrepared ==
    /\ Deciding("prepared") /\ msg.status = "batch_prepared"
    /\ Answer("acknowledge_preparation",
              IF kind = "strategy_sweep" THEN "shared_start" ELSE "items", NoEffect)

AnswerSharedStart ==
    /\ Deciding("shared_start") /\ msg.status = "shared_alpha_factor_started"
    /\ Answer("acknowledge_progress", "shared", NoEffect)

AnswerSharedChunk ==
    /\ Deciding("shared") /\ msg.status = "shared_alpha_factor_chunk_succeeded"
    /\ Answer("acknowledge_progress", "shared", NoEffect)

\* Every running item is failed before the shared failure is acknowledged.
AnswerSharedFailed ==
    /\ Deciding("shared") /\ msg.status = "shared_alpha_factor_failed"
    /\ Answer("acknowledge_shared", "items",
              verdict' = [i \in Items |-> "failed"] /\ UNCHANGED evidence)

\* The artifact is validated and published first.
AnswerShared ==
    /\ Deciding("shared") /\ msg.status = "shared_alpha_factor_succeeded"
    /\ ReaderAccepts(art)
    /\ Answer("acknowledge_shared", "items", NoEffect)

AnswerProgress ==
    /\ Deciding("items")
    /\ msg.status \in {"item_started", "item_common_input_chunk_succeeded"}
    /\ Answer("acknowledge_progress", "items", NoEffect)

Recorded == evidence' = [evidence EXCEPT ![msg.item] = Append(@, msg.w)] /\ UNCHANGED verdict

AnswerEvidence ==
    /\ Deciding("items") /\ msg.status = "item_factor_evidence_succeeded"
    /\ Answer("acknowledge_progress", "items", Recorded)

\* A partition is staged from its file, noted in the attempt's ledger, and the file goes.
AnswerStrategyChunk ==
    /\ Deciding("items") /\ msg.status = "item_strategy_chunk_succeeded"
    /\ <<msg.item, msg.w>> \in parts
    /\ parts' = parts \ {<<msg.item, msg.w>>}
    /\ Recorded
    /\ cmds' = Append(cmds, "acknowledge_progress")
    /\ worker' = "reading"
    /\ UNCHANGED <<request, child, code, pc, sent, failed, final, cont, alpha, art, pipe, at, msg>>

Decide(i, v) == verdict' = [verdict EXCEPT ![i] = v] /\ UNCHANGED evidence

AnswerItemFailed ==
    /\ Deciding("items") /\ msg.status = "item_failed"
    /\ Answer("acknowledge_item", "items", Decide(msg.item, "failed"))

\* A Strategy item's partitions are bound when it succeeds: all of its windows.
AnswerItemSucceeded ==
    /\ Deciding("items") /\ msg.status = "item_succeeded" /\ kind # "factor_evaluation"
    /\ Answer("acknowledge_item", "items", Decide(msg.item, "succeeded"))

AnswerItemChunk ==
    /\ Deciding("items") /\ msg.status = "item_chunk_succeeded"
    /\ IF msg.final
          THEN Answer("acknowledge_item", "items", Decide(msg.item, "succeeded"))
          ELSE Answer("acknowledge_chunk", "items", NoEffect)

\* batch_succeeded ends the loop; acknowledge() sends the last command and awaits the exit.
Acknowledge ==
    /\ Deciding("items") /\ msg.status = "batch_succeeded"
    /\ cmds' = Append(cmds, "acknowledge_batch")
    /\ worker' = "acknowledging"
    /\ UNCHANGED <<request, childVars, pipe, at, msg, verdict, evidence>>

Answers ==
    \/ AnswerReady \/ AnswerPrepared \/ AnswerSharedStart \/ AnswerSharedChunk
    \/ AnswerSharedFailed \/ AnswerShared \/ AnswerProgress \/ AnswerEvidence
    \/ AnswerStrategyChunk
    \/ AnswerItemFailed \/ AnswerItemSucceeded \/ AnswerItemChunk \/ Acknowledge

-----------------------------------------------------------------------------
Init ==
    /\ kind \in Kinds
    /\ reuse \in (IF kind = "strategy_sweep" THEN BOOLEAN ELSE {FALSE})
    /\ child = "wait" /\ code = -1
    /\ pc = At("prepare", 1, 1)
    /\ sent = Msg("child_ready") /\ pipe = <<sent>> /\ cmds = <<>>
    /\ failed = {} /\ final = {} /\ parts = {}
    /\ cont = [i \in Items |-> 0] /\ alpha = [g \in Groups |-> 0]
    /\ art = IF reuse THEN WholeArtifact ELSE NoArtifact
    /\ worker = "reading" /\ at = "ready" /\ msg = NoMsg
    /\ verdict = [i \in Items |-> "none"] /\ evidence = [i \in Items |-> <<>>]

ChildWorks ==
    \/ Prepare \/ OutOfMemory \/ BatchEnds \/ ChildTakes
    \/ FactorStart \/ FactorRead \/ FactorSkips \/ FactorCalculates \/ FactorRaises
    \/ FactorEvidence \/ FactorWindowEnds \/ FactorFinal \/ FactorOpens
    \/ IndependentStart \/ IndependentNobody \/ IndependentRead \/ IndependentReports
    \/ IndependentReported \/ IndependentWindowEnds \/ IndependentAlpha
    \/ IndependentCalculates \/ IndependentRaises \/ IndependentPartition
    \/ IndependentSucceeds
    \/ SweepStart \/ SweepWindow \/ SweepCompletes \/ SweepReuses \/ SweepSharedFails
    \/ SweepOpens \/ SweepCalculates \/ SweepPartition \/ SweepSucceeds \/ SweepItemRaises

Settled ==
    /\ child = "exited" /\ worker \in {"acknowledged", "failed", "crashed"}
    /\ UNCHANGED vars

Next ==
    \/ ChildWorks \/ WatchEnds \/ ChildDies
    \/ WorkerReads \/ WorkerFindsChildGone \/ WorkerGivesUp \/ WorkerCrashes \/ Answers
    \/ Settled

\* The child computes, its watch thread runs, and the Worker reads and answers.
Fairness ==
    /\ WF_vars(ChildWorks) /\ WF_vars(WatchEnds)
    /\ WF_vars(WorkerReads) /\ WF_vars(WorkerFindsChildGone) /\ WF_vars(Answers)

Spec == Init /\ [][Next]_vars /\ Fairness

-----------------------------------------------------------------------------
(* Properties. *)

Statuses == ProgressStatuses \union
    {"none", "failed", "child_ready", "batch_prepared", "shared_alpha_factor_succeeded",
     "shared_alpha_factor_failed", "item_chunk_succeeded", "item_succeeded", "item_failed",
     "batch_succeeded"}
Messages == [status : Statuses, item : 0..N, w : 0..LastWindow, final : BOOLEAN]

\* Messages, continuations, artifact and partitions stay within the plan: the last
\* window may be short, and nothing counts sessions past the research period.
TypeOK ==
    /\ child \in {"run", "wait", "exited"} /\ code \in {-1, 0, 1, 65, 74, 137}
    /\ Len(pipe) <= 1 /\ Len(cmds) <= 1
    /\ {sent, msg} \union ToSet(pipe) \subseteq Messages
    /\ failed \subseteq Items /\ final \subseteq Items
    /\ cont \in [Items -> 0..TotalSessions] /\ alpha \in [Groups -> 0..TotalSessions]
    /\ art.state \in {"none", "partial", "complete"} /\ Len(art.frames) <= LastWindow
    /\ parts \subseteq Items \X Windows
    /\ worker \in {"reading", "deciding", "acknowledging", "acknowledged", "failed", "crashed"}
    /\ verdict \in [Items -> {"none", "failed", "succeeded"}]

\* What the Worker's loop accepts at each place (it raises on anything else).
Understood(place) ==
    CASE place = "ready" -> {"child_ready"}
      [] place = "prepared" -> {"batch_prepared"}
      [] place = "shared_start" -> {"shared_alpha_factor_started"}
      [] place = "shared" -> {"shared_alpha_factor_chunk_succeeded",
                              "shared_alpha_factor_succeeded", "shared_alpha_factor_failed"}
      [] place = "items" -> {"item_started", "item_common_input_chunk_succeeded",
                             "item_factor_evidence_succeeded", "item_strategy_chunk_succeeded",
                             "item_failed", "item_succeeded", "item_chunk_succeeded",
                             "batch_succeeded"}

\* Generator and message loop are written apart and must agree at every step of every
\* kind: the loop never meets a message it raises on, the child never a command it
\* exits on (SystemExit(65)).
SpeaksSameProtocol ==
    /\ worker = "deciding" => msg.status \in Understood(at)
    /\ code # 65

\* The attempt is acknowledged only when every item has an outcome.
AcknowledgedIsDecided ==
    worker = "acknowledged" => \A i \in Items : verdict[i] # "none"

\* A successful item absorbed the whole research period and its evidence has every
\* window once, in order.
SuccessIsWhole ==
    \A i \in Items : verdict[i] = "succeeded" =>
        /\ cont[i] = TotalSessions
        /\ evidence[i] = [w \in Windows |-> w]

\* When the next window is read, every surviving account stands exactly where the
\* Alpha continuation it shares with its group stands.
AccountsAligned ==
    child = "run" /\ pc.at = "i_read" =>
        \A i \in ActiveItems : cont[i] = alpha[GroupOf[i]] /\ cont[i] = Before(pc.w)

\* A partial artifact exists only inside the shared task, and what is under the final
\* name is readable: a failure in between leaves nothing behind.
NoTornArtifact ==
    /\ art.state = "partial" => pc.at \in {"s_shared", "s_complete"}
    /\ art.state = "complete" => ArtifactMatches(art)

\* Child and Worker have both come to an end.
BothEnded == child = "exited" /\ worker \in {"acknowledged", "failed", "crashed"}
=============================================================================
