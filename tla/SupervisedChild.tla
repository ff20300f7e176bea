--------------------------- MODULE SupervisedChild ---------------------------
(***************************************************************************)
(* A calculation child and its supervisor: the Research execution          *)
(* (research_run/execution.py, supervised_child.py, research_child) and    *)
(* the Tracking execution (daily_track/execution.py, tracking_child), with *)
(* the framed transport of strategy events (strategy_event_wire.py).       *)
(*                                                                         *)
(* Main thread, watch thread and watchdog of the child are interleaved     *)
(* with the supervisor's read loop, its cancellation deadlines and its     *)
(* memory monitor.  A Tracking child has one chunk.  Calculation takes any *)
(* time, also for ever; clock ticks drive the deadlines.                   *)
(***************************************************************************)
EXTENDS Integers, Sequences, SequencesExt

CONSTANTS
    Roles,       \* subset of {"research", "tracking"}
    K,           \* chunks of the frozen Research plan
    Warmup,      \* how many of them are pure warmup
    MaxFrames,   \* event frames a chunk may need
    Budget       \* frames that fit the execution's event byte budget

ChildAssumption ==
    /\ Roles \subseteq {"research", "tracking"} /\ K \in Nat \ {0} /\ Warmup \in 0..K
    /\ MaxFrames \in Nat /\ Budget \in Nat

VARIABLES
    role, resume,     \* the request: role, completed_chunk_ordinal (0: from the start)
    child, code,      \* the main thread and the exit code (-1: running)
    ord, sentFrames, left,  \* chunk in hand, its frames sent and still to send
    watching,         \* the watch thread still reads stdin
    cancelled,        \* the cancellation Event of the Research child
    cmds,             \* commands the watch thread queued
    stdin, open,      \* the control pipe
    out,              \* stdout
    sup,              \* the supervisor
    asm,              \* frames assembled for the current chunk
    got,              \* chunks received, with their frames
    outcome,          \* what the execution returns or raises
    asked,            \* the user asked to cancel (or stop)
    since, term       \* ticks since the supervisor saw it (-1: not), SIGTERM sent

request == <<role, resume>>
childVars == <<child, code, ord, sentFrames, left, watching, cancelled, cmds>>
supVars == <<sup, asm, got, outcome, since, term>>
vars == <<request, childVars, stdin, open, out, supVars, asked>>

Chunks == IF role = "tracking" THEN 1 ELSE K
Grace == 1          \* CANCEL_COOPERATIVE_GRACE_SECONDS
ExitBudget == 3     \* CANCEL_CHILD_EXIT_BUDGET_SECONDS

Failures == {"insufficient_warmup", "invalid_input", "strategy_program", "calculation",
             "resource_exhausted"}

FailuresOf == IF role = "tracking" THEN {"strategy_program", "calculation", "error"} ELSE Failures

Message(status, n, k) == [status |-> status, ordinal |-> n, count |-> k]

-----------------------------------------------------------------------------
(* The child's main thread. *)

Exits(c) == child' = "exited" /\ code' = c
Alive == child # "exited"
Main == UNCHANGED <<request, watching, cancelled, stdin, open, supVars, asked>>

\* The resume boundary must be one of the plan's chunks, with final values exactly
\* when it is the last.
ResumeValid(n, hasFinal) == n \in 1..K /\ hasFinal = (n = K)

\* A checkpoint of the last chunk is reported again without calculation.
ReusesCheckpoint ==
    /\ child = "calc" /\ resume = Chunks /\ role = "research" /\ ~cancelled
    /\ ord' = resume /\ sentFrames' = 0 /\ left' = 0 /\ child' = "frames"
    /\ UNCHANGED <<code, cmds, out>> /\ Main

\* A Tracking child announces the calculation and its end.
Progress == Message("progress", 1, 0)

\* The next chunk; pure warmup advances progress only and has no events.
Calculates ==
    /\ child = "calc" /\ ord < Chunks /\ ~cancelled
    /\ ord' = ord + 1
    /\ sentFrames' = 0
    /\ left' \in (IF role = "research" /\ ord' <= Warmup THEN {0} ELSE 0..MaxFrames)
    /\ child' = "frames"
    /\ out' = IF role = "tracking" THEN out \o <<Progress, Progress>> ELSE out
    /\ UNCHANGED <<code, cmds>> /\ Main

\* Validation, the kernel or the Strategy program fails: one last message, then exit.
Fails ==
    /\ child = "calc" /\ ~cancelled
    /\ \E c \in FailuresOf :
          out' = out \o (IF role = "tracking" THEN <<Progress>> ELSE <<>>) \o <<Message(c, 0, 0)>>
    /\ Exits(1)
    /\ UNCHANGED <<ord, sentFrames, left, cmds>> /\ Main

\* The Research child looks at its cancellation Event between and inside calculations.
NoticesCancel ==
    /\ child = "calc" /\ cancelled
    /\ out' = Append(out, Message("cancelled", 0, 0))
    /\ Exits(0)
    /\ UNCHANGED <<ord, sentFrames, left, cmds>> /\ Main

\* Events go out in frames, each acknowledged before the next.
SendsFrame ==
    /\ child = "frames" /\ left > 0
    /\ out' = Append(out, Message("frame", ord, sentFrames))
    /\ sentFrames' = sentFrames + 1 /\ left' = left - 1
    /\ child' = "frame_wait"
    /\ UNCHANGED <<code, ord, cmds>> /\ Main

TakesFrameAck ==
    /\ child = "frame_wait" /\ cmds # <<>>
    /\ cmds' = Tail(cmds)
    /\ CASE Head(cmds) = "cancel" -> Exits(0)
         [] Head(cmds) = "acknowledge_event_frame" -> child' = "frames" /\ UNCHANGED code
         [] OTHER -> Exits(1)
    /\ UNCHANGED <<ord, sentFrames, left, out>> /\ Main

\* The chunk itself carries the number of frames per section.
SendsChunk ==
    /\ child = "frames" /\ left = 0
    /\ out' = Append(out, Message("chunk", ord, sentFrames))
    /\ child' = "wait"
    /\ UNCHANGED <<code, ord, sentFrames, left, cmds>> /\ Main

Expected == IF ord = Chunks THEN "acknowledge" ELSE "acknowledge_chunk"

TakesChunkAck ==
    /\ child = "wait" /\ cmds # <<>>
    /\ cmds' = Tail(cmds)
    /\ CASE Head(cmds) = "cancel" -> Exits(0)
         [] Head(cmds) # "cancel" /\ Head(cmds) # Expected -> Exits(65)
         [] Head(cmds) = Expected /\ ord = Chunks -> Exits(0)
         [] OTHER -> child' = "calc" /\ UNCHANGED code
    /\ UNCHANGED <<ord, sentFrames, left, out>> /\ Main

-----------------------------------------------------------------------------
(* The child's other threads. *)

Watch == UNCHANGED <<request, ord, sentFrames, left, open, out, supVars, asked>>

\* Research: cancel sets the Event and, like acknowledge, ends the watch.
ResearchWatch ==
    /\ Alive /\ watching /\ role = "research" /\ stdin # <<>>
    /\ stdin' = Tail(stdin)
    /\ cmds' = Append(cmds, Head(stdin))
    /\ cancelled' = (cancelled \/ Head(stdin) = "cancel")
    /\ watching' = (Head(stdin) \notin {"cancel", "acknowledge"})
    /\ UNCHANGED <<child, code>> /\ Watch

\* Tracking: cancel leaves at once; a terminal command ends watch and watchdog.
TrackingWatch ==
    /\ Alive /\ watching /\ role = "tracking" /\ stdin # <<>>
    /\ stdin' = Tail(stdin)
    /\ IF Head(stdin) = "cancel" THEN Exits(76) /\ UNCHANGED <<cmds, watching>>
       ELSE /\ cmds' = Append(cmds, Head(stdin))
            /\ watching' = (Head(stdin) = "acknowledge_event_frame")
            /\ UNCHANGED <<child, code>>
    /\ UNCHANGED cancelled /\ Watch

\* End of input means the supervisor is gone.
WatchEndOfInput ==
    /\ Alive /\ watching /\ stdin = <<>> /\ ~open
    /\ Exits(74)
    /\ UNCHANGED <<stdin, cmds, watching, cancelled>> /\ Watch

\* Without heartbeats for the grace period a Tracking child ends itself.
WatchdogExpires ==
    /\ Alive /\ watching /\ role = "tracking" /\ sup \in {"hung", "crashed"}
    /\ Exits(75)
    /\ UNCHANGED <<stdin, cmds, watching, cancelled>> /\ Watch

\* A kill from outside.
ChildDies ==
    /\ Alive /\ Exits(137)
    /\ UNCHANGED <<stdin, cmds, watching, cancelled>> /\ Watch

-----------------------------------------------------------------------------
(* The supervisor. *)

Sup == UNCHANGED <<request, childVars, asked>>
Write(c) == stdin' = Append(stdin, c) /\ UNCHANGED open

\* An exception ends the execution: the control pipe is closed and the child is
\* waited for, terminated, killed.
Raise(what) ==
    /\ outcome' = what /\ sup' = "closing"
    /\ open' = FALSE
    /\ UNCHANGED <<stdin, since, term>>

\* The user asks at any time.
Ask ==
    /\ ~asked /\ asked' = TRUE
    /\ UNCHANGED <<request, childVars, stdin, open, out, supVars>>

\* The Research read loop sends cancel once and keeps reading under the deadline.
SendsCancel ==
    /\ sup = "reading" /\ role = "research" /\ asked /\ since = -1 /\ open
    /\ Write("cancel")
    /\ since' = 0
    /\ UNCHANGED <<out, sup, asm, got, outcome, term>> /\ Sup

\* The Tracking read loop raises at once; its cleanup sends cancel and closes the pipe.
StopsTracking ==
    /\ sup = "reading" /\ role = "tracking" /\ asked
    /\ outcome' = "cancelled" /\ sup' = "cancelling" /\ since' = 0
    /\ stdin' = Append(stdin, "cancel") /\ open' = FALSE
    /\ UNCHANGED <<out, asm, got, term>> /\ Sup

\* Lost ownership (Tracking), an invalid or oversized line, a failing publication.
GivesUp ==
    /\ sup \in {"reading", "holding"}
    /\ Raise("error")
    /\ UNCHANGED <<out, asm, got>> /\ Sup

Reading(status) == sup = "reading" /\ out # <<>> /\ Head(out).status \in status

\* Only the Research execution tells an exhausted budget from other failures.
Exhausted == IF role = "tracking" THEN "error" ELSE "resource_exhausted"

\* Before the first chunk execute() waits a bounded time for the child and the expiry of
\* that wait replaces the exception it was about to raise.
WaitExpires == got = <<>> /\ Alive /\ role = "research"

\* Whatever arrives after cancel was sent is not a result any more; on a later chunk the
\* caller still holds the execution and calls cancel(), with a deadline of its own.
ReadsAfterCancel ==
    /\ sup = "reading" /\ out # <<>> /\ since >= 0
    /\ out' = Tail(out)
    /\ \/ got = <<>> /\ Raise("cancelled")
       \/ WaitExpires /\ Raise("error")
       \/ /\ got # <<>>
          /\ IF Alive THEN stdin' = Append(stdin, "cancel") ELSE UNCHANGED stdin
          /\ sup' = "cancelling" /\ since' = 0 /\ outcome' = "cancelled"
          /\ UNCHANGED <<open, term>>
    /\ UNCHANGED <<asm, got>> /\ Sup

ReadsProgress ==
    /\ Reading({"progress"}) /\ since = -1
    /\ out' = Tail(out)
    /\ UNCHANGED <<stdin, open, supVars>> /\ Sup

\* The assembler takes frames in order, within the byte budget.
ReadsFrame ==
    /\ Reading({"frame"}) /\ since = -1
    /\ out' = Tail(out)
    /\ IF Head(out).count # asm THEN Raise("error") /\ UNCHANGED <<asm, got>>
       ELSE IF asm + 1 > Budget
            THEN /\ Raise(IF WaitExpires THEN "error" ELSE Exhausted)
                 /\ UNCHANGED <<asm, got>>
       ELSE /\ asm' = asm + 1
            /\ Write("acknowledge_event_frame")
            /\ UNCHANGED <<sup, got, outcome, since, term>>
    /\ Sup

\* A chunk is accepted only with all its frames; its memory evidence may exceed the budget.
ChunkAccepted(m) == m.count = asm
ReadsChunk ==
    /\ Reading({"chunk"}) /\ since = -1
    /\ out' = Tail(out)
    /\ \/ /\ ChunkAccepted(Head(out))
          /\ got' = Append(got, <<Head(out).ordinal, asm>>)
          /\ asm' = 0 /\ sup' = "holding"
          /\ UNCHANGED <<stdin, open, outcome, since, term>>
       \/ ~ChunkAccepted(Head(out)) /\ Raise("error") /\ UNCHANGED <<asm, got>>
       \/ Raise(Exhausted) /\ UNCHANGED <<asm, got>>
    /\ Sup

\* The child's own verdict keeps its category.
ReadsFailure ==
    /\ Reading(FailuresOf \union {"cancelled"}) /\ since = -1
    /\ out' = Tail(out)
    /\ Raise(Head(out).status)
    /\ UNCHANGED <<asm, got>> /\ Sup

\* The child is gone and nothing is left to read: cancelled, out of memory, or lost.
FindsExit ==
    /\ sup = "reading" /\ out = <<>> /\ ~Alive
    /\ IF since >= 0 THEN Raise("cancelled")
       ELSE Raise("error") \/ (code = 137 /\ Raise(Exhausted))
    /\ UNCHANGED <<out, asm, got>> /\ Sup

\* The monitor thread kills a child over its resident memory, silent or not.
MemoryExceeded ==
    /\ sup = "reading" /\ role = "research" /\ Alive
    /\ Exits(137)
    /\ Raise("resource_exhausted")
    /\ UNCHANGED <<request, ord, sentFrames, left, watching, cancelled, cmds, out, asm, got, asked>>

Final == Last(got)[1] = Chunks

\* The chunk was made durable: the next one is asked for.
Advance ==
    /\ sup = "holding" /\ ~Final /\ ~asked
    /\ Write("acknowledge_chunk")
    /\ sup' = "reading"
    /\ UNCHANGED <<out, asm, got, outcome, since, term>> /\ Sup

\* After the final chunk the child is acknowledged, its input closed, its exit awaited.
Acknowledge ==
    /\ sup = "holding" /\ Final /\ ~asked
    /\ stdin' = Append(stdin, "acknowledge") /\ open' = FALSE
    /\ sup' = "acking"
    /\ UNCHANGED <<out, asm, got, outcome, since, term>> /\ Sup

\* A cancellation found before either: cancel() sends the command and waits.
Cancel ==
    /\ sup = "holding" /\ asked
    /\ IF Alive THEN stdin' = Append(stdin, "cancel") ELSE UNCHANGED stdin
    /\ open' = (open /\ role = "research")
    /\ sup' = "cancelling" /\ since' = 0 /\ outcome' = "cancelled"
    /\ UNCHANGED <<out, asm, got, term>> /\ Sup

\* A cancellation found while the exit is awaited.
CancelWhileAcking ==
    /\ sup = "acking" /\ Alive /\ asked /\ since = -1
    /\ since' = 0
    /\ UNCHANGED <<stdin, open, out, sup, asm, got, outcome, term>> /\ Sup

AcknowledgedAnyway ==
    /\ sup = "acking" /\ ~Alive
    /\ outcome' = IF code \in {0, 143} THEN "acknowledged" ELSE "error"
    /\ sup' = "gone"
    /\ UNCHANGED <<stdin, open, out, asm, got, since, term>> /\ Sup

Acknowledged ==
    /\ sup = "acking" /\ ~Alive
    /\ outcome' = IF since >= 0 THEN "cancelled" ELSE IF code = 0 THEN "acknowledged" ELSE "error"
    /\ sup' = "gone"
    /\ UNCHANGED <<stdin, open, out, asm, got, since, term>> /\ Sup

TickTerminatesOnly ==
    /\ since \in 0..(ExitBudget - 1) /\ Alive /\ sup \in {"reading", "acking", "cancelling"}
    /\ since' = since + 1
    /\ term' = FALSE
    /\ UNCHANGED <<request, childVars, stdin, open, out, sup, asm, got, outcome, asked>>

\* enforce_cancellation_deadline: SIGTERM after the grace, SIGKILL after the budget.
Tick ==
    /\ since \in 0..(ExitBudget - 1) /\ Alive /\ sup \in {"reading", "acking", "cancelling"}
    /\ since' = since + 1
    /\ term' = (term \/ since' >= Grace)
    /\ IF since' >= ExitBudget THEN Exits(137) ELSE UNCHANGED <<child, code>>
    /\ UNCHANGED <<request, ord, sentFrames, left, watching, cancelled, cmds, stdin, open, out,
                   sup, asm, got, outcome, asked>>

\* SIGTERM has its default effect.
Terminated ==
    /\ term /\ Alive
    /\ Exits(143)
    /\ UNCHANGED <<stdin, cmds, watching, cancelled>> /\ Watch

\* A Tracking child that does not leave after its acknowledgement is killed.
AckTimesOut ==
    /\ sup = "acking" /\ role = "tracking" /\ Alive /\ since = -1
    /\ Exits(137)
    /\ outcome' = "error" /\ sup' = "gone"
    /\ UNCHANGED <<request, ord, sentFrames, left, watching, cancelled, cmds, stdin, open, out,
                   asm, got, since, term, asked>>

\* close(): wait, terminate, wait, kill.
CloseKills ==
    /\ sup = "closing" /\ Alive
    /\ Exits(143) \/ Exits(137)
    /\ UNCHANGED <<stdin, cmds, watching, cancelled>> /\ Watch
Closed ==
    /\ sup \in {"closing", "cancelling"} /\ ~Alive
    /\ sup' = "gone" /\ open' = FALSE
    /\ UNCHANGED <<stdin, out, asm, got, outcome, since, term>> /\ Sup

\* The Worker process dies (the pipe closes) or stalls (it does not).
SupervisorLost ==
    /\ sup \in {"reading", "holding", "acking", "cancelling", "closing"}
    /\ \/ sup' = "crashed" /\ open' = FALSE
       \/ sup' = "hung" /\ UNCHANGED open
    /\ UNCHANGED <<stdin, out, asm, got, outcome, since, term>> /\ Sup

-----------------------------------------------------------------------------
Init ==
    /\ role \in Roles
    /\ resume \in (IF role = "research" THEN 0..K ELSE {0})
    /\ resume = 0 \/ ResumeValid(resume, resume = K)
    /\ child = "calc" /\ code = -1 /\ ord = resume /\ sentFrames = 0 /\ left = 0
    /\ watching = TRUE /\ cancelled = FALSE /\ cmds = <<>>
    /\ stdin = <<>> /\ open = TRUE /\ out = <<>>
    /\ sup = "reading" /\ asm = 0 /\ got = <<>> /\ outcome = "none"
    /\ asked = FALSE /\ since = -1 /\ term = FALSE

MainThread == SendsFrame \/ TakesFrameAck \/ SendsChunk \/ TakesChunkAck
WatchThreads == ResearchWatch \/ TrackingWatch \/ WatchEndOfInput \/ WatchdogExpires
Supervisor ==
    \/ SendsCancel \/ StopsTracking \/ ReadsAfterCancel \/ ReadsProgress \/ ReadsFrame
    \/ ReadsChunk \/ ReadsFailure \/ FindsExit \/ Advance \/ Acknowledge \/ Cancel
    \/ CancelWhileAcking \/ Acknowledged \/ Tick \/ CloseKills \/ Closed

Settled == ~Alive /\ sup \in {"gone", "crashed", "hung"} /\ UNCHANGED vars
Stalled == sup = "hung" /\ UNCHANGED vars   \* an unwatched child may wait for ever

Next ==
    \/ MainThread \/ ReusesCheckpoint \/ Calculates \/ Fails \/ NoticesCancel
    \/ WatchThreads \/ ChildDies \/ Terminated
    \/ Supervisor \/ GivesUp \/ MemoryExceeded \/ AckTimesOut \/ SupervisorLost \/ Ask
    \/ Settled \/ Stalled

\* Threads are scheduled and clocks run; a calculation need not end or look at the
\* cancellation Event, nobody need ask.
Fairness ==
    /\ WF_vars(MainThread) /\ WF_vars(WatchThreads) /\ WF_vars(Terminated)
    /\ WF_vars(Supervisor)

Spec == Init /\ [][Next]_vars /\ Fairness

-----------------------------------------------------------------------------
(* Properties. *)

\* Pipes hold at most one unread command of each exchange and the cancellation, and the
\* assembler never holds more frames than the event budget.
TypeOK ==
    /\ child \in {"calc", "frames", "frame_wait", "wait", "exited"}
    /\ (code = -1) = Alive
    /\ ord \in 0..Chunks /\ left \in 0..MaxFrames /\ asm \in 0..Budget
    /\ Len(stdin) <= 3 /\ Len(cmds) <= 2 /\ Len(out) <= 3
    /\ since \in -1..ExitBudget /\ Len(got) <= Chunks
    /\ sup \in {"reading", "holding", "acking", "cancelling", "closing", "gone", "crashed", "hung"}

\* The chunks received are exactly the plan's remaining ones, in order, once, each with
\* all the frames its child sent; a completed plan yields its last chunk alone.
ChunksContinue ==
    \A n \in 1..Len(got) :
        /\ got[n][1] = IF resume = K /\ role = "research" THEN K ELSE resume + n
        /\ n = Len(got) /\ sup = "holding" /\ Alive => got[n] = <<ord, sentFrames>>

\* Child and supervisor never disagree about the acknowledgement that is due.
AcknowledgementsAgree == code # 65

\* An execution that returned or raised has no child left: the caller may release its
\* pin and settle the attempt.
ReturnMeansExit == sup = "gone" => ~Alive

\* Success is reported only when the final chunk was received, the child left by itself
\* and nobody had been seen asking to cancel.
SuccessIsClean ==
    outcome = "acknowledged" => code = 0 /\ Final /\ since = -1

\* Nothing is reported as cancelled that nobody asked to cancel.
CancelledWasAsked == outcome = "cancelled" => asked

\* The execution a user asked to cancel has ended.
CancelEnded == asked => sup \in {"gone", "crashed", "hung"}

\* No child is left of a supervisor that died before it cancelled, and no Tracking child
\* of one that merely stalls.
OrphanEnded ==
    /\ sup = "crashed" /\ since = -1 => ~Alive
    /\ sup = "hung" /\ role = "tracking" => ~Alive
==============================================================================
