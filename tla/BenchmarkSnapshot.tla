------------------------- MODULE BenchmarkSnapshot -------------------------
(***************************************************************************)
(* The benchmark snapshot file (benchmark/snapshot.py): one JSON file that *)
(* every updater extends with newly collected index levels.  The module    *)
(* keeps the directory as the process sees it (vis), as the disk holds it  *)
(* (dur) and the directory operations issued since the last fsync of the   *)
(* directory (pending): a machine crash keeps any subset of those, so a    *)
(* rename may survive without the unlink before it or the other way round. *)
(*                                                                         *)
(* A snapshot is the function from covered sessions to open levels; the    *)
(* empty function stands for a missing file.  File contents are written    *)
(* and fsynced to a temporary name first, so a name always refers to a     *)
(* whole snapshot; leftover temporary names are never read and are left    *)
(* out.                                                                    *)
(***************************************************************************)
EXTENDS Integers, Sequences, FiniteSets, SequencesExt, FiniteSetsExt

CONSTANTS
    Updaters,       \* processes running BenchmarkSnapshotUpdater.update
    Calendars,      \* research calendars an updater may be asked to cover
    Levels,         \* open levels the source may report for a session
    MaxFaults,      \* bound: file system calls that fail
    MaxCrashes      \* bound: machine crashes

\* Session 1 is BENCHMARK_START_SESSION.
StartSession == 1

Sessions == UNION Calendars

CalendarsAssumption ==
    /\ Calendars \subseteq SUBSET Nat
    /\ \A c \in Calendars : StartSession \in c /\ IsFiniteSet(c)

VARIABLES
    vis,        \* The directory: [path, link], either may be NoFile
    dur,        \* The directory as last fsynced
    pending,    \* operations since then
    lock,       \* holder of the flock on the lock file
    pc,         \* where each updater is
    req,        \* the calendar it must cover
    old,        \* the snapshot its first read returned
    new,        \* the snapshot it publishes
    before,     \* the snapshot publish() found under the lock
    acked,      \* the last snapshot a publication returned as published
    outcome,    \* how the last call of publish() ended
    faults, crashes

disk == <<vis, dur, pending>>
proc == <<lock, pc, req, old, new, before>>
hist == <<acked, outcome>>
vars == <<disk, proc, hist, faults, crashes>>

NoFile == << >>
Nobody == "nobody"

Snapshots == UNION {[S -> Levels] : S \in SUBSET Sessions}
Dir == [path : Snapshots, links : SUBSET Snapshots]

\* coverage_end_session, 0 for a missing snapshot.
CoverageEnd(s) == Max(DOMAIN s \cup {0})

(***************************************************************************)
(* Validation.                                                             *)
(***************************************************************************)
\* _require_level_sessions
Covers(s, sessions) == sessions \subseteq DOMAIN s

\* _require_existing_prefix_complete
PrefixComplete(s, sessions) ==
    Covers(s, {d \in sessions : d <= CoverageEnd(s)})

\* _validate_levels: coverage starts at the contract's first session.
Valid(s) == StartSession \in DOMAIN s

\* _require_append_only_publication: the replacement is no shorter and its
\* first len(current) levels are the current ones.
Extends(current, replacement) ==
    /\ DOMAIN current \subseteq DOMAIN replacement
    /\ \A d \in DOMAIN current : replacement[d] = current[d]
    /\ \A d \in DOMAIN replacement \ DOMAIN current : d > CoverageEnd(current)

\* What a source may answer for the window: any levels inside it, checked by
\* _validate_collected_levels (non-empty, and starting at the contract's
\* first session when nothing is published yet).
Collected(window) ==
    {s \in UNION {[S -> Levels] : S \in SUBSET window} :
        /\ s # NoFile
        /\ StartSession \in window => StartSession \in DOMAIN s}

Combine(s, t) ==
    [d \in DOMAIN s \cup DOMAIN t |-> IF d \in DOMAIN s THEN s[d] ELSE t[d]]

(***************************************************************************)
(* The directory.  A rollback link is a second name of the snapshot it was *)
(* made from, so a directory is the path and the set of linked snapshots.  *)
(***************************************************************************)
Apply(d, op) ==
    CASE op[1] = "link"    -> [d EXCEPT !.links = @ \cup {op[2]}]
      [] op[1] = "unlink"  -> [d EXCEPT !.links = @ \ {op[2]}]
      [] op[1] = "replace" -> [d EXCEPT !.path = op[2]]
      [] op[1] = "restore" -> IF op[2] \in d.links
                              THEN [path |-> op[2], links |-> d.links \ {op[2]}]
                              ELSE d
      [] op[1] = "remove"  -> [d EXCEPT !.path = NoFile]

\* The directories a machine crash may leave: every subset of the operations
\* that were not made durable.
AfterCrash ==
    {FoldLeft(Apply, dur, [i \in 1..Len(pending) |->
                              IF i \in kept THEN pending[i] ELSE <<"unlink", NoFile>>])
        : kept \in SUBSET (1..Len(pending))}

\* Operations of one step take effect in the visible directory at once.
Do(ops) ==
    /\ vis' = FoldLeft(Apply, vis, ops)
    /\ pending' = pending \o ops
    /\ UNCHANGED dur

\* _sync_directory succeeding after ops.
DoAndSync(ops) ==
    /\ vis' = FoldLeft(Apply, vis, ops)
    /\ dur' = vis'
    /\ pending' = << >>

Fault == faults < MaxFaults /\ faults' = faults + 1
NoFault == UNCHANGED faults

\* What _restore_missing_snapshot makes of a directory, and what
\* _discard_recovery_links removes from it.
Ambiguous(d) == d.path = NoFile /\ Cardinality(d.links) > 1
Restoring(d) == IF d.path = NoFile /\ Cardinality(d.links) = 1
                THEN <<<<"restore", CHOOSE l \in d.links : TRUE>>>> ELSE << >>
Discarding(d) ==
    LET restored == FoldLeft(Apply, d, Restoring(d)) IN
    SetToSeq({<<"unlink", l>> : l \in restored.links})

\* The snapshot read() returns for a directory.
Readable(d) == FoldLeft(Apply, d, Restoring(d)).path

Init ==
    /\ vis = [path |-> NoFile, links |-> {}]
    /\ dur = vis
    /\ pending = << >>
    /\ lock = Nobody
    /\ pc = [u \in Updaters |-> "idle"]
    /\ req = [u \in Updaters |-> {}]
    /\ old = [u \in Updaters |-> NoFile]
    /\ new = [u \in Updaters |-> NoFile]
    /\ before = NoFile
    /\ acked = NoFile /\ outcome = "none"
    /\ faults = 0 /\ crashes = 0

Goto(u, l) == pc' = [pc EXCEPT ![u] = l]

\* The call is over; its locals are gone.
Return(u) ==
    /\ Goto(u, "idle")
    /\ req' = [req EXCEPT ![u] = {}]
    /\ old' = [old EXCEPT ![u] = NoFile]
    /\ new' = [new EXCEPT ![u] = NoFile]

\* The recovery work of _read_locked, all of it done and synced.
Recovery == Restoring(vis) \o Discarding(vis)

ReadDone ==
    /\ ~Ambiguous(vis)
    /\ IF Recovery = << >> THEN UNCHANGED disk ELSE DoAndSync(Recovery)
    /\ NoFault

\* _read_locked failing: two links and no path, or a rename, an unlink or the
\* directory fsync failing part of the way.
ReadFails ==
    \/ /\ Ambiguous(vis)
       /\ UNCHANGED disk /\ NoFault
    \/ /\ ~Ambiguous(vis) /\ Recovery # << >>
       /\ \E n \in 0..Len(Recovery) : Do(SubSeq(Recovery, 1, n))
       /\ Fault

(***************************************************************************)
(* BenchmarkSnapshotUpdater.update                                         *)
(***************************************************************************)
\* The store's read and the two checks on what it returned: an incomplete
\* prefix raises, a snapshot that reaches the calendar's end is returned.
Update(u) ==
    /\ pc[u] = "idle" /\ lock = Nobody
    /\ ReadDone
    /\ \E c \in Calendars :
          LET s == Readable(vis) IN
          IF s # NoFile /\ (~PrefixComplete(s, c) \/ CoverageEnd(s) >= Max(c))
          THEN UNCHANGED proc
          ELSE /\ req' = [req EXCEPT ![u] = c]
               /\ old' = [old EXCEPT ![u] = s]
               /\ Goto(u, "collect")
               /\ UNCHANGED <<lock, new, before>>
    /\ UNCHANGED <<hist, crashes>>

UpdateReadFails(u) ==
    /\ pc[u] = "idle" /\ lock = Nobody
    /\ ReadFails
    /\ UNCHANGED <<proc, hist, crashes>>

\* The source answers: levels for the missing window, which must complete
\* the calendar; anything else raises.
Collect(u) ==
    /\ pc[u] = "collect"
    /\ \E c \in Collected((CoverageEnd(old[u]) + 1)..Max(req[u]) \cap Sessions) :
          LET combined == Combine(old[u], c) IN
          IF Covers(combined, req[u])
          THEN /\ new' = [new EXCEPT ![u] = combined]
               /\ Goto(u, "publish")
               /\ UNCHANGED <<req, old>>
          ELSE Return(u)
    /\ UNCHANGED <<disk, lock, before, hist, faults, crashes>>

SourceFails(u) ==
    /\ pc[u] = "collect"
    /\ Return(u)
    /\ UNCHANGED <<disk, lock, before, hist, faults, crashes>>

(***************************************************************************)
(* BenchmarkSnapshotStore.publish.                                         *)
(***************************************************************************)
\* A snapshot is published over what the file holds now, not over what the
\* updater read before it collected.
Publishable(current, replacement) ==
    Valid(replacement) /\ (current # NoFile => Extends(current, replacement))

\* The lock, the file read again under it, the append-only check.
Publish(u) ==
    /\ pc[u] = "publish" /\ lock = Nobody
    /\ ReadDone
    /\ IF Publishable(Readable(vis), new[u])
       THEN /\ lock' = u /\ before' = Readable(vis) /\ Goto(u, "link")
            /\ UNCHANGED <<req, old, new>>
       ELSE UNCHANGED <<lock, before>> /\ Return(u)
    /\ UNCHANGED <<hist, crashes>>

PublishReadFails(u) ==
    /\ pc[u] = "publish" /\ lock = Nobody
    /\ ReadFails
    /\ Return(u)
    /\ UNCHANGED <<lock, before, hist, crashes>>

\* publish() ends with result and the lock file is closed.
Release(u, result) ==
    /\ lock' = Nobody /\ before' = NoFile /\ outcome' = result
    /\ Return(u)

Continue(u, l) == Goto(u, l) /\ UNCHANGED <<lock, req, old, new, before, outcome>>

Linked == IF before = NoFile THEN << >> ELSE <<<<"link", before>>>>
Unlinked == IF before = NoFile THEN << >> ELSE <<<<"unlink", before>>>>

\* The rollback link, made durable before the file is replaced; on an error
\* the link is dropped again and nothing was replaced.
MakeLink(u) ==
    /\ pc[u] = "link"
    /\ \/ DoAndSync(Linked) /\ Continue(u, "replace") /\ NoFault
       \/ Do(Linked \o Unlinked) /\ Release(u, "raised") /\ Fault
    /\ UNCHANGED <<acked, crashes>>

Replace(u) ==
    /\ pc[u] = "replace"
    /\ \/ Do(<<<<"replace", new[u]>>>>) /\ Continue(u, "sync") /\ NoFault
       \/ Do(Unlinked) /\ Release(u, "raised") /\ Fault
    /\ UNCHANGED <<acked, crashes>>

SyncSkipped(u) ==
    /\ pc[u] = "sync"
    /\ UNCHANGED disk /\ Continue(u, "unlink") /\ NoFault
    /\ UNCHANGED <<acked, crashes>>

\* The fsync that commits the replacement, or the rollback it starts.
SyncReplaced(u) ==
    /\ pc[u] = "sync"
    /\ \/ DoAndSync(<< >>) /\ Continue(u, "unlink") /\ NoFault
       \/ UNCHANGED disk /\ Continue(u, "rollback") /\ Fault
    /\ UNCHANGED <<acked, crashes>>

\* _rollback_replace: the old file is put back over the new one, or the new
\* one removed, and synced.  Either call may fail, which raises
\* BENCHMARK_PUBLICATION_ROLLBACK_FAILED.
Undo == IF before = NoFile THEN <<<<"remove">>>> ELSE <<<<"restore", before>>>>

RollbackForgotten(u) ==
    /\ pc[u] = "rollback"
    /\ DoAndSync(Unlinked) /\ Release(u, "raised") /\ NoFault
    /\ UNCHANGED <<acked, crashes>>

Rollback(u) ==
    /\ pc[u] = "rollback"
    /\ \/ DoAndSync(Undo) /\ Release(u, "raised") /\ NoFault
       \/ Do(Undo) /\ Release(u, "rollback_failed") /\ Fault
       \/ UNCHANGED disk /\ Release(u, "rollback_failed") /\ Fault
    /\ UNCHANGED <<acked, crashes>>

\* The link is dropped and the snapshot returned; a last fsync that fails is
\* ignored, an unlink that fails takes the publication back.
Unlink(u) ==
    /\ pc[u] = "unlink"
    /\ \/ /\ \/ DoAndSync(Unlinked) /\ NoFault
             \/ Do(Unlinked) /\ before # NoFile /\ Fault
          /\ Release(u, "published")
          /\ acked' = new[u]
       \/ /\ before # NoFile
          /\ UNCHANGED <<disk, acked>>
          /\ Continue(u, "rollback") /\ Fault
    /\ UNCHANGED crashes

(***************************************************************************)
(* Faults.                                                                 *)
(***************************************************************************)
\* The process dies; the kernel drops its flock, the directory stays.
Kill(u) ==
    /\ pc[u] # "idle" /\ crashes < MaxCrashes
    /\ crashes' = crashes + 1
    /\ Return(u)
    /\ IF lock = u THEN lock' = Nobody /\ before' = NoFile ELSE UNCHANGED <<lock, before>>
    /\ outcome' = "none"
    /\ UNCHANGED <<disk, acked, faults>>

\* The machine dies: every process with it, and the directory comes back as
\* some subset of the unsynced operations made it.
Crash ==
    /\ crashes < MaxCrashes
    /\ crashes' = crashes + 1
    /\ \E d \in AfterCrash : vis' = d /\ dur' = d
    /\ pending' = << >>
    /\ lock' = Nobody /\ before' = NoFile /\ outcome' = "none"
    /\ pc' = [u \in Updaters |-> "idle"]
    /\ req' = [u \in Updaters |-> {}]
    /\ old' = [u \in Updaters |-> NoFile]
    /\ new' = [u \in Updaters |-> NoFile]
    /\ UNCHANGED <<acked, faults>>

Next ==
    \/ \E u \in Updaters :
          \/ Update(u) \/ UpdateReadFails(u) \/ Collect(u) \/ SourceFails(u)
          \/ Publish(u) \/ PublishReadFails(u) \/ MakeLink(u) \/ Replace(u)
          \/ SyncReplaced(u) \/ Rollback(u) \/ Unlink(u) \/ Kill(u)
    \/ Crash

Spec == Init /\ [][Next]_vars

(***************************************************************************)
(* Properties.                                                             *)
(***************************************************************************)
TypeOK ==
    /\ vis \in Dir /\ dur \in Dir
    /\ lock \in Updaters \cup {Nobody}
    /\ pc \in [Updaters -> {"idle", "collect", "publish", "link", "replace",
                            "sync", "rollback", "unlink"}]
    /\ faults \in 0..MaxFaults /\ crashes \in 0..MaxCrashes
    /\ \A u \in Updaters :
          pc[u] \in {"link", "replace", "sync", "rollback", "unlink"} <=> lock = u

\* publish() returned: from then on no crash, kill or failed call of a later
\* publication makes the file lose a level that was published (the ordering of
\* the link, the two directory fsyncs and the replace in _atomic_replace).
PublishedSurvives ==
    \A d \in AfterCrash \cup {vis} :
        ~Ambiguous(d) /\ (acked # NoFile => Extends(acked, Readable(d)))

\* Two updaters that read the same file and collected different levels do not
\* overwrite each other: whatever is published later extends what was
\* published before (_require_append_only_publication, under the lock).
HistoryAppendOnly == acked' # acked => Extends(acked, acked')

\* A publication that raised leaves the file as it found it: only a rollback
\* that fails too may leave the new snapshot behind for the next reader.
FailedPublicationUndone ==
    lock # Nobody /\ lock' = Nobody /\ outcome' = "raised"
     => Readable(vis') = before
=============================================================================
