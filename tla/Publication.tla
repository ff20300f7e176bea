----------------------------- MODULE Publication -----------------------------
(***************************************************************************)
(* Immutable publications: content-addressed bytes in S3 beside their      *)
(* records in PostgreSQL (publication/service.py), the maintenance that    *)
(* deletes bytes (maintenance.py) and the idle expiry of diagnostic        *)
(* payloads (payload_retention.py).                                        *)
(*                                                                         *)
(* Two advisory locks order everything.  The mutation lock is held by      *)
(* every transaction that records, releases, expires or collects; the      *)
(* staging lock is shared by publishers for as long as they hold staged    *)
(* bytes, and a collector tries it exclusively without waiting.  A         *)
(* transaction that only touches PostgreSQL is one action; a collector's   *)
(* is three, because its S3 DELETE cannot be rolled back.                  *)
(***************************************************************************)
EXTENDS FiniteSets

CONSTANTS
    Manifests,   \* manifest digests
    Objects,     \* object digests
    Publishers,  \* processes that stage and record
    Digest,      \* Digest[m] maps the payload names of manifest m to objects
    Expiring     \* Expiring[m]: the names recorded as expiring_payloads

ASSUME DigestAssumption == \A m \in Manifests : \A n \in DOMAIN Digest[m] : Digest[m][n] \in Objects
ASSUME ExpiringAssumption == \A m \in Manifests : Expiring[m] \subseteq DOMAIN Digest[m]

VARIABLES
    stored,      \* bytes in S3 and their age against the cutoff of the orphan scan
    objects,     \* publication.objects
    manifests,   \* publication.manifests
    links,       \* publication.manifest_objects
    expired,     \* publication.expired_payloads
    retention,   \* publication.payload_retention
    deletions,   \* publication.object_deletions
    refs,        \* product rows that name a manifest: a ResearchRun, a DailyTrack
    publisher,   \* local state of each publisher
    collector,   \* the collection transaction that is open, if any
    page,        \* orphans listed by _scan and not handled yet
    reading      \* manifests whose retention row a detail read has locked

rows == <<objects, manifests, links, expired, retention, deletions, refs>>
vars == <<stored, objects, manifests, links, expired, retention, deletions, refs,
          publisher, collector, page, reading>>

-----------------------------------------------------------------------------
Names(m) == DOMAIN Digest[m]
Inventory(m) == {<<m, n>> : n \in Names(m)}
Links == UNION {Inventory(m) : m \in Manifests}
ObjectOf(l) == Digest[l[1]][l[2]]
ObjectsOf(ls) == {ObjectOf(l) : l \in ls}
Present(o) == stored[o] # "absent"

Owners == {"run", "track"}
Retentions == {"none", "live", "due", "expired"}

Scope(m, staged, session) ==
    [pc |-> "staging", manifest |-> m, staged |-> staged, session |-> session]
Closed == [pc |-> "idle", manifest |-> "none", staged |-> {}, session |-> "none"]
NotCollecting == [pc |-> "idle", object |-> "none", queued |-> FALSE]

\* pg_advisory_xact_lock(PUBLICATION_MUTATION_LOCK): only a collector keeps it across steps.
MutationFree == collector.pc = "idle"

\* try_lock_publication_collection, after the mutation lock.
CollectUnfenced == MutationFree  \* mutant: the staging lock is not tried
CanCollect == MutationFree /\ \A p \in Publishers : publisher[p].session # "held"

\* PUT with IfNoneMatch: an object that is already there is reused, whatever its age.
PutImmutable(os) ==
    stored' = [o \in Objects |-> IF o \in os /\ ~ Present(o) THEN "fresh" ELSE stored[o]]

Init ==
    /\ stored = [o \in Objects |-> "absent"]
    /\ objects = {} /\ manifests = {} /\ links = {} /\ expired = {}
    /\ retention = [m \in Manifests |-> "none"]
    /\ deletions = {} /\ refs = {}
    /\ publisher = [p \in Publishers |-> Closed]
    /\ collector = NotCollecting
    /\ page = {} /\ reading = {}

-----------------------------------------------------------------------------
(* Publishers *)

Close(p) == publisher' = [publisher EXCEPT ![p] = Closed]

\* staging(): the shared lock is waited for while a collector holds it.
OpenStaging(p, m) ==
    /\ publisher[p].pc = "idle"
    /\ MutationFree
    /\ publisher' = [publisher EXCEPT ![p] = Scope(m, {}, "held")]
    /\ UNCHANGED <<stored, rows, collector, page, reading>>

\* _require_staging_session, at the start of stage, stage_file and prepare.
RequireStagingSession(p) ==
    /\ publisher[p].pc = "staging"
    /\ publisher[p].staged # Names(publisher[p].manifest)
    /\ \/ publisher[p].session = "held" /\ publisher' = [publisher EXCEPT ![p].pc = "putting"]
       \/ publisher[p].session = "lost" /\ Close(p)
    /\ UNCHANGED <<stored, rows, collector, page, reading>>

\* The upload.  The session may have been lost since it was checked.
Stage(p) ==
    /\ publisher[p].pc = "putting"
    /\ \E n \in Names(publisher[p].manifest) \ publisher[p].staged :
          /\ PutImmutable({Digest[publisher[p].manifest][n]})
          /\ publisher' = [publisher EXCEPT ![p] = Scope(@.manifest, @.staged \cup {n}, @.session)]
    /\ UNCHANGED <<rows, collector, page, reading>>

\* The checks of record under the mutation lock: no tombstone, every object verified in S3.
Recordable(m) ==
    /\ expired \cap Inventory(m) = {}
    /\ \A n \in Names(m) : Present(Digest[m][n])

\* The rows record writes, and the reference its caller writes in the same transaction.
RecordRows(m, owner) ==
    /\ objects' = objects \cup ObjectsOf(Inventory(m))
    /\ manifests' = manifests \cup {m}
    /\ links' = links \cup Inventory(m)
    /\ retention' = [retention EXCEPT ![m] =
                        IF Expiring[m] # {} /\ @ = "none" THEN "live" ELSE @]
    /\ refs' = refs \cup {<<m, owner>>}
    /\ UNCHANGED <<expired, deletions>>

\* record, then the end of the staging scope.
Record(p) ==
    /\ publisher[p].pc = "staging"
    /\ publisher[p].staged = Names(publisher[p].manifest)
    /\ MutationFree
    /\ LET m == publisher[p].manifest
           accepted == publisher[p].session = "held" /\ Recordable(m)
       IN  \/ accepted /\ RecordRows(m, "run")
           \/ ~ accepted /\ UNCHANGED rows
    /\ Close(p)
    /\ UNCHANGED <<stored, collector, page, reading>>

\* The caller's transaction was fenced, the S3 request failed or the process died.
Abandon(p) ==
    /\ publisher[p].pc # "idle"
    /\ Close(p)
    /\ UNCHANGED <<stored, rows, collector, page, reading>>

SessionLost(p) ==
    /\ publisher[p].session = "held"
    /\ publisher' = [publisher EXCEPT ![p].session = "lost"]
    /\ UNCHANGED <<stored, rows, collector, page, reading>>

\* activate of a DailyTrack stages and records inside one transaction that holds the
\* mutation lock throughout, without a staging session.
ActivateCheckpoint(m) ==
    /\ MutationFree
    /\ expired \cap Inventory(m) = {}
    /\ PutImmutable(ObjectsOf(Inventory(m)))
    /\ RecordRows(m, "track")
    /\ UNCHANGED <<publisher, collector, page, reading>>

\* The same transaction, rolled back after some of its uploads.
ActivationFails(m) ==
    /\ MutationFree
    /\ \E ls \in SUBSET Inventory(m) : PutImmutable(ObjectsOf(ls))
    /\ UNCHANGED <<rows, publisher, collector, page, reading>>

-----------------------------------------------------------------------------
(* References *)

\* start_tracking: the track keeps the Result its run published.
StartTracking(m) ==
    /\ MutationFree
    /\ <<m, "run">> \in refs
    /\ refs' = refs \cup {<<m, "track">>}
    /\ UNCHANGED <<stored, objects, manifests, links, expired, retention, deletions,
                   publisher, collector, page, reading>>

\* Mutant: the queue is filled before the links are deleted.
NewlyUnreferencedEarly(released) == ObjectsOf(released) \ ObjectsOf(links)

NewlyUnreferenced(released) == ObjectsOf(released) \ ObjectsOf(links \ released)
StillReferenced(m, owner) == \E other \in Owners \ {owner} : <<m, other>> \in refs

\* delete of a run or of a track, with release_manifest_in_transaction.  The cascade
\* to the retention row waits for a detail read that has locked it.
Release(m, owner) ==
    /\ MutationFree
    /\ <<m, owner>> \in refs
    /\ refs' = refs \ {<<m, owner>>}
    /\ \/ /\ StillReferenced(m, owner)
          /\ UNCHANGED <<manifests, links, expired, retention, deletions>>
       \/ /\ ~ StillReferenced(m, owner)
          /\ m \notin reading
          /\ manifests' = manifests \ {m}
          /\ links' = links \ Inventory(m)
          /\ expired' = expired \ Inventory(m)
          /\ retention' = [retention EXCEPT ![m] = "none"]
          /\ deletions' = deletions \cup NewlyUnreferenced(links \cap Inventory(m))
    /\ UNCHANGED <<stored, objects, publisher, collector, page, reading>>

-----------------------------------------------------------------------------
(* Idle expiry of diagnostic payloads *)

\* Seven days without a read.
PayloadDue(m) ==
    /\ retention[m] = "live"
    /\ retention' = [retention EXCEPT ![m] = "due"]
    /\ UNCHANGED <<stored, objects, manifests, links, expired, deletions, refs,
                   publisher, collector, page, reading>>

ExpirableUnlocked(m) == retention[m] = "due"  \* mutant: no SKIP LOCKED
Expirable(m) == retention[m] = "due" /\ m \notin reading

\* PayloadRetention.expire_one_in_transaction
ExpirePayloads(m) ==
    /\ MutationFree
    /\ Expirable(m)
    /\ LET gone == {<<m, n>> : n \in Expiring[m]}
       IN  /\ gone \subseteq links
           /\ expired' = expired \cup gone
           /\ links' = links \ gone
           /\ deletions' = deletions \cup NewlyUnreferenced(gone)
    /\ retention' = [retention EXCEPT ![m] = "expired"]
    /\ UNCHANGED <<stored, objects, manifests, refs, publisher, collector, page, reading>>

\* PayloadRetention.read_detail: the row stays locked through the S3 reads, and a
\* read that verified its bytes renews the retention even past its old deadline.
BeginRead(m) ==
    /\ retention[m] = "live"
    /\ m \notin reading
    /\ reading' = reading \cup {m}
    /\ UNCHANGED <<stored, rows, publisher, collector, page>>

EndRead(m) ==
    /\ m \in reading
    /\ reading' = reading \ {m}
    /\ \/ /\ \A n \in Names(m) : Present(Digest[m][n])
          /\ retention' = [retention EXCEPT ![m] = "live"]
       \/ UNCHANGED retention
    /\ UNCHANGED <<stored, objects, manifests, links, expired, deletions, refs,
                   publisher, collector, page>>

-----------------------------------------------------------------------------
(* Collection *)

ReferencedUnchecked(o) == FALSE  \* mutant: the queue is believed
Referenced(o) == o \in ObjectsOf(links)

\* collect_pending_deletion_in_transaction: a queued object that a later publication
\* reused leaves the queue.
CollectRetained(o) ==
    /\ CanCollect
    /\ o \in deletions /\ Referenced(o)
    /\ deletions' = deletions \ {o}
    /\ UNCHANGED <<stored, objects, manifests, links, expired, retention, refs,
                   publisher, collector, page, reading>>

BeginDeletion(o) ==
    /\ CanCollect
    /\ o \in deletions /\ ~ Referenced(o)
    /\ collector' = [pc |-> "deleting", object |-> o, queued |-> TRUE]
    /\ UNCHANGED <<stored, rows, publisher, page, reading>>

\* _scan starts a sweep: its cutoff is fixed, and the listed objects that are not
\* recorded are kept.  The hour of grace is left out: what was uploaded before the sweep
\* counts as old, which only makes collection more eager.
ScanPage ==
    /\ page = {}
    /\ page' = {o \in Objects : Present(o) /\ o \notin objects}
    /\ page' # {}
    /\ stored' = [o \in Objects |-> IF Present(o) THEN "old" ELSE "absent"]
    /\ UNCHANGED <<rows, publisher, collector, reading>>

\* _remove_orphan asks again, under the locks, for the record and the age.
OrphanReversed(o) == o \notin objects /\ stored[o] = "fresh"  \* mutant: the age compared the wrong way
Orphan(o) == o \notin objects /\ stored[o] = "old"

BeginOrphan(o) ==
    /\ CanCollect
    /\ o \in page /\ Orphan(o)
    /\ collector' = [pc |-> "deleting", object |-> o, queued |-> FALSE]
    /\ UNCHANGED <<stored, rows, publisher, page, reading>>

SkipOrphan(o) ==
    /\ CanCollect
    /\ o \in page /\ ~ Orphan(o)
    /\ page' = page \ {o}
    /\ UNCHANGED <<stored, rows, publisher, collector, reading>>

\* DELETE, which no rollback undoes.
EraseBytes ==
    /\ collector.pc = "deleting"
    /\ stored' = [stored EXCEPT ![collector.object] = "absent"]
    /\ collector' = [collector EXCEPT !.pc = "erased"]
    /\ UNCHANGED <<rows, publisher, page, reading>>

\* The rest of the transaction and its commit.
FinishDeletion ==
    /\ collector.pc = "erased"
    /\ LET o == collector.object
       IN  \/ /\ collector.queued
              /\ deletions' = deletions \ {o}
              /\ objects' = objects \ ({o} \ ObjectsOf(links))
              /\ UNCHANGED page
           \/ /\ ~ collector.queued
              /\ page' = page \ {o}
              /\ UNCHANGED <<deletions, objects>>
    /\ collector' = NotCollecting
    /\ UNCHANGED <<stored, manifests, links, expired, retention, refs, publisher, reading>>

\* The request failed, or the collector died before its commit: the locks go, the
\* rows stay as they were.
CollectorFails ==
    /\ collector.pc # "idle"
    /\ collector' = NotCollecting
    /\ UNCHANGED <<stored, rows, publisher, page, reading>>

-----------------------------------------------------------------------------
PublisherStep(p) ==
    \/ \E m \in Manifests : OpenStaging(p, m)
    \/ RequireStagingSession(p) \/ Stage(p) \/ Record(p) \/ Abandon(p) \/ SessionLost(p)

ProductStep(m) ==
    \/ ActivateCheckpoint(m) \/ ActivationFails(m) \/ StartTracking(m)
    \/ \E owner \in Owners : Release(m, owner)
    \/ PayloadDue(m) \/ ExpirePayloads(m) \/ BeginRead(m) \/ EndRead(m)

CollectQueued(o) == CollectRetained(o) \/ BeginDeletion(o)
RemoveOrphan(o) == BeginOrphan(o) \/ SkipOrphan(o)

Next ==
    \/ \E p \in Publishers : PublisherStep(p)
    \/ \E m \in Manifests : ProductStep(m)
    \/ \E o \in Objects : CollectQueued(o) \/ RemoveOrphan(o)
    \/ ScanPage \/ EraseBytes \/ FinishDeletion \/ CollectorFails

Spec == Init /\ [][Next]_vars

\* run_once serves its jobs in turn, the queue oldest entry first and the listing in key
\* order, so each object has its turn in each job; the failures of S3 and of the
\* collector may recur but not for ever.
Fairness ==
    /\ \A o \in Objects :
          /\ SF_vars(CollectQueued(o)) /\ SF_vars(RemoveOrphan(o))
          /\ SF_vars(collector.object = o /\ EraseBytes)
          /\ SF_vars(collector.object = o /\ FinishDeletion)
    /\ WF_vars(ScanPage)

FairSpec == Spec /\ Fairness

-----------------------------------------------------------------------------
(* Properties *)

PayloadNames == UNION {Names(m) : m \in Manifests}
Publisher == [pc : {"idle", "staging", "putting"}, manifest : Manifests \cup {"none"},
              staged : SUBSET PayloadNames, session : {"none", "held", "lost"}]
Collector == [pc : {"idle", "deleting", "erased"}, object : Objects \cup {"none"},
              queued : BOOLEAN]

\* Types of the records and of the processes.
TypeOK ==
    /\ stored \in [Objects -> {"absent", "fresh", "old"}]
    /\ objects \subseteq Objects
    /\ manifests \subseteq Manifests
    /\ links \subseteq Links
    /\ expired \subseteq Links
    /\ retention \in [Manifests -> Retentions]
    /\ deletions \subseteq Objects
    /\ refs \subseteq Manifests \X Owners
    /\ publisher \in [Publishers -> Publisher]
    /\ \A p \in Publishers : publisher[p].pc # "idle" =>
          /\ publisher[p].manifest \in Manifests
          /\ publisher[p].staged \subseteq Names(publisher[p].manifest)
    /\ collector \in Collector
    /\ collector.pc # "idle" => collector.object \in Objects
    /\ page \subseteq Objects
    /\ reading \subseteq Manifests

\* A Result or checkpoint a product row names can be read in full: every payload of its
\* inventory is either linked, with its object recorded and its bytes in S3, or was
\* expired on purpose.
PublishedReadable ==
    /\ \A r \in refs : r[1] \in manifests
    /\ \A m \in manifests : /\ Inventory(m) \subseteq links \cup expired
                            /\ expired \cap Inventory(m) \subseteq {<<m, n>> : n \in Expiring[m]}
    /\ \A l \in links : /\ l[1] \in manifests /\ l \notin expired
                        /\ ObjectOf(l) \in objects
                        /\ Present(ObjectOf(l))

\* What a publisher has staged stays in S3 until it records or gives up, even when the
\* object was reused from a publication already queued for deletion.
StagedBytesSurvive ==
    \A p \in Publishers : publisher[p].session = "held" =>
        \A n \in publisher[p].staged : Present(Digest[publisher[p].manifest][n])

\* No record is forgotten: an object row that nothing links is in the deletion queue.
UnlinkedIsQueued == objects \subseteq ObjectsOf(links) \cup deletions

\* A detail read that was admitted finds its bytes, although expiry, deletion of the
\* run and collection go on beside it.
AdmittedReadSucceeds ==
    \A m \in reading : /\ Inventory(m) \subseteq links
                       /\ \A n \in Names(m) : Present(Digest[m][n])

\* A publisher holds the lock session under which it stages.
Staging == \E p \in Publishers : publisher[p].session = "held"

\* The bytes of o are gone or referenced.
Reclaimed(o) == ~Present(o) \/ Referenced(o)
=============================================================================
