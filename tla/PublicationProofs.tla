-------------------------- MODULE PublicationProofs --------------------------
(***************************************************************************)
(* Proofs about Publication, for any manifests, objects and publishers.    *)
(*                                                                         *)
(* The properties are not inductive one by one: that a link never loses    *)
(* its bytes needs that the object a collector is erasing is linked by     *)
(* nobody, and that needs the mutation lock and the staging lock           *)
(* (CollectorFenced); that an admitted read finds its links needs that a   *)
(* retention row that is not expired has its manifest (RetentionAgrees).   *)
(***************************************************************************)
EXTENDS Publication, TLAPS

CollectorFenced ==
    collector.pc # "idle" => /\ collector.object \notin ObjectsOf(links)
                             /\ \A p \in Publishers : publisher[p].session # "held"

RetentionAgrees ==
    /\ \A m \in Manifests : retention[m] \in {"live", "due"} =>
          m \in manifests /\ expired \cap Inventory(m) = {}
    /\ \A m \in reading : retention[m] \in {"live", "due"}

SessionsOpen ==
    \A p \in Publishers : publisher[p].pc = "idle" => publisher[p].session = "none"

PubInv ==
    /\ TypeOK /\ PublishedReadable /\ StagedBytesSurvive /\ UnlinkedIsQueued
    /\ AdmittedReadSucceeds /\ CollectorFenced /\ RetentionAgrees /\ SessionsOpen

-----------------------------------------------------------------------------
(* Links and inventories *)

\* A link of the inventory of m names m and a payload of m.
LEMMA InventoryShape ==
    ASSUME NEW m \in Manifests, NEW l \in Inventory(m)
    PROVE  /\ l \in Links /\ l[1] = m
           /\ l[2] \in Names(m) /\ l = <<m, l[2]>>
           /\ ObjectOf(l) = Digest[m][l[2]] /\ ObjectOf(l) \in Objects
BY DigestAssumption DEF Inventory, Links, ObjectOf, Names

\* Every link belongs to the inventory of the manifest it names.
LEMMA LinkShape ==
    ASSUME NEW l \in Links
    PROVE  l[1] \in Manifests /\ l \in Inventory(l[1]) /\ ObjectOf(l) \in Objects
<1>1. PICK m \in Manifests : l \in Inventory(m)
  BY DEF Links
<1> QED BY <1>1, InventoryShape

\* Each payload name of m has its link and its object.
LEMMA NameShape ==
    ASSUME NEW m \in Manifests, NEW n \in Names(m)
    PROVE  /\ <<m, n>> \in Inventory(m) /\ ObjectOf(<<m, n>>) = Digest[m][n]
           /\ Digest[m][n] \in Objects
BY DigestAssumption DEF Inventory, ObjectOf, Names

\* The objects of a set of links are objects.
LEMMA ObjectsOfType ==
    ASSUME NEW ls \in SUBSET Links
    PROVE  ObjectsOf(ls) \subseteq Objects
BY LinkShape DEF ObjectsOf

\* Uploads add bytes and remove none.
LEMMA PutKeeps ==
    ASSUME TypeOK, NEW os \in SUBSET Objects, PutImmutable(os)
    PROVE  /\ stored' \in [Objects -> {"absent", "fresh", "old"}]
           /\ \A o \in Objects : Present(o) => Present(o)'
           /\ \A o \in os : Present(o)'
BY DEF TypeOK, PutImmutable, Present

\* An inventory's expiring part is part of it.
LEMMA ExpiringShape ==
    ASSUME NEW m \in Manifests
    PROVE  {<<m, n>> : n \in Expiring[m]} \subseteq Inventory(m)
BY ExpiringAssumption DEF Inventory, Names

-----------------------------------------------------------------------------
(* Steps that only move bytes into S3 or change a publisher *)

\* Bytes are only added and the records stay: everything but the publishers' own
\* clauses is preserved.
LEMMA BytesGrow ==
    ASSUME PubInv,
           UNCHANGED rows, UNCHANGED reading,
           stored' \in [Objects -> {"absent", "fresh", "old"}],
           \A o \in Objects : Present(o) => Present(o)'
    PROVE  PublishedReadable' /\ UnlinkedIsQueued' /\ AdmittedReadSucceeds' /\ RetentionAgrees'
<1> USE DEF PubInv, TypeOK, rows
<1>1. PublishedReadable'
  <2>1. \A l \in links : Present(ObjectOf(l))'
    <3> TAKE l \in links
    <3>1. ObjectOf(l) \in Objects /\ Present(ObjectOf(l)) BY LinkShape DEF PublishedReadable
    <3> QED BY <3>1
  <2> QED BY <2>1 DEF PublishedReadable, ObjectOf, Inventory, Names
<1>2. UnlinkedIsQueued' BY DEF UnlinkedIsQueued, ObjectsOf, ObjectOf
<1>3. AdmittedReadSucceeds'
  <2> SUFFICES ASSUME NEW m \in reading
               PROVE  Inventory(m) \subseteq links /\ \A n \in Names(m) : Present(Digest[m][n])'
    BY DEF AdmittedReadSucceeds, Inventory, Names
  <2> QED BY NameShape DEF AdmittedReadSucceeds
<1>4. RetentionAgrees' BY DEF RetentionAgrees, Inventory, Names
<1> QED BY <1>1, <1>2, <1>3, <1>4

\* OpenStaging, RequireStagingSession, Abandon and SessionLost.
LEMMA SessionSteps ==
    ASSUME PubInv, NEW p \in Publishers,
           \/ \E m \in Manifests : OpenStaging(p, m)
           \/ RequireStagingSession(p) \/ Abandon(p) \/ SessionLost(p)
    PROVE  PubInv'
<1> USE DEF PubInv
<1>1. UNCHANGED <<stored, rows, collector, page, reading>>
  BY DEF OpenStaging, RequireStagingSession, Abandon, SessionLost
<1>2. PublishedReadable' /\ UnlinkedIsQueued' /\ AdmittedReadSucceeds' /\ RetentionAgrees'
  BY <1>1, BytesGrow DEF TypeOK, Present
<1>3. /\ publisher' \in [Publishers -> Publisher]
      /\ \A q \in Publishers : publisher'[q].pc # "idle" =>
            /\ publisher'[q].manifest \in Manifests
            /\ publisher'[q].staged \subseteq Names(publisher'[q].manifest)
      /\ \A q \in Publishers : publisher'[q].session = "held" =>
            \/ publisher'[q].staged = {}
            \/ /\ publisher[q].session = "held" /\ publisher'[q].staged = publisher[q].staged
               /\ publisher'[q].manifest = publisher[q].manifest
      /\ \A q \in Publishers : publisher'[q].session = "held" =>
            publisher[q].session = "held" \/ collector.pc = "idle"
      /\ SessionsOpen'
  BY DEF TypeOK, Publisher, OpenStaging, RequireStagingSession, Abandon, SessionLost,
         Close, Closed, Scope, MutationFree, SessionsOpen
<1>4. TypeOK' BY <1>1, <1>3 DEF TypeOK, rows, Names, Links, Inventory, PayloadNames, Publisher
<1>5. StagedBytesSurvive' BY <1>1, <1>3 DEF StagedBytesSurvive, Present
<1>6. CollectorFenced' BY <1>1, <1>3 DEF CollectorFenced, ObjectsOf, ObjectOf, rows
<1> QED BY <1>2, <1>3, <1>4, <1>5, <1>6

\* Stage uploads one payload under the name it then counts as staged.
LEMMA StageStep ==
    ASSUME PubInv, NEW p \in Publishers, Stage(p)
    PROVE  PubInv'
<1> USE DEF PubInv
<1> DEFINE m == publisher[p].manifest
<1>1. PICK n \in Names(m) \ publisher[p].staged :
         /\ PutImmutable({Digest[m][n]})
         /\ publisher' = [publisher EXCEPT ![p] = Scope(m, @.staged \cup {n}, @.session)]
  BY DEF Stage
<1>2. m \in Manifests /\ publisher[p].pc = "putting" /\ publisher[p].staged \subseteq Names(m)
  BY DEF Stage, TypeOK
<1>3. UNCHANGED <<rows, collector, page, reading>>
  BY DEF Stage
<1>4. /\ Digest[m][n] \in Objects
      /\ n \in PayloadNames
  BY <1>1, <1>2, NameShape DEF PayloadNames
<1>5. /\ stored' \in [Objects -> {"absent", "fresh", "old"}]
      /\ \A o \in Objects : Present(o) => Present(o)'
      /\ stored'[Digest[m][n]] # "absent"
  BY <1>1, <1>4, PutKeeps DEF Present
<1>6. PublishedReadable' /\ UnlinkedIsQueued' /\ AdmittedReadSucceeds' /\ RetentionAgrees'
  BY <1>3, <1>5, BytesGrow
<1>7. /\ publisher' \in [Publishers -> Publisher]
      /\ \A q \in Publishers : q # p => publisher'[q] = publisher[q]
      /\ publisher'[p].manifest = m /\ publisher'[p].staged = publisher[p].staged \cup {n}
      /\ publisher'[p].session = publisher[p].session /\ publisher'[p].pc = "staging"
  <2>1. publisher[p] \in Publisher BY DEF TypeOK
  <2>2. Scope(m, publisher[p].staged \cup {n}, publisher[p].session) \in Publisher
    BY <1>2, <1>4, <2>1 DEF Publisher, Scope
  <2> QED BY <1>1, <2>2 DEF TypeOK, Scope
<1> HIDE DEF m
<1>8. TypeOK'
  BY <1>1, <1>2, <1>3, <1>5, <1>7 DEF TypeOK, rows, Names, Links, Inventory
<1>9. StagedBytesSurvive'
  <2> SUFFICES ASSUME NEW q \in Publishers, publisher'[q].session = "held",
                      NEW k \in publisher'[q].staged
               PROVE  stored'[Digest[publisher'[q].manifest][k]] # "absent"
    BY DEF StagedBytesSurvive, Present
  <2>1. publisher[q].pc # "idle" BY <1>2, <1>7 DEF SessionsOpen
  <2>2. CASE q = p /\ k = n BY <1>5, <1>7, <2>2 DEF m, Present
  <2>3. CASE q # p \/ k # n
    <3>1. /\ publisher'[q].manifest = publisher[q].manifest
          /\ publisher[q].session = "held" /\ k \in publisher[q].staged
      BY <1>7, <2>3 DEF m
    <3>2. publisher[q].manifest \in Manifests /\ k \in Names(publisher[q].manifest)
      BY <2>1, <3>1 DEF TypeOK
    <3>3. Digest[publisher[q].manifest][k] \in Objects /\ Present(Digest[publisher[q].manifest][k])
      BY <3>1, <3>2, NameShape DEF StagedBytesSurvive
    <3> QED BY <1>5, <3>1, <3>3 DEF Present
  <2> QED BY <2>2, <2>3
<1>10. CollectorFenced' BY <1>3, <1>7 DEF CollectorFenced, ObjectsOf, ObjectOf, rows
<1>11. SessionsOpen' BY <1>2, <1>7 DEF SessionsOpen
<1> QED BY <1>6, <1>8, <1>9, <1>10, <1>11

\* An activation that was rolled back leaves uploaded bytes and nothing else; a sweep
\* only ages the bytes it lists.
LEMMA StrayBytes ==
    ASSUME PubInv, (\E m \in Manifests : ActivationFails(m)) \/ ScanPage
    PROVE  PubInv'
<1> USE DEF PubInv
<1>1. UNCHANGED <<rows, publisher, collector, reading>> /\ page' \subseteq Objects
  BY DEF ActivationFails, ScanPage, TypeOK
<1>2. /\ stored' \in [Objects -> {"absent", "fresh", "old"}]
      /\ \A o \in Objects : Present(o) => Present(o)'
  <2>1. CASE ScanPage BY <2>1 DEF ScanPage, Present, TypeOK
  <2>2. CASE \E m \in Manifests : ActivationFails(m)
    <3>0. PICK m \in Manifests : ActivationFails(m) BY <2>2
    <3>1. PICK ls \in SUBSET Inventory(m) : PutImmutable(ObjectsOf(ls))
      BY <3>0 DEF ActivationFails
    <3>2. ls \in SUBSET Links BY <3>1, InventoryShape
    <3>3. ObjectsOf(ls) \in SUBSET Objects BY <3>2, ObjectsOfType
    <3> QED BY <3>1, <3>3, PutKeeps
  <2> QED BY <2>1, <2>2
<1>3. PublishedReadable' /\ UnlinkedIsQueued' /\ AdmittedReadSucceeds' /\ RetentionAgrees'
  BY <1>1, <1>2, BytesGrow
<1>4. TypeOK' BY <1>1, <1>2 DEF TypeOK, rows, Names, Links, Inventory
<1>5. StagedBytesSurvive'
  <2> SUFFICES ASSUME NEW q \in Publishers, publisher[q].session = "held",
                      NEW k \in publisher[q].staged
               PROVE  stored'[Digest[publisher[q].manifest][k]] # "absent"
    BY <1>1 DEF StagedBytesSurvive, Present
  <2>1. publisher[q].manifest \in Manifests /\ k \in Names(publisher[q].manifest)
    BY DEF TypeOK, SessionsOpen
  <2>2. Digest[publisher[q].manifest][k] \in Objects /\ Present(Digest[publisher[q].manifest][k])
    BY <2>1, NameShape DEF StagedBytesSurvive
  <2> QED BY <1>2, <2>2 DEF Present
<1>6. CollectorFenced' /\ SessionsOpen'
  BY <1>1 DEF CollectorFenced, SessionsOpen, ObjectsOf, ObjectOf, rows
<1> QED BY <1>3, <1>4, <1>5, <1>6

-----------------------------------------------------------------------------
(* Records and references *)

\* record: whatever was uploaded before it, the new links have their bytes.
LEMMA RecordStep ==
    ASSUME PubInv, NEW m \in Manifests, NEW owner \in Owners,
           RecordRows(m, owner), MutationFree,
           expired \cap Inventory(m) = {},
           stored' \in [Objects -> {"absent", "fresh", "old"}],
           \A o \in Objects : Present(o) => Present(o)',
           \A n \in Names(m) : Present(Digest[m][n])',
           UNCHANGED <<collector, reading>>
    PROVE  /\ PublishedReadable' /\ UnlinkedIsQueued' /\ AdmittedReadSucceeds'
           /\ CollectorFenced' /\ RetentionAgrees'
           /\ objects' \subseteq Objects /\ manifests' \subseteq Manifests
           /\ links' \subseteq Links /\ expired' = expired
           /\ retention' \in [Manifests -> Retentions]
           /\ deletions' = deletions /\ refs' \subseteq Manifests \X Owners
<1> USE DEF PubInv
<1>1. Inventory(m) \subseteq Links BY InventoryShape
<1>2. ObjectsOf(Inventory(m)) \subseteq Objects BY <1>1, ObjectsOfType
<1>3. \A l \in Inventory(m) : /\ l[1] = m /\ ObjectOf(l) \in ObjectsOf(Inventory(m))
                              /\ Present(ObjectOf(l))'
  <2> TAKE l \in Inventory(m)
  <2>1. ObjectOf(l) \in ObjectsOf(Inventory(m)) BY DEF ObjectsOf
  <2> QED BY <2>1, InventoryShape
<1>4. \A l \in links : ObjectOf(l) \in Objects /\ Present(ObjectOf(l))'
  <2> TAKE l \in links
  <2>1. ObjectOf(l) \in Objects BY LinkShape DEF TypeOK
  <2>2. Present(ObjectOf(l)) BY DEF PublishedReadable
  <2> QED BY <2>1, <2>2
<1>5. PublishedReadable'
  BY <1>1, <1>3, <1>4 DEF PublishedReadable, RecordRows
<1>6. UnlinkedIsQueued'
  BY DEF UnlinkedIsQueued, RecordRows, ObjectsOf
<1>7. AdmittedReadSucceeds'
  <2> SUFFICES ASSUME NEW r \in reading
               PROVE  Inventory(r) \subseteq links' /\ \A n \in Names(r) : Present(Digest[r][n])'
    BY DEF AdmittedReadSucceeds
  <2>1. r \in Manifests BY DEF TypeOK
  <2> QED BY <2>1, NameShape DEF AdmittedReadSucceeds, RecordRows
<1>8. CollectorFenced' BY DEF CollectorFenced, MutationFree
<1>9. RetentionAgrees' /\ retention' \in [Manifests -> Retentions]
  BY DEF RetentionAgrees, RecordRows, TypeOK, Retentions
<1>10. refs' \subseteq Manifests \X Owners BY DEF RecordRows, TypeOK
<1> QED BY <1>1, <1>2, <1>5, <1>6, <1>7, <1>8, <1>9, <1>10 DEF RecordRows, TypeOK

\* Record(p): the session is held, so what was staged is still there.
LEMMA RecordPreserves ==
    ASSUME PubInv, NEW p \in Publishers, Record(p)
    PROVE  PubInv'
<1> USE DEF PubInv
<1> DEFINE m == publisher[p].manifest
<1>1. /\ publisher' = [publisher EXCEPT ![p] = Closed]
      /\ UNCHANGED <<stored, collector, page, reading>>
      /\ MutationFree /\ m \in Manifests
  BY DEF Record, Close, TypeOK
<1>2. /\ publisher' \in [Publishers -> Publisher]
      /\ \A q \in Publishers : q # p => publisher'[q] = publisher[q]
      /\ publisher'[p].pc = "idle" /\ publisher'[p].session = "none" /\ publisher'[p].staged = {}
  BY <1>1 DEF TypeOK, Publisher, Closed
<1>3. StagedBytesSurvive' BY <1>1, <1>2 DEF StagedBytesSurvive, Present
<1>4. SessionsOpen' BY <1>2 DEF SessionsOpen
<1>5. CASE UNCHANGED rows
  <2>1. PublishedReadable' /\ UnlinkedIsQueued' /\ AdmittedReadSucceeds' /\ RetentionAgrees'
    BY <1>1, <1>5, BytesGrow DEF TypeOK, Present
  <2>2. TypeOK' BY <1>1, <1>2, <1>5 DEF TypeOK, rows, Names, Links, Inventory
  <2>3. CollectorFenced' BY <1>1 DEF CollectorFenced, MutationFree
  <2> QED BY <1>3, <1>4, <2>1, <2>2, <2>3
<1>6. CASE Recordable(m) /\ RecordRows(m, "run")
  <2> HIDE DEF m
  <2>1. /\ PublishedReadable' /\ UnlinkedIsQueued' /\ AdmittedReadSucceeds'
        /\ CollectorFenced' /\ RetentionAgrees'
        /\ objects' \subseteq Objects /\ manifests' \subseteq Manifests
        /\ links' \subseteq Links /\ expired' = expired
        /\ retention' \in [Manifests -> Retentions]
        /\ deletions' = deletions /\ refs' \subseteq Manifests \X Owners
    <3>1. \A n \in Names(m) : stored'[Digest[m][n]] # "absent"
      BY <1>1, <1>6 DEF Recordable, Present
    <3>2. "run" \in Owners BY DEF Owners
    <3>3. stored' \in [Objects -> {"absent", "fresh", "old"}] BY <1>1 DEF TypeOK
    <3>4. \A o \in Objects : Present(o) => Present(o)' BY <1>1 DEF Present
    <3>5. expired \cap Inventory(m) = {} BY <1>6 DEF Recordable
    <3>6. PICK mm \in Manifests : mm = m BY <1>1
    <3>7. \A n \in Names(mm) : Present(Digest[mm][n])' BY <3>1, <3>6 DEF Present
    <3>8. RecordRows(mm, "run") /\ expired \cap Inventory(mm) = {} BY <1>6, <3>5, <3>6
    <3> QED BY <1>1, <3>2, <3>3, <3>4, <3>7, <3>8, RecordStep
  <2>2. TypeOK' BY <1>1, <1>2, <2>1 DEF TypeOK, Names, Links, Inventory
  <2> QED BY <1>3, <1>4, <2>1, <2>2
<1> QED BY <1>5, <1>6 DEF Record

\* The transaction of an activation uploads under the mutation lock.
LEMMA ActivatePreserves ==
    ASSUME PubInv, NEW m \in Manifests, ActivateCheckpoint(m)
    PROVE  PubInv'
<1> USE DEF PubInv
<1>1. /\ RecordRows(m, "track") /\ MutationFree /\ "track" \in Owners
      /\ expired \cap Inventory(m) = {}
      /\ PutImmutable(ObjectsOf(Inventory(m)))
      /\ UNCHANGED <<publisher, collector, page, reading>>
  BY DEF ActivateCheckpoint, Owners
<1>2. ObjectsOf(Inventory(m)) \in SUBSET Objects
  BY InventoryShape, ObjectsOfType
<1>3. /\ stored' \in [Objects -> {"absent", "fresh", "old"}]
      /\ \A o \in Objects : Present(o) => Present(o)'
      /\ \A o \in ObjectsOf(Inventory(m)) : Present(o)'
  BY <1>1, <1>2, PutKeeps
<1>4. \A n \in Names(m) : Present(Digest[m][n])'
  BY <1>3, NameShape DEF ObjectsOf
<1>5. /\ PublishedReadable' /\ UnlinkedIsQueued' /\ AdmittedReadSucceeds'
      /\ CollectorFenced' /\ RetentionAgrees'
      /\ objects' \subseteq Objects /\ manifests' \subseteq Manifests
      /\ links' \subseteq Links /\ expired' = expired
      /\ retention' \in [Manifests -> Retentions]
      /\ deletions' = deletions /\ refs' \subseteq Manifests \X Owners
  BY <1>1, <1>3, <1>4, RecordStep
<1>6. TypeOK' BY <1>1, <1>3, <1>5 DEF TypeOK, Names, Links, Inventory
<1>7. StagedBytesSurvive'
  <2> SUFFICES ASSUME NEW q \in Publishers, publisher[q].session = "held",
                      NEW k \in publisher[q].staged
               PROVE  stored'[Digest[publisher[q].manifest][k]] # "absent"
    BY <1>1 DEF StagedBytesSurvive, Present
  <2>1. publisher[q].manifest \in Manifests /\ k \in Names(publisher[q].manifest)
    BY DEF TypeOK, SessionsOpen
  <2>2. Digest[publisher[q].manifest][k] \in Objects /\ Present(Digest[publisher[q].manifest][k])
    BY <2>1, NameShape DEF StagedBytesSurvive
  <2> QED BY <1>3, <2>2 DEF Present
<1>8. SessionsOpen' BY <1>1 DEF SessionsOpen
<1> QED BY <1>5, <1>6, <1>7, <1>8

\* Releasing a set of links queues the objects that lose their last one.
LEMMA Unlinking ==
    ASSUME PubInv, NEW ls \in SUBSET links,
           links' = links \ ls, objects' = objects,
           deletions' = deletions \cup NewlyUnreferenced(ls)
    PROVE  UnlinkedIsQueued' /\ deletions' \subseteq Objects
<1> USE DEF PubInv
<1>1. ObjectsOf(ls) \subseteq Objects BY ObjectsOfType DEF TypeOK
<1>2. deletions' \subseteq Objects BY <1>1 DEF NewlyUnreferenced, TypeOK
<1>3. ObjectsOf(links) \subseteq ObjectsOf(links') \cup NewlyUnreferenced(ls)
  BY DEF ObjectsOf, NewlyUnreferenced
<1>4. UnlinkedIsQueued' BY <1>3 DEF UnlinkedIsQueued, ObjectsOf
<1> QED BY <1>2, <1>4

\* Deleting a run or a track.
LEMMA ReleasePreserves ==
    ASSUME PubInv, NEW m \in Manifests, NEW owner \in Owners, Release(m, owner)
    PROVE  PubInv'
<1> USE DEF PubInv
<1>1. /\ MutationFree /\ refs' = refs \ {<<m, owner>>}
      /\ UNCHANGED <<stored, objects, publisher, collector, page, reading>>
  BY DEF Release
<1>2. StagedBytesSurvive' /\ SessionsOpen' /\ CollectorFenced'
  BY <1>1 DEF StagedBytesSurvive, Present, SessionsOpen, CollectorFenced, MutationFree
<1>3. CASE UNCHANGED <<manifests, links, expired, retention, deletions>>
  <2>1. TypeOK' BY <1>1, <1>3 DEF TypeOK, Names, Links, Inventory
  <2>2. PublishedReadable' /\ UnlinkedIsQueued' /\ AdmittedReadSucceeds' /\ RetentionAgrees'
    BY <1>1, <1>3 DEF PublishedReadable, UnlinkedIsQueued, AdmittedReadSucceeds, RetentionAgrees,
                      Present, Inventory, Names, ObjectsOf, ObjectOf
  <2> QED BY <1>2, <2>1, <2>2
<1>4. CASE /\ ~ StillReferenced(m, owner)
           /\ m \notin reading
           /\ manifests' = manifests \ {m}
           /\ links' = links \ Inventory(m)
           /\ expired' = expired \ Inventory(m)
           /\ retention' = [retention EXCEPT ![m] = "none"]
           /\ deletions' = deletions \cup NewlyUnreferenced(links \cap Inventory(m))
  <2>1. UnlinkedIsQueued' /\ deletions' \subseteq Objects
    <3>1. links' = links \ (links \cap Inventory(m)) BY <1>4
    <3> HIDE DEF PubInv
    <3> QED BY <1>1, <1>4, <3>1, Unlinking
  <2>2. \A r \in refs' : r[1] # m
    BY <1>1, <1>4 DEF StillReferenced, TypeOK
  <2>3. \A k \in Manifests : k # m => Inventory(k) \cap Inventory(m) = {}
    BY InventoryShape
  <2>4. \A l \in links' : l[1] # m
    BY <1>4, LinkShape DEF TypeOK
  <2>5. PublishedReadable'
    <3>1. \A r \in refs' : r[1] \in manifests' BY <1>1, <1>4, <2>2 DEF PublishedReadable
    <3>2. \A k \in manifests' :
             /\ Inventory(k) \subseteq links' \cup expired'
             /\ expired' \cap Inventory(k) \subseteq {<<k, n>> : n \in Expiring[k]}
      BY <1>4, <2>3 DEF PublishedReadable, TypeOK
    <3>3. \A l \in links' : /\ l[1] \in manifests' /\ l \notin expired'
                            /\ ObjectOf(l) \in objects' /\ Present(ObjectOf(l))'
      BY <1>1, <1>4, <2>4 DEF PublishedReadable, Present, ObjectOf
    <3> QED BY <3>1, <3>2, <3>3 DEF PublishedReadable
  <2>6. AdmittedReadSucceeds'
    BY <1>1, <1>4, <2>3 DEF AdmittedReadSucceeds, Present, TypeOK
  <2>7. RetentionAgrees'
    BY <1>1, <1>4 DEF RetentionAgrees, TypeOK
  <2>8. TypeOK'
    BY <1>1, <1>4, <2>1 DEF TypeOK, Retentions, Names, Links, Inventory
  <2> QED BY <1>2, <2>1, <2>5, <2>6, <2>7, <2>8
<1> QED BY <1>3, <1>4 DEF Release


\* A track takes a reference of its own to the Result of its run.
LEMMA TrackingPreserves ==
    ASSUME PubInv, NEW m \in Manifests, StartTracking(m)
    PROVE  PubInv'
<1> USE DEF PubInv
<1>1. /\ <<m, "run">> \in refs /\ refs' = refs \cup {<<m, "track">>}
      /\ UNCHANGED <<stored, objects, manifests, links, expired, retention, deletions,
                     publisher, collector, page, reading>>
  BY DEF StartTracking
<1>2. TypeOK' BY <1>1 DEF TypeOK, Owners, Names, Links, Inventory
<1>3. m \in manifests BY <1>1 DEF PublishedReadable
<1>4. PublishedReadable'
  BY <1>1, <1>3 DEF PublishedReadable, Inventory, Names, ObjectOf, Present
<1>5. UnlinkedIsQueued' /\ CollectorFenced' /\ SessionsOpen' /\ RetentionAgrees'
  BY <1>1 DEF UnlinkedIsQueued, CollectorFenced, SessionsOpen, RetentionAgrees,
              ObjectsOf, ObjectOf, Inventory, Names
<1>6. AdmittedReadSucceeds' /\ StagedBytesSurvive'
  BY <1>1 DEF AdmittedReadSucceeds, StagedBytesSurvive, Inventory, Names, Present
<1> QED BY <1>2, <1>4, <1>5, <1>6

-----------------------------------------------------------------------------
(* Payload retention *)

\* The seven days pass, a read starts, a read ends: no record but the retention row moves.
LEMMA ReadingPreserves ==
    ASSUME PubInv, NEW m \in Manifests, PayloadDue(m) \/ BeginRead(m) \/ EndRead(m)
    PROVE  PubInv'
<1> USE DEF PubInv
<1>1. UNCHANGED <<stored, objects, manifests, links, expired, deletions, refs,
                  publisher, collector, page>>
  BY DEF PayloadDue, BeginRead, EndRead, rows
<1>2. /\ retention' \in [Manifests -> Retentions] /\ reading' \subseteq Manifests
      /\ \A k \in Manifests : retention'[k] \in {"live", "due"} => retention[k] \in {"live", "due"}
      /\ \A k \in reading' : retention'[k] \in {"live", "due"}
      /\ \A k \in reading' : retention[k] \in {"live", "due"}
  BY DEF PayloadDue, BeginRead, EndRead, rows, TypeOK, Retentions, RetentionAgrees
<1>3. TypeOK' BY <1>1, <1>2 DEF TypeOK, Names, Links, Inventory
<1>4. PublishedReadable' /\ UnlinkedIsQueued' /\ CollectorFenced' /\ SessionsOpen'
  BY <1>1 DEF PublishedReadable, UnlinkedIsQueued, CollectorFenced, SessionsOpen,
              ObjectsOf, ObjectOf, Inventory, Names, Present
<1>5. RetentionAgrees' BY <1>1, <1>2 DEF RetentionAgrees, Inventory, Names
<1>6. StagedBytesSurvive' BY <1>1 DEF StagedBytesSurvive, Present
<1>7. AdmittedReadSucceeds'
  <2> SUFFICES ASSUME NEW k \in reading'
               PROVE  Inventory(k) \subseteq links /\ \A n \in Names(k) : Present(Digest[k][n])
    BY <1>1 DEF AdmittedReadSucceeds, Inventory, Names, Present
  <2>1. k \in Manifests /\ k \in manifests /\ expired \cap Inventory(k) = {}
    BY <1>2 DEF RetentionAgrees
  <2>2. Inventory(k) \subseteq links BY <2>1 DEF PublishedReadable
  <2>3. \A n \in Names(k) : Present(Digest[k][n])
    BY <2>1, <2>2, NameShape DEF PublishedReadable
  <2> QED BY <2>2, <2>3
<1> QED BY <1>3, <1>4, <1>5, <1>6, <1>7

\* Expiry removes links of a manifest nobody reads and queues what they alone held.
LEMMA ExpiryPreserves ==
    ASSUME PubInv, NEW m \in Manifests, ExpirePayloads(m)
    PROVE  PubInv'
<1> USE DEF PubInv
<1> DEFINE gone == {<<m, n>> : n \in Expiring[m]}
<1>1. /\ MutationFree /\ retention[m] = "due" /\ m \notin reading
      /\ gone \subseteq links
      /\ expired' = expired \cup gone /\ links' = links \ gone
      /\ deletions' = deletions \cup NewlyUnreferenced(gone)
      /\ retention' = [retention EXCEPT ![m] = "expired"]
      /\ UNCHANGED <<stored, objects, manifests, refs, publisher, collector, page, reading>>
  BY DEF ExpirePayloads, Expirable
<1>2. gone \subseteq Inventory(m) BY ExpiringShape
<1>3. \A k \in Manifests : k # m => Inventory(k) \cap gone = {}
  BY <1>2, InventoryShape
<1>4. \A k \in manifests : expired' \cap Inventory(k) \subseteq {<<k, n>> : n \in Expiring[k]}
  <2> TAKE k \in manifests
  <2>1. CASE k = m BY <1>1, <2>1 DEF PublishedReadable
  <2>2. CASE k # m BY <1>1, <1>3, <2>2 DEF PublishedReadable, TypeOK
  <2> QED BY <2>1, <2>2
<1> HIDE DEF gone
<1>5. UnlinkedIsQueued' /\ deletions' \subseteq Objects
  <2> HIDE DEF PubInv
  <2> QED BY <1>1, Unlinking
<1>6. TypeOK'
  BY <1>1, <1>5 DEF TypeOK, Retentions, Names, Links, Inventory
<1>7. PublishedReadable'
  <2>1. \A k \in manifests' : Inventory(k) \subseteq links' \cup expired'
    BY <1>1 DEF PublishedReadable
  <2>2. \A l \in links' : /\ l[1] \in manifests' /\ l \notin expired'
                          /\ ObjectOf(l) \in objects' /\ Present(ObjectOf(l))'
    BY <1>1 DEF PublishedReadable, Present, ObjectOf
  <2> QED BY <1>1, <1>4, <2>1, <2>2 DEF PublishedReadable
<1>8. AdmittedReadSucceeds' BY <1>1, <1>3 DEF AdmittedReadSucceeds, TypeOK, Present
<1>9. RetentionAgrees' BY <1>1, <1>3 DEF RetentionAgrees, TypeOK
<1>10. StagedBytesSurvive' /\ SessionsOpen' /\ CollectorFenced'
  BY <1>1 DEF StagedBytesSurvive, Present, SessionsOpen, CollectorFenced, MutationFree
<1> QED BY <1>5, <1>6, <1>7, <1>8, <1>9, <1>10

-----------------------------------------------------------------------------
(* Collection *)

\* The steps of a collector that leave S3 and the object rows alone: an entry of the queue
\* is dropped only when its object is linked, a transaction starts only when it is not.
LEMMA CollectingPreserves ==
    ASSUME PubInv,
           \/ \E o \in Objects : CollectQueued(o) \/ RemoveOrphan(o)
           \/ CollectorFails
    PROVE  PubInv'
<1> USE DEF PubInv
<1>1. UNCHANGED <<stored, objects, manifests, links, expired, retention, refs, publisher, reading>>
  BY DEF CollectQueued, RemoveOrphan, CollectRetained, BeginDeletion, BeginOrphan, SkipOrphan,
         CollectorFails, rows
<1>2. \A o \in Objects : o \notin objects => o \notin ObjectsOf(links)
  BY DEF PublishedReadable, ObjectsOf
<1>3. /\ deletions' \subseteq deletions
      /\ deletions \ deletions' \subseteq ObjectsOf(links)
      /\ page' \subseteq page
      /\ collector' \in Collector
      /\ collector'.pc # "idle" =>
            /\ collector'.object \in Objects \ ObjectsOf(links)
            /\ \A p \in Publishers : publisher[p].session # "held"
  <2>1. CASE CollectorFails
    BY <2>1 DEF CollectorFails, TypeOK, Collector, NotCollecting, rows
  <2>2. CASE \E o \in Objects : CollectQueued(o) \/ RemoveOrphan(o)
    <3>1. PICK o \in Objects : CollectQueued(o) \/ RemoveOrphan(o) BY <2>2
    <3>2. CASE CollectRetained(o)
      BY <3>2 DEF CollectRetained, CanCollect, MutationFree, Referenced, TypeOK
    <3>3. CASE BeginDeletion(o)
      BY <3>3 DEF BeginDeletion, CanCollect, Referenced, TypeOK, Collector, rows
    <3>4. CASE BeginOrphan(o)
      BY <1>2, <3>4 DEF BeginOrphan, CanCollect, Orphan, TypeOK, Collector, rows
    <3>5. CASE SkipOrphan(o)
      BY <3>5 DEF SkipOrphan, CanCollect, MutationFree, TypeOK, rows
    <3> QED BY <3>1, <3>2, <3>3, <3>4, <3>5 DEF CollectQueued, RemoveOrphan
  <2> QED BY <2>1, <2>2
<1>4. TypeOK' BY <1>1, <1>3 DEF TypeOK, Names, Links, Inventory
<1>5. PublishedReadable'
  BY <1>1 DEF PublishedReadable, Inventory, Names, ObjectOf, Present
<1>6. UnlinkedIsQueued' BY <1>1, <1>3 DEF UnlinkedIsQueued, ObjectsOf, ObjectOf
<1>7. CollectorFenced' BY <1>1, <1>3 DEF CollectorFenced, ObjectsOf, ObjectOf
<1>8. AdmittedReadSucceeds' /\ StagedBytesSurvive' /\ RetentionAgrees' /\ SessionsOpen'
  BY <1>1 DEF AdmittedReadSucceeds, StagedBytesSurvive, RetentionAgrees, SessionsOpen,
              Inventory, Names, Present
<1> QED BY <1>4, <1>5, <1>6, <1>7, <1>8

\* The DELETE takes the bytes of an object that no link and no held session needs.
LEMMA ErasePreserves ==
    ASSUME PubInv, EraseBytes
    PROVE  PubInv'
<1> USE DEF PubInv
<1> DEFINE o == collector.object
<1>1. /\ collector.pc = "deleting"
      /\ stored' = [stored EXCEPT ![o] = "absent"]
      /\ collector' = [collector EXCEPT !.pc = "erased"]
      /\ UNCHANGED <<objects, manifests, links, expired, retention, deletions, refs,
                     publisher, page, reading>>
  BY DEF EraseBytes, rows
<1>2. /\ o \in Objects /\ o \notin ObjectsOf(links)
      /\ \A p \in Publishers : publisher[p].session # "held"
  BY <1>1 DEF CollectorFenced, TypeOK
<1>3. /\ collector' \in Collector /\ collector'.object = o /\ collector'.pc = "erased"
  BY <1>1 DEF TypeOK, Collector
<1>4. /\ stored' \in [Objects -> {"absent", "fresh", "old"}]
      /\ \A x \in Objects : x # o => stored'[x] = stored[x]
  BY <1>1, <1>2 DEF TypeOK
<1> HIDE DEF o
<1>5. \A l \in links : ObjectOf(l) \in Objects /\ ObjectOf(l) # o
  BY <1>2, LinkShape DEF TypeOK, ObjectsOf
<1>6. TypeOK' BY <1>1, <1>2, <1>3, <1>4 DEF TypeOK, Names, Links, Inventory
<1>7. PublishedReadable'
  <2>1. \A l \in links : stored'[ObjectOf(l)] # "absent"
    BY <1>4, <1>5 DEF PublishedReadable, Present
  <2> QED BY <1>1, <2>1 DEF PublishedReadable, Inventory, Names, ObjectOf, Present
<1>8. AdmittedReadSucceeds'
  <2> SUFFICES ASSUME NEW m \in reading
               PROVE  Inventory(m) \subseteq links /\ \A n \in Names(m) : stored'[Digest[m][n]] # "absent"
    BY <1>1 DEF AdmittedReadSucceeds, Inventory, Names, Present
  <2>1. m \in Manifests /\ Inventory(m) \subseteq links
    BY DEF AdmittedReadSucceeds, TypeOK
  <2>2. \A n \in Names(m) : Digest[m][n] \in Objects /\ Digest[m][n] # o
    BY <1>5, <2>1, NameShape
  <2> QED BY <1>4, <2>1, <2>2 DEF AdmittedReadSucceeds, Present
<1>9. StagedBytesSurvive' BY <1>1, <1>2 DEF StagedBytesSurvive
<1>10. UnlinkedIsQueued' /\ SessionsOpen' /\ RetentionAgrees'
  BY <1>1 DEF UnlinkedIsQueued, SessionsOpen, RetentionAgrees, ObjectsOf, ObjectOf, Inventory, Names
<1>11. CollectorFenced' BY <1>1, <1>2, <1>3 DEF CollectorFenced, ObjectsOf, ObjectOf
<1> QED BY <1>6, <1>7, <1>8, <1>9, <1>10, <1>11

\* The commit forgets the object: its row and its queue entry go together.
LEMMA FinishPreserves ==
    ASSUME PubInv, FinishDeletion
    PROVE  PubInv'
<1> USE DEF PubInv
<1> DEFINE o == collector.object
<1>1. /\ collector' = NotCollecting
      /\ UNCHANGED <<stored, manifests, links, expired, retention, refs, publisher, reading>>
  BY DEF FinishDeletion
<1>2. /\ objects' \subseteq objects /\ objects' \cap {o} \subseteq ObjectsOf(links) \cup deletions'
      /\ objects \ objects' \subseteq {o} \ ObjectsOf(links)
      /\ deletions' \subseteq deletions /\ deletions \ deletions' \subseteq {o}
      /\ page' \subseteq page
  <2>1. objects \subseteq ObjectsOf(links) \cup deletions BY DEF UnlinkedIsQueued
  <2> QED BY <2>1 DEF FinishDeletion
<1> HIDE DEF o
<1>3. ObjectsOf(links) \cap objects \subseteq objects' BY <1>2
<1>4. collector' \in Collector /\ collector'.pc = "idle"
  BY <1>1 DEF NotCollecting, Collector
<1>5. TypeOK' BY <1>1, <1>2, <1>4 DEF TypeOK, Names, Links, Inventory
<1>6. PublishedReadable'
  <2>1. \A l \in links : ObjectOf(l) \in objects'
    BY <1>3 DEF PublishedReadable, ObjectsOf
  <2> QED BY <1>1, <2>1 DEF PublishedReadable, Inventory, Names, ObjectOf, Present
<1>7. UnlinkedIsQueued'
  <2>1. objects' \subseteq ObjectsOf(links) \cup deletions'
    BY <1>2 DEF UnlinkedIsQueued
  <2> QED BY <1>1, <2>1 DEF UnlinkedIsQueued, ObjectsOf, ObjectOf
<1>8. AdmittedReadSucceeds' /\ StagedBytesSurvive' /\ RetentionAgrees' /\ SessionsOpen'
  BY <1>1 DEF AdmittedReadSucceeds, StagedBytesSurvive, RetentionAgrees, SessionsOpen,
              Inventory, Names, Present
<1>9. CollectorFenced' BY <1>4 DEF CollectorFenced
<1> QED BY <1>5, <1>6, <1>7, <1>8, <1>9

-----------------------------------------------------------------------------
(* The inductive invariant and what follows from it *)

\* An empty publication store satisfies the invariant.
LEMMA PubInvInit == Init => PubInv
<1> SUFFICES ASSUME Init PROVE PubInv
  OBVIOUS
<1>1. TypeOK
  BY DEF Init, TypeOK, Retentions, Publisher, Collector, Closed, NotCollecting
<1>2. PublishedReadable /\ UnlinkedIsQueued /\ AdmittedReadSucceeds
  BY DEF Init, PublishedReadable, UnlinkedIsQueued, AdmittedReadSucceeds
<1>3. StagedBytesSurvive /\ CollectorFenced /\ RetentionAgrees /\ SessionsOpen
  BY DEF Init, StagedBytesSurvive, CollectorFenced, RetentionAgrees, SessionsOpen, Closed,
         NotCollecting
<1> QED BY <1>1, <1>2, <1>3 DEF PubInv

\* Every step of a publisher, of the product services and of the maintenance keeps it.
LEMMA PubInvNext == PubInv /\ [Next]_vars => PubInv'
<1> SUFFICES ASSUME PubInv, [Next]_vars PROVE PubInv'
  OBVIOUS
<1>1. ASSUME NEW p \in Publishers, PublisherStep(p) PROVE PubInv'
  BY <1>1, SessionSteps, StageStep, RecordPreserves DEF PublisherStep
<1>2. ASSUME NEW m \in Manifests, ProductStep(m) PROVE PubInv'
  BY <1>2, ActivatePreserves, StrayBytes, TrackingPreserves, ReleasePreserves, ReadingPreserves,
     ExpiryPreserves DEF ProductStep
<1>3. ASSUME NEW o \in Objects, CollectQueued(o) \/ RemoveOrphan(o) PROVE PubInv'
  BY <1>3, CollectingPreserves
<1>4. CASE ScanPage BY <1>4, StrayBytes
<1>5. CASE EraseBytes BY <1>5, ErasePreserves
<1>6. CASE FinishDeletion BY <1>6, FinishPreserves
<1>7. CASE CollectorFails BY <1>7, CollectingPreserves
<1>8. CASE UNCHANGED vars
  <2>1. UNCHANGED <<stored, objects, manifests, links, expired, retention, deletions, refs,
                    publisher, collector, page, reading>>
    BY <1>8 DEF vars
  <2>2. TypeOK' BY <2>1 DEF PubInv, TypeOK, Names, Links, Inventory
  <2>3. PublishedReadable' /\ UnlinkedIsQueued' /\ AdmittedReadSucceeds' /\ RetentionAgrees'
    BY <2>1, BytesGrow DEF PubInv, TypeOK, Present, rows
  <2>4. StagedBytesSurvive' /\ CollectorFenced' /\ SessionsOpen'
    BY <2>1 DEF PubInv, StagedBytesSurvive, CollectorFenced, SessionsOpen, Present, ObjectsOf,
                ObjectOf
  <2> QED BY <2>2, <2>3, <2>4 DEF PubInv
<1> QED BY <1>1, <1>2, <1>3, <1>4, <1>5, <1>6, <1>7, <1>8 DEF Next

\* The conjunction holds throughout every behaviour.
THEOREM PublicationInvariant == Spec => []PubInv
BY PubInvInit, PubInvNext, PTL DEF Spec

\* Rows, publishers, the collector and the scan keep their types: in particular a publisher
\* stages only payloads of its manifest and a deletion always has its object.
THEOREM PublicationTypes == Spec => []TypeOK
<1>1. PubInv => TypeOK BY DEF PubInv
<1> QED BY <1>1, PublicationInvariant, PTL

\* No collection, expiry or release ever takes the bytes or the object row of a payload
\* that a published manifest links (collect_pending_deletion_in_transaction,
\* _remove_orphan, release_manifest_in_transaction).
THEOREM PublishedStaysReadable == Spec => []PublishedReadable
<1>1. PubInv => PublishedReadable BY DEF PubInv
<1> QED BY <1>1, PublicationInvariant, PTL

\* While its staging session is held, a publisher's uploads are not collected, reused
\* objects of released publications included (staging, try_lock_publication_collection).
THEOREM StagingIsSafe == Spec => []StagedBytesSurvive
<1>1. PubInv => StagedBytesSurvive BY DEF PubInv
<1> QED BY <1>1, PublicationInvariant, PTL

\* release_manifest_in_transaction and the payload expiry queue every object whose last
\* link they delete: no object row is ever left without a link and without a queue entry.
THEOREM NothingForgotten == Spec => []UnlinkedIsQueued
<1>1. PubInv => UnlinkedIsQueued BY DEF PubInv
<1> QED BY <1>1, PublicationInvariant, PTL

\* PayloadRetention.read_detail finds the bytes of a read it admitted.
THEOREM ReadsComplete == Spec => []AdmittedReadSucceeds
<1>1. PubInv => AdmittedReadSucceeds BY DEF PubInv
<1> QED BY <1>1, PublicationInvariant, PTL
=============================================================================
