---------------------------- MODULE GenerationStore ----------------------------
(***************************************************************************)
(* The mounted Generation store: content-addressed objects, table, family  *)
(* and root manifests under one mount.  A file IS its content here, and a  *)
(* manifest holds the files it names, so an address is the record itself   *)
(* and two files with one address are equal.  The seven session tables of  *)
(* the core market families carry the same shape and are one table,        *)
(* "universe", whose row says which instruments a session's pool holds;    *)
(* one static object stands for the 4096-row blocks of a static table.     *)
(* Builders store one file per step and may crash between any two; the     *)
(* mount may damage or lose a file while no builder runs.  A build that is *)
(* refused half way leaves the files it stored and hands nothing back: it  *)
(* is a Crash here.  Builders and the collector exclude each other (module *)
(* DataLifecycle).  Evidence of daily basic collections is the days it     *)
(* covers; its receipts lie outside the mount.                             *)
(***************************************************************************)
EXTENDS Integers, FiniteSets, FiniteSetsExt, Sequences, SequencesExt

CONSTANTS
  None,           \* an absent family, coordinate, prior, head or build
  Width,          \* GENERATION_SESSION_PARTITION_COUNT
  Bootstraps,     \* canonical inputs a bootstrap may bring
  Replacements,   \* canonical inputs a refresh may bring
  Observations,   \* sets of indicator observations a candidate may hold
  Enabled,        \* the optional families, services and faults the instance has
  MaxBuilds,      \* how many roots and candidates are built
  MaxFaults       \* how many files the mount damages or loses

VARIABLES
  disk,      \* files present under the mount
  damaged,   \* present files whose bytes no longer hash to their address
  lost,      \* files the mount lost
  build,     \* the build or collection in progress
  made,      \* [root |-> [truth, base]]: the roots handed back to a caller
  cands,     \* candidates handed back: pit, indicator and industry manifests
  head,      \* the published root
  builds     \* builds begun so far

vars == <<disk, damaged, lost, build, made, cands, head, builds>>

(* Field ids and the family that owns each (data/fields.py). *)
CloseField == 1
PeField == 2
RevenueField == 3
RoeField == 4
Owner == (CloseField :> "universe") @@ (PeField :> "basic")
         @@ (RevenueField :> "pit") @@ (RoeField :> "indicator")

TableOrder == <<"calendar", "instruments", "universe", "industry", "catalog",
                "basic", "basicdays">>
SessionTables == {"calendar", "universe", "basic", "basicdays"}
Sparse == {"basic", "basicdays"}

CoreFamilies == {"calendar", "identity", "universe", "catalog"}
MarketFamilies == CoreFamilies \cup {"industry", "basic"}
FamilyOrder == <<"calendar", "identity", "universe", "industry", "catalog",
                 "basic", "pit", "indicator">>
TableNames(id) ==
  CASE id = "identity" -> {"instruments"}
    [] id = "basic" -> {"basic", "basicdays"}
    [] OTHER -> {id}

-----------------------------------------------------------------------------
(* Calendars are sets of sessions; a session's place is its rank.            *)

PartOf(cal, s) == Cardinality({x \in cal : x < s}) \div Width
Parts(cal) == (Cardinality(cal) + Width - 1) \div Width
BlockSessions(cal, k) == {s \in cal : PartOf(cal, s) = k - 1}
FirstKey(rows) == Min({r[1] : r \in rows})
LastKey(rows) == Max({r[1] : r \in rows})

(* A canonical input: calendar, identities, session pools, collected daily   *)
(* basic observations, industry members and catalog.                         *)
HasBasic(c) == c.basic # None
CanonicalRows(c, t) ==
  CASE t = "calendar" -> {<<s, {}>> : s \in c.cal}
    [] t = "instruments" -> {<<i, {}>> : i \in c.ids}
    [] t = "universe" -> {<<s, c.pool[s]>> : s \in DOMAIN c.pool}
    [] t = "industry" -> {<<i, {}>> : i \in c.industry}
    [] t = "catalog" -> {<<f, {}>> : f \in c.catalog}
    [] t = "basic" -> {<<s, c.basic[s]>> : s \in {x \in DOMAIN c.basic : c.basic[x] # {}}}
    [] t = "basicdays" -> {<<s, {}>> : s \in DOMAIN c.basic}

(* validate_canonical_generation on one input. *)
ValidCanonical(c) ==
  /\ c.cal # {} /\ c.ids # {} /\ DOMAIN c.pool = c.cal
  /\ \A s \in c.cal : c.pool[s] \subseteq c.ids
  /\ PeField \in c.catalog => HasBasic(c)
  /\ HasBasic(c) => /\ DOMAIN c.basic \subseteq c.cal
                    /\ \A s \in DOMAIN c.basic : c.basic[s] \subseteq c.ids

PartitionRows(t, rows, cal) ==
  IF t \notin SessionTables THEN <<rows>>
  ELSE LET blocks == [k \in 1..Parts(cal) |-> {r \in rows : PartOf(cal, r[1]) = k - 1}]
           kept == IF t \in Sparse THEN blocks
                   ELSE SelectSeq(blocks, LAMBDA b : b # {})
       IN IF kept = <<>> THEN <<{}>> ELSE kept

Obj(t, rows) == [file |-> "object", table |-> t, rows |-> rows]
TableFile(t, objects) == [file |-> "table", table |-> t, objects |-> objects]
MaterializeTable(t, rows, cal) ==
  TableFile(t, [k \in DOMAIN PartitionRows(t, rows, cal) |->
                  Obj(t, PartitionRows(t, rows, cal)[k])])
TableRows(T) == UNION {o.rows : o \in ToSet(T.objects)}

Range3(S) == <<Min(S), Max(S), Cardinality(S)>>
(* CollectedDailyBasicCoverage.build refuses a gap in the collected days. *)
Contiguous(S, cal) == S # {} /\ S = {s \in cal : s >= Min(S) /\ s <= Max(S)}

Coverage(id, c, cal) ==
  CASE id \in {"calendar", "universe"} -> Range3(cal)
    [] id = "identity" -> <<Cardinality(c.ids)>>
    [] id = "catalog" -> <<Cardinality(c.catalog)>>
    [] id = "industry" -> <<Min(cal), Max(cal), Cardinality(c.industry)>>
    [] id = "basic" -> Range3(DOMAIN c.basic)

MaterializeFamily(id, c, cal, tables, evidence) ==
  [file |-> "family", id |-> id, coverage |-> Coverage(id, c, cal),
   tables |-> [t \in TableNames(id) |-> tables[t]],
   evidence |-> IF id = "basic" THEN evidence ELSE {}]

NonFinancialFamilies(c) ==
  CoreFamilies \cup (IF c.industry = None THEN {} ELSE {"industry"})
               \cup (IF HasBasic(c) THEN {"basic"} ELSE {})

RootFile(sessions, fields, fam, readiness, fin, ind, prep) ==
  [file |-> "root", sessions |-> sessions, fields |-> fields, fam |-> fam,
   readiness |-> readiness, fin |-> fin, ind |-> ind, prep |-> prep]

FamilyOf(root, id) == IF id \in DOMAIN root.fam THEN root.fam[id] ELSE None

(* Files in the order the builders store them: each table's objects and then  *)
(* its manifest, the families, the root last.                                 *)
TableWrites(T) == T.objects \o <<T>>
RootFirst(tables, fam, root) ==
  <<root>> \o FlattenSeq([k \in DOMAIN TableOrder |->
    IF TableOrder[k] \in DOMAIN tables THEN TableWrites(tables[TableOrder[k]]) ELSE <<>>])
  \o [k \in DOMAIN SelectSeq(FamilyOrder, LAMBDA id : id \in DOMAIN fam) |->
        fam[SelectSeq(FamilyOrder, LAMBDA id : id \in DOMAIN fam)[k]]]
Writes(tables, fam, root) ==
  FlattenSeq([k \in DOMAIN TableOrder |->
                IF TableOrder[k] \in DOMAIN tables THEN TableWrites(tables[TableOrder[k]])
                ELSE <<>>])
  \o [k \in DOMAIN SelectSeq(FamilyOrder, LAMBDA id : id \in DOMAIN fam) |->
        fam[SelectSeq(FamilyOrder, LAMBDA id : id \in DOMAIN fam)[k]]]
  \o <<root>>

-----------------------------------------------------------------------------
(* Reading: an address is opened only when its bytes hash to it.              *)
Readable(f) == f \in disk /\ f \notin damaged
AllReadable(S) == \A f \in S : Readable(f)

FamilyManifests(root) == {root.fam[id] : id \in DOMAIN root.fam \cap MarketFamilies}
TableFiles(root) == UNION {{f.tables[t] : t \in DOMAIN f.tables} : f \in FamilyManifests(root)}
TableOf(root, id, t) == root.fam[id].tables[t]
ObjectFiles(root) == UNION {ToSet(T.objects) : T \in TableFiles(root)}

Readiness(pit, fields) == [through |-> pit.through, fields |-> fields \cap {RevenueField}]

(* _family_generation_descriptor_from_root, run on every root read. *)
DescriptorValid(r) ==
  /\ r.sessions # {}
  /\ CoreFamilies \subseteq DOMAIN r.fam
  /\ r.fam["calendar"].coverage = Range3(r.sessions)
  /\ r.fam["universe"].coverage = Range3(r.sessions)
  /\ \A id \in DOMAIN r.fam \cap {"industry", "basic"} :
       /\ r.fam[id].coverage[1] >= Min(r.sessions)
       /\ r.fam[id].coverage[2] <= Max(r.sessions)
  /\ IF "pit" \in DOMAIN r.fam
     THEN /\ RevenueField \in r.fields /\ r.fin # None
          /\ r.readiness = Readiness(r.fam["pit"], r.fields)
     ELSE r.readiness = None /\ r.fin = None
  /\ "indicator" \in DOMAIN r.fam =>
       /\ RoeField \in r.fields
       /\ Min(r.fam["indicator"].sessions) >= Min(r.sessions)
       /\ Max(r.fam["indicator"].sessions) <= Max(r.sessions)

RootValid(r) == Readable(r) /\ DescriptorValid(r)

Keys(T) == {row[1] : row \in TableRows(T)}

(* _open_table: every object, in the partitions the calendar asks for; the     *)
(* calendar table is its own calendar.                                         *)
TableOpens(T, cal) ==
  /\ Readable(T) /\ AllReadable(ToSet(T.objects))
  /\ [k \in DOMAIN T.objects |-> T.objects[k].rows]
       = PartitionRows(T.table, TableRows(T), IF T.table = "calendar" THEN Keys(T) ELSE cal)
FamilyTableOpens(r, id, t) ==
  Readable(r.fam[id]) /\ TableOpens(TableOf(r, id, t), r.sessions)

Identities(r) == Keys(TableOf(r, "identity", "instruments"))
Catalog(r) == Keys(TableOf(r, "catalog", "catalog"))

-----------------------------------------------------------------------------
(* Financial, indicator and industry candidates.  Their own stores build      *)
(* them; this store composes and retains them.                                *)

RECURSIVE TableChain(_)
TableChain(T) == {T} \cup (IF T.base = None THEN {} ELSE TableChain(T.base))

BaseTable(T) == {T.base} \ {None}

(* The table is read with the manifest of the table it extends. *)
PitFiles(p) == {p, p.index, p.table} \cup BaseTable(p.table) \cup ToSet(p.table.objects)
               \cup p.index.batches
SessionsThrough(r, s) == {x \in r.sessions : x <= s}

(* The calendar through the observation and the identities must be the source's. *)
Rebinds(p, r) ==
  /\ SessionsThrough(r, p.through) = SessionsThrough(p.source, p.through)
  /\ FamilyTableOpens(r, "identity", "instruments") /\ Readable(p.index)
  /\ p.ids \subseteq Identities(r)

(* reopen_against_prevalidated_market_generation. *)
ReopensAgainst(p, r) ==
  /\ Readable(p)
  /\ p.source # r => RootValid(r) /\ RootValid(p.source) /\ Rebinds(p, r)

IndicatorFiles(n) == {n} \cup ToSet(n.objects) \cup n.batches

(* validate_incremental_with_reference: nothing published is dropped. *)
IndicatorExtends(n, prior) ==
  /\ AllReadable(IndicatorFiles(n))
  /\ prior # None => /\ AllReadable(IndicatorFiles(prior))
                     /\ prior.observations \subseteq n.observations /\ prior.ids \subseteq n.ids

-----------------------------------------------------------------------------
(* Validation.                                                                *)

PartitionCountsValid(r) ==
  /\ \A id \in {"universe"} : Len(TableOf(r, id, id).objects) = Parts(r.sessions)
  /\ "basic" \in DOMAIN r.fam =>
       /\ Len(TableOf(r, "basic", "basic").objects) \in 1..Parts(r.sessions)
       /\ Len(TableOf(r, "basic", "basicdays").objects)
            = Len(TableOf(r, "basic", "basic").objects)

BlockRows(T, k) == IF k \in DOMAIN T.objects THEN T.objects[k].rows ELSE {}
BlockObject(T, k) == IF k \in DOMAIN T.objects THEN {T.objects[k]} ELSE {}
SessionTablesOf(r) == {T \in TableFiles(r) : T.table \in SessionTables \ {"calendar"}}

(* _validate_columnar_candidate_semantics on one block. *)
BlockValid(r, k) ==
  LET days == BlockSessions(r.sessions, k)
      pools == BlockRows(TableOf(r, "universe", "universe"), k)
  IN /\ {row[1] : row \in pools} = days /\ Cardinality(pools) = Cardinality(days)
     /\ \A row \in pools : row[2] \subseteq Identities(r)
     /\ "basic" \in DOMAIN r.fam =>
          LET seen == BlockRows(TableOf(r, "basic", "basic"), k)
              collected == {row[1] : row \in BlockRows(TableOf(r, "basic", "basicdays"), k)}
          IN /\ collected \subseteq days /\ {row[1] : row \in seen} \subseteq collected
             /\ \A row \in seen : row[2] \subseteq Identities(r)

(* A block inherits the predecessor's proof when no identity was dropped and   *)
(* calendar block and object references are all the predecessor's.             *)
BlockReused(r, p, k) ==
  /\ p # None
  /\ Identities(p) \subseteq Identities(r)
  /\ BlockSessions(r.sessions, k) = BlockSessions(p.sessions, k)
  /\ \A T \in SessionTablesOf(r) : \E Q \in SessionTablesOf(p) :
       Q.table = T.table /\ BlockObject(T, k) = BlockObject(Q, k)

(* _validate_candidate_projection: the root's declarations are what its        *)
(* tables and families say.                                                    *)
CollectedDays(r) == Keys(TableOf(r, "basic", "basicdays"))
ProjectionValid(r) ==
  /\ Keys(TableOf(r, "calendar", "calendar")) = r.sessions
  /\ r.fields = Catalog(r) \cup (IF "indicator" \in DOMAIN r.fam THEN {RoeField} ELSE {})
                           \cup (IF r.readiness = None THEN {} ELSE r.readiness.fields)
  /\ r.fam["identity"].coverage = <<Cardinality(Identities(r))>>
  /\ r.fam["catalog"].coverage = <<Cardinality(Catalog(r))>>
  /\ "industry" \in DOMAIN r.fam =>
       r.fam["industry"].coverage[3] = Cardinality(Keys(TableOf(r, "industry", "industry")))
  /\ "basic" \in DOMAIN r.fam =>
       /\ Contiguous(CollectedDays(r), r.sessions)
       /\ r.fam["basic"].coverage = Range3(CollectedDays(r))
       /\ r.fam["basic"].evidence # {} => UNION r.fam["basic"].evidence = CollectedDays(r)

(* What the validation reads of a predecessor: its calendar and identities,    *)
(* and the manifests of the session tables both have.                          *)
PredecessorOpens(r, p) ==
  /\ RootValid(p) /\ AllReadable(FamilyManifests(p))
  /\ FamilyTableOpens(p, "calendar", "calendar") /\ FamilyTableOpens(p, "identity", "instruments")
  /\ AllReadable({Q \in SessionTablesOf(p) : \E T \in SessionTablesOf(r) : T.table = Q.table})

ValidateMarket(r, p) ==
  /\ RootValid(r)
  /\ AllReadable(FamilyManifests(r)) /\ AllReadable(TableFiles(r))
  /\ \A id \in DOMAIN r.fam \cap (MarketFamilies \ {"universe", "basic"}) :
       \A t \in TableNames(id) : TableOpens(TableOf(r, id, t), r.sessions)
  /\ PartitionCountsValid(r)
  /\ p # None => PredecessorOpens(r, p)
  /\ \A k \in 1..Parts(r.sessions) :
       \/ /\ BlockReused(r, p, k)
          /\ "basic" \in DOMAIN r.fam => AllReadable(BlockObject(TableOf(r, "basic", "basicdays"), k))
       \/ /\ AllReadable(UNION {BlockObject(T, k) : T \in SessionTablesOf(r)})
          /\ BlockValid(r, k)
  /\ ProjectionValid(r)

(* FinancialCandidateStore.validate_stored: the candidate's own files, its      *)
(* parent's manifest and evidence, and its source Generation's market.          *)
ValidateStoredPit(p) ==
  /\ AllReadable(PitFiles(p))
  /\ p.prior # None => /\ AllReadable({p.prior, p.prior.index})
                       /\ p.prior.index.batches \subseteq p.index.batches
  /\ ValidateMarket(p.source, None) /\ p.through \in p.source.sessions
  /\ p.ids \subseteq Identities(p.source)

(* FinancialCandidateStore.validate.  A first family is rebuilt from its         *)
(* evidence and the whole market of its source; one that extends another from    *)
(* its parent, whose roots were validated when they were published.              *)
ValidatePit(p) ==
  /\ AllReadable(PitFiles(p)) /\ p.through \in p.source.sessions
  /\ IF p.prior = None THEN ValidateMarket(p.source, None)
     ELSE /\ RootValid(p.source) /\ RootValid(p.prior.source)
          /\ AllReadable({p.prior, p.prior.index} \cup BaseTable(p.prior.table))
          /\ p.prior.index.batches \subseteq p.index.batches /\ p.prior.through <= p.through
          /\ SessionsThrough(p.source, p.prior.through)
               = SessionsThrough(p.prior.source, p.prior.through)
  /\ FamilyTableOpens(p.source, "identity", "instruments") /\ p.ids \subseteq Identities(p.source)

(* validate_against_market_generation. *)
ValidatePitAgainst(p, r) ==
  /\ ValidatePit(p)
  /\ p.source # r => /\ IF p.prior = None THEN ValidateMarket(r, None) ELSE RootValid(r)
                     /\ p.through \in r.sessions /\ Rebinds(p, r)

ValidateGeneration(r) ==
  /\ ValidateMarket(r, None)
  /\ "indicator" \in DOMAIN r.fam => AllReadable(IndicatorFiles(r.fam["indicator"]))
  /\ "pit" \in DOMAIN r.fam =>
       ValidateStoredPit(r.fam["pit"]) /\ r.fam["pit"].through <= Max(r.sessions)

ValidateRefreshCandidate(r, p) ==
  /\ RootValid(p) /\ RootValid(r)
  /\ DOMAIN p.fam \subseteq DOMAIN r.fam
  /\ ValidateMarket(r, p)
  /\ "indicator" \in DOMAIN r.fam =>
       IF r.fam["indicator"] = FamilyOf(p, "indicator") THEN AllReadable(IndicatorFiles(r.fam["indicator"]))
       ELSE IndicatorExtends(r.fam["indicator"], FamilyOf(p, "indicator"))
  /\ "pit" \in DOMAIN r.fam =>
       /\ IF r.fam["pit"] = FamilyOf(p, "pit") THEN ReopensAgainst(r.fam["pit"], r)
          ELSE r.fam["pit"].prior = FamilyOf(p, "pit") /\ ValidatePitAgainst(r.fam["pit"], r)
       /\ r.fam["pit"].through <= Max(r.sessions)

-----------------------------------------------------------------------------
(* Building.  A build holds the files still to store, the file it hands back   *)
(* (its kind says which checks run after the last file is stored) and, as      *)
(* history, the data its inputs denote.                                        *)

NewBuild(kind, queue, result, truth, base) ==
  [kind |-> kind, queue |-> queue, result |-> result, truth |-> truth, base |-> base,
   stored |-> {}, next |-> 1]

Begin(b) == /\ build' = b /\ builds' = builds + 1
            /\ UNCHANGED <<disk, damaged, lost, made, cands, head>>

MaterializedTables(c) ==
  [t \in UNION {TableNames(id) : id \in NonFinancialFamilies(c)} |->
     MaterializeTable(t, CanonicalRows(c, t), c.cal)]
MaterializedFamilies(c, tables, evidence) ==
  [id \in NonFinancialFamilies(c) |-> MaterializeFamily(id, c, c.cal, tables, evidence)]
Evidence(c) == IF HasBasic(c) THEN {DOMAIN c.basic} ELSE {}
MaterializedRoot(c, tables) ==
  RootFile(c.cal, c.catalog, MaterializedFamilies(c, tables, Evidence(c)), None, None, None, builds)

Materialize(c) ==
  /\ ValidCanonical(c) /\ (HasBasic(c) => Contiguous(DOMAIN c.basic, c.cal))
  /\ \E root \in {MaterializedRoot(c, MaterializedTables(c))} :
       Begin(NewBuild("root", Writes(MaterializedTables(c), root.fam, root), root, c, None))

(* The streamed bootstrap: static tables, then one partition of every session  *)
(* table at a time, in calendar order; the manifests only when the partitions  *)
(* cover the calendar.                                                         *)
StreamedTables(c) == {t \in DOMAIN MaterializedTables(c) : t \in SessionTables \ {"calendar"}}
StaticTables(c) == DOMAIN MaterializedTables(c) \ StreamedTables(c)

BeginStream(c) ==
  /\ c.cal # {} /\ (HasBasic(c) => Contiguous(DOMAIN c.basic, c.cal))
  /\ \E tables \in {MaterializedTables(c)} :
       Begin(NewBuild("stream",
                FlattenSeq([k \in DOMAIN TableOrder |->
                  IF TableOrder[k] \in StaticTables(c) THEN TableWrites(tables[TableOrder[k]])
                  ELSE <<>>]),
                None, c, None))

Fail == /\ build' = None
        /\ UNCHANGED <<disk, damaged, lost, made, cands, head, builds>>

StreamPartition(days) ==
  /\ build # None /\ build.kind = "stream" /\ build.queue = <<>>
  /\ build.next <= Parts(build.truth.cal)
  /\ LET c == build.truth
         tables == MaterializedTables(c)
         block == BlockSessions(c.cal, build.next)
         order == SelectSeq(TableOrder, LAMBDA t : t \in StreamedTables(c))
     IN IF days # block \/ \E s \in block :
             \/ ~(c.pool[s] \subseteq c.ids)
             \/ HasBasic(c) /\ s \in DOMAIN c.basic /\ ~(c.basic[s] \subseteq c.ids)
        THEN Fail
        ELSE /\ build' = [build EXCEPT
                  !.next = @ + 1,
                  !.queue = [k \in DOMAIN order |-> tables[order[k]].objects[build.next]]]
             /\ UNCHANGED <<disk, damaged, lost, made, cands, head, builds>>

StreamEnds ==
  /\ build # None /\ build.kind = "stream" /\ build.queue = <<>>
  /\ IF build.next <= Parts(build.truth.cal) THEN Fail
     ELSE LET c == build.truth
              tables == MaterializedTables(c)
              order == SelectSeq(TableOrder, LAMBDA t : t \in StreamedTables(c))
          IN \E root \in {MaterializedRoot(c, tables)} :
               /\ build' = [build EXCEPT
                    !.kind = "root", !.result = root,
                    !.queue = [k \in DOMAIN order |-> tables[order[k]]] \o Writes(<<>>, root.fam, root)]
               /\ UNCHANGED <<disk, damaged, lost, made, cands, head, builds>>

(* _materialize_refresh_table: blocks before the rewritten one are kept by      *)
(* reference, the boundary block is re-read for the rows before the boundary.   *)
KeptObject(t, o, k, rewrite, start) ==
  \/ t \in Sparse /\ k - 1 < rewrite
  \/ o.rows # {} /\ LastKey(o.rows) < start
ReopensNothing(t, o, k, rewrite, start, from) == FALSE
ReopenedObject(t, o, k, rewrite, start, from) ==
  ~KeptObject(t, o, k, rewrite, start) /\ o.rows # {} /\ FirstKey(o.rows) < from
RewrittenRows(t, T, rows, rewrite, start, from) ==
  {row \in rows : row[1] >= from}
  \cup {row \in UNION {T.objects[k].rows : k \in {j \in DOMAIN T.objects :
                         ReopenedObject(t, T.objects[j], j, rewrite, start, from)}} :
          row[1] >= start /\ row[1] < from}
RefreshTable(t, T, rows, from, start, cal) ==
  LET rewrite == PartOf(cal, start)
      kept == SelectSeq([k \in DOMAIN T.objects |-> <<T.objects[k], k>>],
                        LAMBDA e : KeptObject(t, e[1], e[2], rewrite, start))
      rewritten == RewrittenRows(t, T, rows, rewrite, start, from)
      blocks == [k \in 1..(Parts(cal) - rewrite) |->
                   {row \in rewritten : PartOf(cal, row[1]) = rewrite + k - 1}]
      written == IF t \in Sparse THEN blocks ELSE SelectSeq(blocks, LAMBDA b : b # {})
  IN TableFile(t, [k \in DOMAIN kept |-> kept[k][1]] \o [k \in DOMAIN written |-> Obj(t, written[k])])

(* The input the refreshed families are declared from: the new calendar, the   *)
(* catalog with the fields of families the input does not own, and the         *)
(* collected days of the rewritten table.                                      *)
OwnedFamilies(c) == CoreFamilies \cup (IF HasBasic(c) THEN {"basic"} ELSE {})
RetainedCatalog(p, c) == {f \in Catalog(p) : f \in DOMAIN Owner /\ Owner[f] \notin OwnedFamilies(c)}
NewCalendar(p, c, from) ==
  {s \in p.sessions : s < from} \cup {s \in c.cal : s >= from}
BlockStart(p, from) == Min({s \in p.sessions : PartOf(p.sessions, s) = PartOf(p.sessions, from)})

RefreshedTables(p, c, from, cal) ==
  [t \in UNION {TableNames(id) : id \in OwnedFamilies(c)} |->
     LET id == CHOOSE f \in OwnedFamilies(c) : t \in TableNames(f)
         rows == IF t = "catalog" THEN {<<f, {}>> : f \in RetainedCatalog(p, c) \cup c.catalog}
                 ELSE CanonicalRows(c, t)
     IN IF id \notin DOMAIN p.fam \/ t \notin SessionTables
        THEN MaterializeTable(t, rows, cal)
        ELSE RefreshTable(t, TableOf(p, id, t), rows, from, BlockStart(p, from), cal)]

(* The refreshed root: owned families replaced, every other reference, the     *)
(* readiness and the coordinates kept.                                         *)
RefreshedFields(p, tables) == (p.fields \ Catalog(p)) \cup Keys(tables["catalog"])
RefreshedEvidence(p, c) ==
  (IF "basic" \in DOMAIN p.fam THEN p.fam["basic"].evidence ELSE {}) \cup Evidence(c)
RefreshedRoot(p, c, cal, tables) ==
  LET days == IF HasBasic(c) THEN Keys(tables["basicdays"]) ELSE {}
      view == [cal |-> cal, ids |-> c.ids, pool |-> c.pool, industry |-> None,
               catalog |-> Keys(tables["catalog"]), basic |-> [s \in days |-> {}]]
      owned == [id \in OwnedFamilies(c) |->
                  MaterializeFamily(id, view, cal, tables, RefreshedEvidence(p, c))]
  IN RootFile(cal, RefreshedFields(p, tables), owned @@ p.fam, p.readiness, p.fin, p.ind, builds)

(* What a refresh denotes, written from its inputs alone. *)
MergedBasic(p, c, from) ==
  LET old == made[p].truth.basic IN
  IF ~HasBasic(c) THEN old
  ELSE IF old = None THEN c.basic
  ELSE [s \in {x \in DOMAIN old : x < from} \cup {x \in DOMAIN c.basic : x >= from} |->
          IF s < from THEN old[s] ELSE c.basic[s]]
MergedTruth(p, c, from, cal) ==
  [cal |-> cal, ids |-> c.ids, industry |-> None, basic |-> MergedBasic(p, c, from),
   pool |-> [s \in cal |-> IF s < from THEN made[p].truth.pool[s] ELSE c.pool[s]],
   catalog |-> c.catalog \cup (made[p].truth.catalog \cap {PeField})]

RefreshReads(p, c) ==
  UNION {{p.fam[id]} \cup {TableOf(p, id, t) : t \in TableNames(id) \cap SessionTables} :
           id \in OwnedFamilies(c) \cap DOMAIN p.fam}
RefreshOpens(p, c, from, cal) ==
  \A id \in OwnedFamilies(c) \cap DOMAIN p.fam : \A t \in TableNames(id) \cap SessionTables :
    \A k \in DOMAIN TableOf(p, id, t).objects :
      ReopenedObject(t, TableOf(p, id, t).objects[k], k, PartOf(cal, BlockStart(p, from)),
                     BlockStart(p, from), from) => Readable(TableOf(p, id, t).objects[k])

MaterializeRefresh(p, c, from) ==
  /\ ValidCanonical(c) /\ from \in c.cal /\ from \in p.sessions
  /\ RootValid(p) /\ AllReadable(RefreshReads(p, c))
  /\ FamilyTableOpens(p, "calendar", "calendar") /\ FamilyTableOpens(p, "catalog", "catalog")
  /\ \E cal \in {NewCalendar(p, c, from)} : \E tables \in {RefreshedTables(p, c, from, cal)} :
       /\ RefreshOpens(p, c, from, cal)
       /\ HasBasic(c) /\ "basic" \notin DOMAIN p.fam => DOMAIN c.basic \subseteq cal
       /\ HasBasic(c) =>
            /\ [k \in DOMAIN tables["basicdays"].objects |-> tables["basicdays"].objects[k].rows]
                 = PartitionRows("basicdays", TableRows(tables["basicdays"]), cal)
            /\ Contiguous(Keys(tables["basicdays"]), cal)
       /\ \E root \in {RefreshedRoot(p, c, cal, tables)} :
            Begin(NewBuild("refreshed",
              Writes(tables, [id \in OwnedFamilies(c) |-> root.fam[id]], root), root,
              MergedTruth(p, c, from, cal), p))

-----------------------------------------------------------------------------
(* Candidates and their composition onto a root.                              *)

BeginCandidate(files, result) == Begin(NewBuild("candidate", files, result, None, None))

(* A financial candidate collected against Generation r: the first one rebuilt   *)
(* on r's validated market; a later one extends r's own family, keeps its        *)
(* evidence and adds one object to its table.                                    *)
StorePit(r, through) ==
  /\ through \in r.sessions /\ FamilyTableOpens(r, "identity", "instruments")
  /\ LET prior == FamilyOf(r, "pit")
         batch == [file |-> "raw", batch |-> {-builds}]
         delta == Obj("pit", {<<through, {builds}>>})
         table == [file |-> "table", table |-> "pit",
                   base |-> IF prior = None THEN None ELSE prior.table,
                   objects |-> IF prior = None THEN <<delta>> ELSE Append(prior.table.objects, delta)]
         index == [file |-> "index",
                   batches |-> {batch} \cup (IF prior = None THEN {} ELSE prior.index.batches)]
         pit == [file |-> "pit", prior |-> prior, source |-> r, through |-> through,
                 ids |-> Identities(r), table |-> table, index |-> index]
     IN /\ IF prior = None THEN ValidateMarket(r, None)
           ELSE /\ RootValid(r) /\ RootValid(prior.source) /\ AllReadable(PitFiles(prior))
                /\ through >= prior.through /\ prior.ids \subseteq Identities(r)
                /\ SessionsThrough(r, prior.through) = SessionsThrough(prior.source, prior.through)
        /\ BeginCandidate(<<batch, delta, table, index, pit>>, pit)

StoreIndicator(r, observations) ==
  /\ RootValid(r) /\ FamilyTableOpens(r, "identity", "instruments")
  /\ LET batch == [file |-> "raw", batch |-> observations]
         object == Obj("indicator", {<<o, {}>> : o \in observations})
         candidate == [file |-> "indicator", sessions |-> r.sessions, ids |-> Identities(r),
                       observations |-> observations, objects |-> <<object>>, batches |-> {batch}]
     IN BeginCandidate(<<batch, object, candidate>>, candidate)

MaterializeIndustryCandidate(r, members, through) ==
  /\ RootValid(r) /\ through \in r.sessions
  /\ FamilyTableOpens(r, "identity", "instruments") /\ members \subseteq Identities(r)
  /\ LET cal == SessionsThrough(r, through)
         c == [industry |-> members]
         table == MaterializeTable("industry", {<<i, {}>> : i \in members}, cal)
         family == MaterializeFamily("industry", c, cal, "industry" :> table, {})
     IN BeginCandidate(TableWrites(table) \o <<family>>, family)

(* _replace_family_references: only the named families change. *)
ReplaceFamilies(fam, replacements) == replacements @@ fam

ComposedBuild(p, root) == NewBuild("root", <<root>>, root, made[p].truth, p)

ComposeFinancialCandidate(p, c) ==
  /\ c.file = "pit" /\ Readable(c)
  /\ IF c.prior = None THEN ValidateGeneration(p) ELSE RootValid(p) /\ FamilyOf(p, "pit") = c.prior
  /\ ValidatePitAgainst(c, p) /\ c.through <= Max(p.sessions)
  /\ LET fields == p.fields \cup {RevenueField} IN
     Begin(ComposedBuild(p, RootFile(p.sessions, fields, ReplaceFamilies(p.fam, "pit" :> c),
                                     Readiness(c, fields), builds, p.ind, builds)))

(* compose_with_indicator_candidate audits root and candidate in full;           *)
(* _compose_incremental_indicator_candidate only what the candidate adds to the   *)
(* Head's family, which the root must still have.                                 *)
IndicatorAccepted(p, c) ==
  \/ ValidateGeneration(p) /\ AllReadable(IndicatorFiles(c))
  \/ /\ head # None /\ RootValid(head) /\ RootValid(p)
     /\ FamilyOf(p, "indicator") = FamilyOf(head, "indicator")
     /\ IndicatorExtends(c, FamilyOf(head, "indicator"))
ComposeIndicatorCandidate(p, c) ==
  /\ c.file = "indicator" /\ IndicatorAccepted(p, c)
  /\ FamilyTableOpens(p, "identity", "instruments") /\ c.ids = Identities(p)
  /\ c.sessions = {s \in p.sessions : s >= Min(c.sessions) /\ s <= Max(c.sessions)}
  /\ "indicator" \in DOMAIN p.fam =>
       Readable(p.fam["indicator"]) /\ p.fam["indicator"].observations \subseteq c.observations
  /\ Begin(ComposedBuild(p, RootFile(p.sessions, p.fields \cup {RoeField},
                                     ReplaceFamilies(p.fam, "indicator" :> c),
                                     p.readiness, p.fin, p.ind, builds)))

ComposeIndustryCandidate(p, c) ==
  /\ c.file = "family" /\ RootValid(p) /\ Readable(c)
  /\ c.coverage[1] >= Min(p.sessions) /\ c.coverage[2] <= Max(p.sessions)
  /\ Begin(ComposedBuild(p, RootFile(p.sessions, p.fields, ReplaceFamilies(p.fam, "industry" :> c),
                                     p.readiness, p.fin, builds, builds)))

(* Complete daily basic history for the whole calendar of a source root: both    *)
(* tables block by block, their manifests and family, then the catalog.          *)
HistoryWrites(tables, owned) ==
  FlattenSeq([k \in DOMAIN tables["basic"].objects |->
                <<tables["basic"].objects[k], tables["basicdays"].objects[k]>>])
  \o <<tables["basic"], tables["basicdays"], owned["basic"]>>
  \o TableWrites(tables["catalog"]) \o <<owned["catalog"]>>
MaterializeDailyBasicHistory(p, basic) ==
  /\ RootValid(p) /\ DOMAIN basic = p.sessions
  /\ FamilyTableOpens(p, "identity", "instruments")
  /\ \A s \in DOMAIN basic : basic[s] \subseteq Identities(p)
  /\ FamilyTableOpens(p, "catalog", "catalog")
  /\ "basic" \in DOMAIN p.fam => Readable(p.fam["basic"])
  /\ LET c == [cal |-> p.sessions, ids |-> Identities(p), basic |-> basic, industry |-> None,
               catalog |-> Catalog(p) \cup {CloseField, PeField}, pool |-> made[p].truth.pool]
         tables == [t \in {"basic", "basicdays", "catalog"} |->
                      MaterializeTable(t, CanonicalRows(c, t), c.cal)]
         owned == [id \in {"basic", "catalog"} |->
                     MaterializeFamily(id, c, c.cal, tables, RefreshedEvidence(p, c))]
         root == RootFile(p.sessions, p.fields \cup Keys(tables["catalog"]),
                          ReplaceFamilies(p.fam, owned), p.readiness, p.fin, p.ind, builds)
         truth == [c EXCEPT !.catalog = made[p].truth.catalog \cup {CloseField, PeField},
                            !.ids = made[p].truth.ids]
     IN Begin(NewBuild("checked", Append(HistoryWrites(tables, owned), root), root, truth, p))

-----------------------------------------------------------------------------
(* Storing a file: an equal file already there is read back and kept, one that *)
(* no longer hashes to its address refuses the build.                          *)
Store(f) ==
  IF f \in damaged
  THEN build' = None /\ UNCHANGED disk
  ELSE /\ disk' = disk \cup {f}
       /\ build' = [build EXCEPT !.queue = Tail(@), !.stored = @ \cup {f}]

WriteNext ==
  /\ build # None /\ build.kind # "collect" /\ build.queue # <<>>
  /\ Store(Head(build.queue))
  /\ UNCHANGED <<damaged, lost, made, cands, head, builds>>

(* The checks between the last file and the return: the root's descriptor, the   *)
(* predecessor's financial family reopened against a refreshed root, the market   *)
(* audit of a daily basic history, the validation of a financial candidate.       *)
HandsBack(b) ==
  /\ b.kind # "candidate" => DescriptorValid(b.result)
  /\ b.kind = "refreshed" /\ "pit" \in DOMAIN b.base.fam => ReopensAgainst(b.base.fam["pit"], b.result)
  /\ b.kind = "checked" => ValidateMarket(b.result, None)
  /\ b.kind = "candidate" /\ b.result.file = "pit" => ValidatePit(b.result)
HandBack ==
  /\ build # None /\ build.kind \in {"root", "refreshed", "checked", "candidate"} /\ build.queue = <<>>
  /\ build' = None
  /\ IF ~HandsBack(build) THEN UNCHANGED <<made, cands>>
     ELSE IF build.kind = "candidate" THEN cands' = cands \cup {build.result} /\ UNCHANGED made
     ELSE /\ UNCHANGED cands
          /\ made' = build.result :> [truth |-> build.truth, base |-> build.base] @@ made
  /\ UNCHANGED <<disk, damaged, lost, head, builds>>

Crash == build # None /\ "crash" \in Enabled /\ Fail

(* Publication: the first Head is validated in full, a later one against the    *)
(* Head it was built on.                                                        *)
Publish(r) ==
  /\ build = None
  /\ IF head = None THEN ValidateGeneration(r)
     ELSE made[r].base = head /\ ValidateRefreshCandidate(r, head)
  /\ head' = r
  /\ UNCHANGED <<disk, damaged, lost, build, made, cands, builds>>

-----------------------------------------------------------------------------
(* Retention.  referenced_files walks manifests, inspects every root it meets    *)
(* and audits indicator families and retained financial candidates: what it       *)
(* cannot read refuses the collection.                                            *)

MarketReferenced(r) == {r} \cup FamilyManifests(r) \cup TableFiles(r) \cup ObjectFiles(r)

RECURSIVE ReferencedFiles(_)
PitReferenced(p) ==
  {p, p.index} \cup p.index.batches \cup TableChain(p.table) \cup ToSet(p.table.objects)
  \cup (IF p.prior = None THEN {} ELSE {p.prior})
  \cup ReferencedFiles(p.source)
ReferencedFiles(r) ==
  MarketReferenced(r)
  \cup (IF "pit" \in DOMAIN r.fam THEN PitReferenced(r.fam["pit"]) ELSE {})
  \cup (IF "indicator" \in DOMAIN r.fam THEN IndicatorFiles(r.fam["indicator"]) ELSE {})

CandidateReferenced(c) ==
  CASE c.file = "pit" -> PitReferenced(c)
    [] c.file = "indicator" -> IndicatorFiles(c)
    [] OTHER -> {c} \cup UNION {{c.tables[t]} \cup ToSet(c.tables[t].objects) : t \in DOMAIN c.tables}

Manifests(S) == {f \in S : f.file \notin {"object", "raw"}}
Kept(roots, kc) ==
  UNION ({ReferencedFiles(r) : r \in roots} \cup {CandidateReferenced(c) : c \in kc})

Collect(roots, kc) ==
  /\ build = None /\ (head # None => head \in roots)
  /\ AllReadable(Manifests(Kept(roots, kc)))
  /\ \A f \in Kept(roots, kc) : /\ f.file = "root" => DescriptorValid(f)
                               /\ f.file = "indicator" => AllReadable(IndicatorFiles(f))
  /\ \A c \in kc : c.file = "pit" => ValidateStoredPit(c)
  /\ disk \ Kept(roots, kc) # {}
  /\ build' = [kind |-> "collect", queue |-> disk \ Kept(roots, kc), stored |-> {}]
  /\ made' = [r \in roots |-> made[r]] /\ cands' = kc
  /\ UNCHANGED <<disk, damaged, lost, head, builds>>

DeleteFile ==
  /\ build # None /\ build.kind = "collect"
  /\ IF build.queue = {} THEN build' = None /\ UNCHANGED <<disk, damaged>>
     ELSE \E f \in {CHOOSE x \in build.queue : TRUE} :
            /\ disk' = disk \ {f} /\ damaged' = damaged \ {f}
            /\ build' = [build EXCEPT !.queue = @ \ {f}]
  /\ UNCHANGED <<lost, made, cands, head, builds>>

-----------------------------------------------------------------------------
(* Faults of the mount, while nothing runs. *)
Damage(f) ==
  /\ build = None /\ Cardinality(damaged \cup lost) < MaxFaults /\ f \in disk \ damaged
  /\ damaged' = damaged \cup {f}
  /\ UNCHANGED <<disk, lost, build, made, cands, head, builds>>
Lose(f) ==
  /\ build = None /\ Cardinality(damaged \cup lost) < MaxFaults /\ f \in disk \ damaged
  /\ disk' = disk \ {f} /\ lost' = lost \cup {f}
  /\ UNCHANGED <<damaged, build, made, cands, head, builds>>

-----------------------------------------------------------------------------
(* Reads of a pinned root.                                                     *)

(* _open_table_sessions_columnar: a partition is opened when its key range meets *)
(* the requested days.                                                           *)
MeetsDays(o, days) == o.rows # {} /\ LastKey(o.rows) >= Min(days) /\ FirstKey(o.rows) <= Max(days)
OpenedObjects(T, days) == {o \in ToSet(T.objects) : MeetsDays(o, days)}
SessionsOpen(r, id, t, days) ==
  /\ Readable(r.fam[id]) /\ Readable(TableOf(r, id, t))
  /\ AllReadable(OpenedObjects(TableOf(r, id, t), days))
SessionRows(T, days) ==
  {row \in UNION {o.rows : o \in OpenedObjects(T, days)} : row[1] \in days}

(* read_columnar_slice: the pool and identities are mandatory; an optional        *)
(* family that fails is reported to the sink, or fails the read without one.      *)
ReadableFamily(r, id, days) ==
  CASE id = "basic" -> SessionsOpen(r, "basic", "basic", days)
                       /\ OpenedObjects(TableOf(r, "basic", "basic"), days) # {}
    [] id = "industry" -> FamilyTableOpens(r, "industry", "industry")
    [] id = "pit" -> AllReadable({r.fam["pit"], r.fam["pit"].table} \cup ToSet(r.fam["pit"].table.objects))
    [] id = "indicator" -> AllReadable({r.fam["indicator"]} \cup ToSet(r.fam["indicator"].objects))
FailedFamilies(r, days, wanted) == {id \in wanted : ~ReadableFamily(r, id, days)}

ReadColumnarSlice(r, days, wanted, sink) ==
  LET failed == FailedFamilies(r, days, wanted)
      mandatory == /\ RootValid(r) /\ SessionsOpen(r, "universe", "universe", days)
                   /\ FamilyTableOpens(r, "identity", "instruments")
      pools == SessionRows(TableOf(r, "universe", "universe"), days)
  IN IF ~mandatory \/ {row[1] : row \in pools} # days \/ (failed # {} /\ ~sink)
     THEN [status |-> "error", pools |-> {}, basic |-> {}, failed |-> {}]
     ELSE [status |-> "ok", pools |-> pools, failed |-> failed,
           basic |-> IF "basic" \in wanted /\ ReadableFamily(r, "basic", days)
                     THEN SessionRows(TableOf(r, "basic", "basic"), days) ELSE {}]

(* _open_table_window: every partition that ends at or after the start. *)
WindowObjects(T, start) == {o \in ToSet(T.objects) : o.rows # {} /\ LastKey(o.rows) >= start}
TableWindow(T, start) ==
  {row \in UNION {o.rows : o \in WindowObjects(T, start)} : row[1] >= start}

(* open_refresh_base: the last overlap + lookback sessions of every session table, *)
(* the static tables whole, refused unless they form a canonical input.            *)
WindowStart(r, count) == Min({s \in r.sessions : Cardinality({x \in r.sessions : x > s}) < count})
BaseTables(r) == {T \in TableFiles(r) : T.table # "calendar"}
RefreshBase(r, count) ==
  LET start == WindowStart(r, count)
      rows == [t \in {T.table : T \in BaseTables(r)} |->
                 LET T == CHOOSE x \in BaseTables(r) : x.table = t IN
                 IF t \in SessionTables THEN TableWindow(T, start) ELSE TableRows(T)]
      opened == UNION {IF T.table \in SessionTables THEN WindowObjects(T, start) ELSE ToSet(T.objects) :
                         T \in BaseTables(r)}
      ids == {i[1] : i \in rows["instruments"]}
      late == {s \in r.sessions : s >= start}
      fits == /\ {row[1] : row \in rows["universe"]} = late
              /\ \A row \in rows["universe"] : row[2] \subseteq ids
              /\ "basic" \in DOMAIN rows =>
                   /\ {row[1] : row \in rows["basicdays"]} \subseteq late
                   /\ {row[1] : row \in rows["basic"]} \subseteq {row[1] : row \in rows["basicdays"]}
                   /\ \A row \in rows["basic"] : row[2] \subseteq ids
  IN IF /\ RootValid(r) /\ FamilyTableOpens(r, "calendar", "calendar")
        /\ AllReadable(FamilyManifests(r) \cup BaseTables(r) \cup opened) /\ fits
     THEN [status |-> "ok", rows |-> rows]
     ELSE [status |-> "error", rows |-> <<>>]

(* universe_member_union_cardinalities, for one window. *)
UnionCardinality(r, days) ==
  LET T == TableOf(r, "universe", "universe") IN
  IF ~(RootValid(r) /\ SessionsOpen(r, "universe", "universe", days)) THEN None
  ELSE IF {row[1] : row \in SessionRows(T, days)} # days THEN None
  ELSE Cardinality(UNION {row[2] : row \in SessionRows(T, days)})

(* read_market_slice and read_composite_slice: the same rows through the row        *)
(* reader; the instruments are the members of the days read, their identities come   *)
(* from the blocks whose range they meet, and any family that fails fails the read.  *)
SliceMembers(r, days) == UNION {row[2] : row \in SessionRows(TableOf(r, "universe", "universe"), days)}
InstrumentObjects(T, ids) ==
  {o \in ToSet(T.objects) : o.rows # {} /\ \E i \in ids : FirstKey(o.rows) <= i /\ i <= LastKey(o.rows)}
InstrumentsOpen(r, id, t, ids) ==
  /\ Readable(r.fam[id]) /\ Readable(TableOf(r, id, t))
  /\ AllReadable(InstrumentObjects(TableOf(r, id, t), ids))
ReadMarketSlice(r, days, industry) ==
  LET members == SliceMembers(r, days)
  IN IF /\ RootValid(r) /\ SessionsOpen(r, "universe", "universe", days)
        /\ {row[1] : row \in SessionRows(TableOf(r, "universe", "universe"), days)} = days
        /\ InstrumentsOpen(r, "identity", "instruments", members)
        /\ industry /\ "industry" \in DOMAIN r.fam => InstrumentsOpen(r, "industry", "industry", members)
     THEN [status |-> "ok", ids |-> Identities(r) \cap members]
     ELSE [status |-> "error", ids |-> {}]
ReadCompositeSlice(r, days, wanted) ==
  LET market == ReadMarketSlice(r, days, "industry" \in wanted) IN
  IF market.status = "error" \/ ~(wanted \subseteq DOMAIN r.fam)
     \/ FailedFamilies(r, days, wanted \ {"industry"}) # {}
  THEN [status |-> "error", ids |-> {}] ELSE market

(* read_strategy_history: the sessions are the last ones up to the Close asked for. *)
HistoryDays(r, close, count) ==
  {s \in SessionsThrough(r, close) : Cardinality({x \in r.sessions : x > s /\ x <= close}) < count}
ReadStrategyHistory(r, close, count) ==
  LET days == HistoryDays(r, close, count) IN
  IF RootValid(r) /\ SessionsOpen(r, "universe", "universe", days)
  THEN SessionRows(TableOf(r, "universe", "universe"), days) ELSE None

(* maximum_universe_cardinality reads the statistics in the table manifest, no    *)
(* object.                                                                         *)
Statistics(o) == {<<row[1], Cardinality(row[2])>> : row \in o.rows}
MaximumUniverseCardinality(r, a, b) ==
  LET T == TableOf(r, "universe", "universe")
      sizes == {e[2] : e \in {x \in UNION {Statistics(o) : o \in ToSet(T.objects)} :
                                x[1] >= a /\ x[1] <= b}}
  IN IF sizes = {} THEN 0 ELSE Max(sizes)

-----------------------------------------------------------------------------
Init ==
  /\ disk = {} /\ damaged = {} /\ lost = {} /\ build = None
  /\ made = <<>> /\ cands = {} /\ head = None /\ builds = 0

Roots == DOMAIN made

BeginBuild ==
  \/ \E c \in Bootstraps : Materialize(c)
  \/ "stream" \in Enabled /\ \E c \in Bootstraps : BeginStream(c)
  \/ \E p \in Roots, c \in Replacements : \E from \in c.cal : MaterializeRefresh(p, c, from)
  \/ "pit" \in Enabled /\ \E r \in Roots : \E s \in r.sessions : StorePit(r, s)
  \/ \E r \in Roots, o \in Observations : StoreIndicator(r, o)
  \/ "industry" \in Enabled /\ \E r \in Roots : \E s \in r.sessions :
       MaterializeIndustryCandidate(r, Identities(r), s)
  \/ \E p \in Roots, c \in cands : ComposeFinancialCandidate(p, c)
  \/ \E p \in Roots, c \in cands : ComposeIndicatorCandidate(p, c)
  \/ \E p \in Roots, c \in cands : ComposeIndustryCandidate(p, c)
  \/ "history" \in Enabled /\ \E p \in Roots :
       MaterializeDailyBasicHistory(p, [s \in p.sessions |-> IF s % 2 = 1 THEN Identities(p) ELSE {}])

Next ==
  \/ build = None /\ builds < MaxBuilds /\ BeginBuild
  \/ build # None /\ build.kind = "stream"
     /\ \E k \in 1..Parts(build.truth.cal) : StreamPartition(BlockSessions(build.truth.cal, k))
  \/ StreamEnds
  \/ WriteNext
  \/ HandBack
  \/ Crash
  \/ \E r \in Roots : Publish(r)
  \/ "collect" \in Enabled /\ \E roots \in SUBSET Roots, kc \in SUBSET cands : Collect(roots, kc)
  \/ DeleteFile
  \/ \E f \in disk : Damage(f)
  \/ \E f \in disk : Lose(f)

Spec == Init /\ [][Next]_vars

-----------------------------------------------------------------------------
(* Properties.                                                                *)

(* The store's state is well formed: only present files are damaged, only      *)
(* returned roots are published.                                               *)
TypeOK ==
  /\ damaged \subseteq disk
  /\ head = None \/ head \in Roots
  /\ builds \in 0..MaxBuilds
  /\ \A c \in cands : c.file \in {"pit", "indicator", "family"}

(* Whatever built a root - whole, streamed block by block, refreshed with kept  *)
(* partitions, composed - its core market families are the very manifests a     *)
(* whole build of the same data stores, so data_identity says the data are the  *)
(* same; its daily basic tables hold the same rows (a preserved family may end  *)
(* in an earlier block).                                                        *)
SameDataSameManifests ==
  build = None => \A r \in Roots :
    LET c == made[r].truth
        tables == MaterializedTables(c)
        whole == MaterializedFamilies(c, tables, {})
    IN /\ r.sessions = c.cal
       /\ \A id \in CoreFamilies : r.fam[id] = whole[id]
       /\ HasBasic(c) <=> "basic" \in DOMAIN r.fam
       /\ HasBasic(c) => \A t \in TableNames("basic") :
            TableRows(TableOf(r, "basic", t)) = CanonicalRows(c, t)

(* Every file a build stored is the file its address names while the build       *)
(* runs: an equal name already on the mount is read back, never assumed.         *)
StoredFilesIntact ==
  build # None => build.stored \subseteq disk \ damaged

(* Collection keeps what readers open: every file                                 *)
(* that validating or reading a returned root opens - the financial candidate's   *)
(* parent, its evidence and its source Generation's market among them - is on the  *)
(* mount unless the mount itself lost it, across crashes and collections.          *)
RECURSIVE Opens(_)
Opens(r) ==
  MarketReferenced(r)
  \cup (IF "indicator" \in DOMAIN r.fam THEN IndicatorFiles(r.fam["indicator"]) ELSE {})
  \cup (IF "pit" \in DOMAIN r.fam
        THEN PitFiles(r.fam["pit"]) \cup Opens(r.fam["pit"].source)
             \cup (IF r.fam["pit"].prior = None THEN {}
                   ELSE {r.fam["pit"].prior, r.fam["pit"].prior.index})
        ELSE {})
RootsComplete == build = None => \A r \in Roots : Opens(r) \subseteq disk \cup lost

(* A root on the mount is a whole Generation: whatever a crashed or refused build  *)
(* leaves behind, a root file is there only when every file it opens is (no         *)
(* collection ran, and but for what the mount lost).                                *)
StoredRootsComplete ==
  \A f \in {x \in disk : x.file = "root"} : Opens(f) \subseteq disk \cup lost

(* A Head accepted through the cheap refresh validation is one the full audit      *)
(* accepts, as long as the mount is healthy: inheriting the proof of kept blocks    *)
(* never lets in data that no longer fit the new identities.                        *)
AcceptedIsSound ==
  build = None /\ head # None /\ damaged = {} /\ lost = {} => ValidateGeneration(head)

(* A candidate built on the Head from data that fit together, its financial family   *)
(* the Head's or one collected to extend it, is never refused by                     *)
(* the validation that publication runs: builder and validator agree on fields,      *)
(* coverage, evidence and partitions.                                                *)
Fits(r, c) ==
  /\ \A s \in c.cal : c.pool[s] \subseteq c.ids
  /\ HasBasic(c) => \A s \in DOMAIN c.basic : c.basic[s] \subseteq c.ids
  /\ "pit" \in DOMAIN r.fam =>
       FamilyOf(head, "pit") \in {r.fam["pit"], r.fam["pit"].prior}
HonestCandidateAccepted ==
  damaged = {} /\ lost = {} /\ build = None /\ head # None =>
    \A r \in Roots : made[r].base = head /\ Fits(r, made[r].truth) => ValidateRefreshCandidate(r, head)

(* A research read is exact or reported: on success the mandatory rows and every     *)
(* optional family not named in the failures are the data of the root, and a family   *)
(* is reported only when its files cannot be opened.                                  *)
ReadExactOrReported ==
  build = None => \A r \in Roots : \A days \in SUBSET r.sessions \ {{}} :
    \A wanted \in SUBSET (DOMAIN r.fam \cap {"basic", "industry", "pit", "indicator"}) :
      \A sink \in BOOLEAN :
        LET o == ReadColumnarSlice(r, days, wanted, sink)
            c == made[r].truth
        IN o.status = "ok" =>
             /\ o.pools = {<<s, c.pool[s]>> : s \in days}
             /\ "basic" \in wanted \ o.failed =>
                  o.basic = {row \in CanonicalRows(c, "basic") : row[1] \in days}
             /\ \A id \in wanted \ o.failed : ReadableFamily(r, id, days)
             /\ o.failed # {} => sink

(* Every other reader agrees with the root's data whatever partitions it opens: the   *)
(* refresh base is the input's last sessions, the boundary block included; the union   *)
(* and row readers see the same pools; a strategy's history ends at its Close and       *)
(* never holds a later session.                                                         *)
ReadersAgree ==
  build = None => \A r \in Roots : LET c == made[r].truth IN
    /\ \A n \in 1..Cardinality(r.sessions) : RefreshBase(r, n).status = "ok" =>
         LET rows == RefreshBase(r, n).rows
             late == {s \in c.cal : s >= WindowStart(r, n)}
         IN /\ Cardinality(late) = n
            /\ rows["universe"] = {<<s, c.pool[s]>> : s \in late}
            /\ "basic" \in DOMAIN rows =>
                 rows["basic"] = {row \in CanonicalRows(c, "basic") : row[1] \in late}
    /\ \A days \in SUBSET r.sessions \ {{}} :
         LET members == UNION {c.pool[s] : s \in days} IN
         /\ UnionCardinality(r, days) \in {None, Cardinality(members)}
         /\ \A wanted \in SUBSET {"basic"} : ReadCompositeSlice(r, days, wanted).status = "ok" =>
              /\ ReadCompositeSlice(r, days, wanted).ids = members \cap c.ids
              /\ UnionCardinality(r, days) # None
    /\ \A close \in r.sessions : \A n \in 1..2 : ReadStrategyHistory(r, close, n) # None =>
         ReadStrategyHistory(r, close, n)
           = {<<s, c.pool[s]>> : s \in {x \in c.cal : x <= close /\
                Cardinality({y \in c.cal : y > x /\ y <= close}) < n}}

(* The universe sizes admission reads from partition statistics are the sizes of     *)
(* the pools that the run will read.                                                  *)
StatisticsExact ==
  build = None => \A r \in Roots : \A a \in r.sessions : \A b \in {s \in r.sessions : s >= a} :
    MaximumUniverseCardinality(r, a, b)
      = Max({Cardinality(made[r].truth.pool[s]) : s \in {x \in made[r].truth.cal : x >= a /\ x <= b}})

(* The Head never loses a family or a published observation: financial coverage and  *)
(* indicator observations only grow, whichever refresh or composition replaces it.    *)
HeadKeepsFamilies ==
  head # None /\ head' # head =>
    /\ DOMAIN head.fam \subseteq DOMAIN head'.fam
    /\ "pit" \in DOMAIN head.fam =>
         head.fam["pit"].index.batches \subseteq head'.fam["pit"].index.batches
    /\ "indicator" \in DOMAIN head.fam =>
         head.fam["indicator"].observations \subseteq head'.fam["indicator"].observations
=============================================================================
