-------------------------- MODULE FinancialCandidate --------------------------
(***************************************************************************)
(* The financial point-in-time family: how the complete report histories   *)
(* that the source returns become Canonical versions with an effective     *)
(* session, how a family is built from all its evidence or extended by     *)
(* delta objects, and what a reader sees through a session.                *)
(*                                                                         *)
(* A day is a number and 0 is the empty date.  A source row is a record:   *)
(* instrument, report period, publication date, announcement date, update  *)
(* mark, the value a reader asks for and the rest of the payload.  One     *)
(* statement endpoint stands for the three, which never mix.  A family is  *)
(* named by its place in families; equal content has equal name.           *)
(***************************************************************************)
EXTENDS Integers, FiniteSets, Sequences, FiniteSetsExt, SequencesExt

CONSTANTS
    Instruments,
    Responses,      \* [Instruments -> what one complete-history request may return]
    Calendars,      \* the research calendars a market generation may have
    Start,          \* coverage start: the first session of 2010
    InScope,        \* instruments listed at the coverage start
    Annual,         \* report periods that end a year
    Needs,          \* [period -> the earlier periods a trailing year needs]
    Block,          \* sessions in one table object
    MaxDay, MaxFamilies,
    Returns,        \* may the source return an earlier response byte for byte?
    Abandons        \* may an operation end after collecting, unpublished?

BoundsAssumption ==
    /\ MaxDay \in Nat /\ MaxFamilies \in Nat /\ Block \in Nat \ {0}
    /\ Start \in 1 .. MaxDay /\ InScope \subseteq Instruments
    /\ Returns \in BOOLEAN /\ Abandons \in BOOLEAN

None == 0
NoIndex == [fam |-> None, sess |-> {}, rows |-> {}, deltas |-> {}]
NoOp == [parent |-> None, sess |-> {}, took |-> {}, reproj |-> FALSE]
NoInventory == [fam |-> None, through |-> 0, reports |-> {}]

VARIABLES
    day,        \* the market date
    market,     \* the sessions of the current market generation
    raw,        \* recorded batches: instrument, response, first collection day
    families,   \* stored family manifests
    said,       \* per family, the last response it accepted for each instrument
    head,       \* the published family
    op,         \* the daily operation: parent, its generation's sessions, checkpoints
    draft,      \* at most one PreparedDailyFinancial: its family and its reports
    index,      \* _published_index with its binding and delta_rows
    verified,   \* _verified_inventory
    error       \* the code of the last refusal

cache == <<index, verified>>
vars == <<day, market, raw, families, said, head, op, draft, index, verified, error>>

(***************************************************************************)
(* Calendars and dates                                                     *)
(***************************************************************************)
NextSession(sess, d) ==
    LET later == {s \in sess : s > d} IN IF later = {} THEN 0 ELSE Min(later)

Through(sess, d) == {s \in sess : s <= d}
Later(a, b) == IF a > b THEN a ELSE b

(***************************************************************************)
(* FinancialVersionProjector.project                                       *)
(***************************************************************************)
\* A checkpoint's observations: every row of its response, at its first collection.
Observations(cps) == UNION {{[row |-> r, at |-> c.at] : r \in c.resp} : c \in cps}

FirstSeen(obs, r) == Min({o.at : o \in {x \in obs : x.row = r}})

SameReport(r, q) == r.inst = q.inst /\ r.period = q.period /\ r.pub = q.pub
SnapshotTimes(obs, r) == {o.at : o \in {x \in obs : SameReport(x.row, r)}}
Snapshot(obs, r, t) == {o.row : o \in {x \in obs : SameReport(x.row, r) /\ x.at = t}}

\* Marked rows before unmarked ones, and of those the latest announcement.
Preferred(S) == IF \E r \in S : r.mark THEN {r \in S : r.mark} ELSE S
Winners(S) == {r \in Preferred(S) : \A q \in Preferred(S) : q.ann <= r.ann}

PriorTime(times, t) == Max({u \in times : u < t} \cup {0})

\* The winning set differs from the one of the previous snapshot.
StateChanges(obs, r, t) ==
    LET before == PriorTime(SnapshotTimes(obs, r), t) IN
    before = 0 \/ Winners(Snapshot(obs, r, t)) # Winners(Snapshot(obs, r, before))

\* Update marks alone are not conflicting payloads.
Conflicting(W) == Cardinality({<<r.ann, r.val, r.rest>> : r \in W}) > 1

\* An original row before it has won: superseded, or quarantined without a date.
Original(obs, r, sess) ==
    LET status == IF r.pub = 0 THEN "quarantined" ELSE "superseded"
        at == FirstSeen(obs, r)
    IN [row |-> r, event |-> 0, at |-> at,
        avail |-> IF r.pub = 0 THEN 0 ELSE NextSession(sess, r.pub),
        seen |-> NextSession(sess, at), basis |-> "source_version",
        status |-> status, role |-> status, eff |-> 0]

Status(W, first, avail, seen) ==
    CASE Conflicting(W)                           -> "quarantined"
      [] avail = 0 \/ (~first /\ seen = 0)        -> "pending_calendar"
      [] OTHER                                    -> "available"

\* A correction waits for the session after it was observed.
EffectiveAsPublished(first, avail, seen) == avail
Effective(first, avail, seen) == IF first THEN avail ELSE Later(avail, seen)

\* A value that wins again keeps its original row and gets a new identity.
EventOf(obs, r, t) == IF FirstSeen(obs, r) = t THEN 0 ELSE t

Won(obs, r, t, sess) ==
    LET first == PriorTime(SnapshotTimes(obs, r), t) = 0
        avail == NextSession(sess, r.pub)
        seen == NextSession(sess, t)
        status == Status(Winners(Snapshot(obs, r, t)), first, avail, seen)
    IN [row |-> r, event |-> EventOf(obs, r, t), at |-> t, avail |-> avail, seen |-> seen,
        basis |-> IF first THEN "source_version" ELSE "observed_correction",
        status |-> status, role |-> IF status = "available" THEN "in_coverage" ELSE status,
        eff |-> IF status = "available" THEN Effective(first, avail, seen) ELSE 0]

Transitions(obs, sess) ==
    {Won(obs, o.row, o.at, sess) : o \in {x \in obs :
        /\ x.row.pub # 0
        /\ StateChanges(obs, x.row, x.at)
        /\ x.row \in Winners(Snapshot(obs, x.row, x.at))}}

Id(v) == <<v.row, v.event>>

\* canonical[id] = replace(...): a later transition of one identity overwrites it.
LastOf(S) == {v \in S : \A w \in S : Id(w) = Id(v) => w.at <= v.at}

Project(obs, sess) ==
    LET won == LastOf(Transitions(obs, sess))
    IN won \cup {Original(obs, r, sess) :
                    r \in {o.row : o \in obs} \ {v.row : v \in {w \in won : w.event = 0}}}

(***************************************************************************)
(* _retain_coverage_versions and _ttm_coverage_seeds                       *)
(***************************************************************************)
Flag(b) == IF b THEN 1 ELSE 0
\* The seed order of two versions of one period; a new identity comes later.
SeedRank(v) ==
    ((((v.eff * 10 + Flag(v.row.mark)) * 10 + v.row.pub) * 10 + v.row.ann) * 10 + v.at)
Latest(S) == CHOOSE v \in S : \A w \in S : SeedRank(w) <= SeedRank(v)
LatestReport(S) ==
    LET last == Max({v.row.period : v \in S}) IN Latest({v \in S : v.row.period = last})

BeforeStart(V) == {v \in V : v.status = "available" /\ v.eff < Start}

\* The latest stock and annual reports of the instruments listed at the start.
ReportSeeds(V) ==
    LET scoped == {v \in BeforeStart(V) : v.row.inst \in InScope}
        annual == {v \in scoped : v.row.period \in Annual}
    IN {LatestReport(S) : S \in {scoped, annual} \ {{}}}

\* The pre-start reports that a trailing year in coverage is computed from.
TtmSeeds(V) ==
    LET before == BeforeStart(V)
        targets == {v.row.period : v \in {w \in V : w.status = "available" /\ w.eff >= Start}}
                     \cup (IF before = {} THEN {} ELSE {Max({v.row.period : v \in before})})
        required == targets \cup UNION {Needs[p] : p \in targets}
    IN {Latest({v \in before : v.row.period = p}) : p \in {v.row.period : v \in before} \cap required}

Retained(V) ==
    (V \ BeforeStart(V))
      \cup {[v EXCEPT !.role = "pre_start_seed"] : v \in ReportSeeds(V) \cup TtmSeeds(V)}

\* _canonical_versions, then retention, one instrument at a time.
OfInstrument(cps, i) == {c \in cps : c.inst = i}
CanonicalRows(cps, sess, i) ==
    Retained(Project(Observations(OfInstrument(cps, i)), sess))
AllRows(cps, sess) == UNION {CanonicalRows(cps, sess, i) : i \in Instruments}

Quarantined(rows) == {Id(v) : v \in {w \in rows : w.status = "quarantined"}}

\* _merge_evidence_checkpoints: one entry per response and first observation.
MergeEvidence(cps) == {c \in cps : \A d \in cps :
    (d.inst = c.inst /\ d.resp = c.resp /\ d.at = c.at) => c.on <= d.on}

(***************************************************************************)
(* Table objects                                                           *)
(***************************************************************************)
\* The block of an effective session: its ordinal in the calendar over Block.
BlockOf(sess, s) ==
    IF s = 0 THEN -1 ELSE (Cardinality({u \in sess : u < s})) \div Block

Partitioned(rows, sess) ==
    LET blocks == SetToSortSeq({BlockOf(sess, v.eff) : v \in rows}, LAMBDA a, b : a < b)
    IN [k \in 1 .. Len(blocks) |-> {v \in rows : BlockOf(sess, v.eff) = blocks[k]}]

ObjectFirst(obj) == Min({v.eff : v \in obj})

\* Last-observation precedence: a row of an object hides the same identity in
\* every earlier one.
Overlay(objs) ==
    UNION {{v \in objs[k] : \A j \in (k + 1) .. Len(objs) : \A w \in objs[j] : Id(w) # Id(v)}
              : k \in 1 .. Len(objs)}

(***************************************************************************)
(* Reports: _statement_report_inventory                                    *)
(***************************************************************************)
Reports(rows, through) ==
    {<<v.row.inst, v.row.period>> : v \in {w \in rows :
        /\ w.status \in {"available", "pending_calendar"}
        /\ w.row.period <= w.row.pub /\ w.row.pub <= through}}

(***************************************************************************)
(* The published index and the daily deltas                                *)
(***************************************************************************)
Fam(k) == families[k]
LastSession(sess) == Max(sess)
SessionsOf(f) == Through(f.sess, f.through)

\* _iter_table_rows: the logical rows of a stored table, its delta objects laid over.
TableRows(f) == Overlay(f.table)

FreshIndex(k) ==
    [fam |-> k, sess |-> SessionsOf(Fam(k)), rows |-> TableRows(Fam(k)), deltas |-> {}]

\* _published_rows: reuse the index only for the same family and calendar.
IndexFor(k) ==
    IF index.fam = k /\ index.sess = SessionsOf(Fam(k)) THEN index ELSE FreshIndex(k)

\* calendar_instruments: a pending or quarantined row whose sessions move.
RowMoves(v, sess) ==
    NextSession(sess, v.row.pub) # v.avail \/ NextSession(sess, v.at) # v.seen

CalendarInstruments(k, sess) ==
    IF sess = SessionsOf(Fam(k)) THEN {}
    ELSE {v.row.inst : v \in {w \in IndexFor(k).rows :
              /\ w.status \in {"pending_calendar", "quarantined"} /\ w.row.pub # 0
              /\ RowMoves(w, sess)}}

\* One affected instrument: what is published and what all its evidence now says.
OldRows(k, i) == {v \in IndexFor(k).rows : v.row.inst = i}
NewRows(k, cur, sess, i) ==
    LET cps == OfInstrument(Fam(k).evidence \cup cur, i)
    IN IF cps = {} THEN {} ELSE CanonicalRows(MergeEvidence(cps), sess, i)
Ids(rows) == {Id(v) : v \in rows}

\* _daily_table_deltas for the affected instruments A.
DeleteRequired(k, cur, sess, A) ==
    \E i \in A : ~(Ids(OldRows(k, i)) \subseteq Ids(NewRows(k, cur, sess, i)))

ClearedDeltas(k) == {}
Deltas(k, cur, sess, A) ==
    ClearedDeltas(k) \cup UNION {NewRows(k, cur, sess, i) \ OldRows(k, i) : i \in A}

QuarantineNow(k, cur, sess, A) ==
    (Quarantined(IndexFor(k).rows) \ UNION {Quarantined(OldRows(k, i)) : i \in A})
       \cup UNION {Quarantined(NewRows(k, cur, sess, i)) : i \in A}
QuarantineAdded(k, cur, sess, A) ==
    ~(QuarantineNow(k, cur, sess, A) \subseteq Quarantined(IndexFor(k).rows))

Affected(cur, cal) == {c.inst : c \in cur} \cup cal
IndexAfter(k, cur, sess, A) ==
    IF A = {} THEN IndexFor(k)
    ELSE [IndexFor(k) EXCEPT !.deltas = Deltas(k, cur, sess, A)]

\* An index of another family or calendar takes the proof of its predecessor with it.
VerifiedAfter(ix) ==
    IF ix.fam = index.fam /\ ix.sess = index.sess THEN verified ELSE NoInventory

\* _inventory_with_deltas: the index, with its delta rows laid over it when the
\* projection touched any instrument.
InventoryWithDeltas(ix, laid, through) ==
    IF ~laid THEN Reports(ix.rows, through)
    ELSE Reports({v \in ix.rows : \A w \in ix.deltas : Id(w) # Id(v)} \cup ix.deltas, through)

(***************************************************************************)
(* Validation                                                              *)
(***************************************************************************)
\* _validate_target_set: every instrument for a full collection, any for a daily one.
Targets(cps, targeted) ==
    /\ targeted \/ {c.inst : c \in cps} = Instruments
    /\ \A c, d \in cps : c.inst = d.inst => c = d

DiscoveryValid(d) == d.base <= d.comp /\ d.comp <= d.through

Baseline(f) == IF f.daily THEN f.base ELSE f.through
CompleteThrough(f) == IF f.daily THEN f.comp ELSE f.through

\* The calendar known to the parent is a prefix of the candidate's.
CalendarKept(sess, k) == Through(sess, Fam(k).through) = SessionsOf(Fam(k))

FullTable(cps, sess) == Partitioned(AllRows(cps, sess), sess)

\* The parent's objects, then the delta objects; the parent's own without deltas.
IncrementalTable(k, deltas, sess) == Fam(k).table \o Partitioned(deltas, sess)

\* validate: a full family is regenerated from its evidence.
FullValid(f) ==
    /\ MergeEvidence(f.evidence \cup f.current) = f.evidence
    /\ Targets(f.current, FALSE)
    /\ f.table = FullTable(f.evidence, SessionsOf(f))
    /\ f.quarantine = Quarantined(TableRows(f))

\* The instruments whose projection a daily family had to redo.
Reprojected(f) ==
    Affected(IF f.reproj THEN f.evidence ELSE f.current,
             CalendarInstruments(f.prior, SessionsOf(f)))

DailyDeltas(f) ==
    Deltas(f.prior, IF f.reproj THEN f.evidence ELSE f.current, SessionsOf(f), Reprojected(f))

\* _validate_daily_family: the deltas are computed again and must be the stored ones.
DailyValid(f) ==
    LET cur == IF f.reproj THEN f.evidence ELSE f.current IN
    /\ f.reproj => f.current = {}
    /\ f.evidence = MergeEvidence(Fam(f.prior).evidence \cup f.current)
    /\ CalendarKept(SessionsOf(f), f.prior) /\ Targets(f.current, TRUE)
    /\ ~DeleteRequired(f.prior, cur, SessionsOf(f), Reprojected(f))
    /\ ~QuarantineAdded(f.prior, cur, SessionsOf(f), Reprojected(f))
    /\ f.quarantine = QuarantineNow(f.prior, cur, SessionsOf(f), Reprojected(f))
    /\ f.table = IncrementalTable(f.prior, DailyDeltas(f), SessionsOf(f))
    /\ DiscoveryValid(f) /\ f.base = Baseline(Fam(f.prior))
    /\ Fam(f.prior).through <= f.through

Valid(f) == IF f.daily /\ f.prior # None THEN DailyValid(f) ELSE FullValid(f)

\* A stored session is either still unknown or the one the calendar gives.
SessionStored(stored, sess, d) == stored # 0 => (d # 0 /\ stored = NextSession(sess, d))

\* _stored_fact_digest: what the projection may not change.
Fact(v) == <<v.row, v.event, v.at>>

StoredRowValid(v, sess) ==
    /\ SessionStored(v.seen, sess, v.at) /\ SessionStored(v.avail, sess, v.row.pub)
    /\ IF v.status = "available"
       THEN /\ v.avail # 0 /\ v.eff \in sess /\ v.eff >= v.avail
            /\ v.basis = "observed_correction" => (v.seen # 0 /\ v.eff >= v.seen)
            /\ v.role = IF v.eff < Start THEN "pre_start_seed" ELSE "in_coverage"
       ELSE v.eff = 0 /\ v.role = v.status

\* validate_stored: the facts and their order, without projecting them again.
StoredValid(f) ==
    LET rows == TableRows(f)
        facts == {Fact(v) : v \in UNION {Project(Observations(OfInstrument(f.evidence, i)),
                                                 SessionsOf(f)) : i \in Instruments}}
    IN /\ MergeEvidence(f.evidence \cup f.current) = f.evidence
       /\ \A v \in rows : Fact(v) \in facts /\ StoredRowValid(v, SessionsOf(f))
       /\ f.quarantine = Quarantined(rows)

(***************************************************************************)
(* Reading through a session                                               *)
(***************************************************************************)
\* Objects that start later are skipped and later rows filtered before the overlay.
ReadObjects(objs, s) ==
    [k \in 1 .. Len(objs) |->
        IF ObjectFirst(objs[k]) > s THEN {} ELSE {v \in objs[k] : v.eff <= s}]

\* _project_agreeing_financial_values: quarantined rows of one snapshot that agree.
ConflictGroups(rows) ==
    {G \in {{w \in rows : /\ w.status = "quarantined" /\ w.avail # 0
                          /\ SameReport(w.row, v.row) /\ w.at = v.at} :
             v \in {x \in rows : x.status = "quarantined" /\ x.avail # 0}} :
        Cardinality(G) >= 2}

ConsensusOf(rows, G, s) ==
    LET v == CHOOSE x \in G : TRUE
        earliest == Min({w.at : w \in {x \in rows : SameReport(x.row, v.row)}})
        eff == IF v.at > earliest THEN Later(v.avail, v.seen) ELSE v.avail
        values == {w.row.val : w \in G}
    IN IF eff > s \/ (v.at > earliest /\ v.seen = 0) THEN {}
       ELSE {[inst |-> v.row.inst, period |-> v.row.period, pub |-> v.row.pub, at |-> v.at,
              eff |-> eff, mark |-> \E w \in G : w.row.mark, ann |-> Min({w.row.ann : w \in G}),
              val |-> IF Cardinality(values) = 1 THEN Max(values) ELSE 0]}

Answer(v) == [inst |-> v.row.inst, period |-> v.row.period, pub |-> v.row.pub, at |-> v.at,
              eff |-> v.eff, mark |-> v.row.mark, ann |-> v.row.ann, val |-> v.row.val]

\* read_financial_table: the available rows, with the conflicts' agreed values.
Read(objs, s) ==
    LET rows == Overlay(ReadObjects(objs, s))
    IN {Answer(v) : v \in {w \in rows : w.status = "available"}}
         \cup UNION {ConsensusOf(rows, G, s) : G \in ConflictGroups(rows)}

\* _version_key within one instrument and period; 0 is the null value.
VersionRank(a) == (((a.eff * 10 + Flag(a.mark)) * 10 + a.pub) * 10 + a.ann) * 10 + a.at
Newest(S) == CHOOSE a \in S : \A b \in S : VersionRank(b) <= VersionRank(a)


\* _compact_financial_history: one row per report before the window, all within it.
BeforeWindow(rows, first) == {a \in rows : a.eff < first}
Compact(rows, first) ==
    (rows \ BeforeWindow(rows, first)) \cup
    {Newest({b \in BeforeWindow(rows, first) : b.inst = a.inst /\ b.period = a.period}) :
        a \in BeforeWindow(rows, first)}

\* _state_transitions: the newest version of each report period in force at s.
InForce(rows, i, selection, s) ==
    {a \in rows : a.inst = i /\ a.eff <= s /\ (selection = "annual" => a.period \in Annual)}
OfPeriod(rows, p) == {a \in rows : a.period = p}
PeriodValue(rows, p) == IF OfPeriod(rows, p) = {} THEN 0 ELSE Newest(OfPeriod(rows, p)).val

\* A trailing year is the last report alone at the year's end, or with the reports
\* it needs of the year before, of which none may be missing.
TtmComponents(rows, p) ==
    [q \in {p} \cup (IF p \in Annual THEN {} ELSE Needs[p]) |-> PeriodValue(rows, q)]

FieldValue(rows, i, selection, s) ==
    LET known == InForce(rows, i, selection, s)
        last == Max({a.period : a \in known})
    IN IF known = {} THEN <<>>
       ELSE IF selection # "ttm" THEN <<PeriodValue(known, last)>>
       ELSE IF \E q \in DOMAIN TtmComponents(known, last) : TtmComponents(known, last)[q] = 0
       THEN <<>> ELSE <<TtmComponents(known, last)>>

(***************************************************************************)
(* Operations                                                              *)
(***************************************************************************)
Init ==
    /\ day = Start /\ market \in {Through(C, Start) : C \in Calendars}
    /\ raw = {} /\ families = <<>> /\ said = <<>> /\ head = None
    /\ op = NoOp /\ draft = <<>> /\ index = NoIndex /\ verified = NoInventory
    /\ error = "none"

\* Time passes; between two operations the market refresh, which holds the same
\* refresh lock, publishes a generation with other sessions.
Tick ==
    /\ day < MaxDay /\ day' = day + 1
    /\ UNCHANGED <<market, raw, families, said, head, op, draft, cache, error>>

ExtendMarket ==
    /\ op = NoOp
    /\ \E C \in Calendars : market' = Through(C, day) /\ market' # market
    /\ UNCHANGED <<day, raw, families, said, head, op, draft, cache, error>>

\* What the source may answer: its last answer, a new one, or an old one; it
\* changes its mind at most once a day.
MayReturn(i, r) ==
    LET known == {b \in raw : b.inst = i} IN
    /\ \A b \in known : b.at = day => b.resp = r
    /\ \/ Returns \/ r \notin {b.resp : b \in known}
       \/ \E b \in known : b.resp = r /\ \A c \in known : c.at <= b.at

\* A batch is recorded once; a checkpoint carries its first collection.
Record(i, r) ==
    IF \E b \in raw : b.inst = i /\ b.resp = r THEN raw
    ELSE raw \cup {[inst |-> i, resp |-> r, at |-> day]}
CheckpointOf(batches, i, r) ==
    LET b == CHOOSE x \in batches : x.inst = i /\ x.resp = r
    IN [inst |-> i, resp |-> r, at |-> b.at, on |-> day]

\* _store: equal content has one name.
Position(f) == IF \E k \in 1 .. Len(families) : Fam(k) = f
               THEN CHOOSE k \in 1 .. Len(families) : Fam(k) = f ELSE Len(families) + 1
Store(f, answers) ==
    IF Position(f) <= Len(families) THEN UNCHANGED <<families, said>>
    ELSE families' = Append(families, f) /\ said' = Append(said, answers)

FullFamily(cps, prior, sess) ==
    LET evidence == MergeEvidence(prior \cup cps)
    IN [sess |-> sess, through |-> LastSession(sess), daily |-> FALSE, base |-> 0,
        comp |-> 0, prior |-> None, reproj |-> FALSE, current |-> cps,
        evidence |-> evidence, table |-> FullTable(evidence, sess),
        quarantine |-> Quarantined(AllRows(evidence, sess))]

\* No operation runs; a finalized candidate is published before the next one
\* starts, unless its operation failed in between.
Idle ==
    /\ op = NoOp /\ draft = <<>>
    /\ Abandons \/ \A k \in 1 .. Len(families) : Fam(k).prior = head => head = None
Refuse(code) ==
    /\ error' = code
    /\ UNCHANGED <<day, market, raw, families, said, head, op, draft, cache>>

\* A complete collection: one answer for every instrument.
Answers == {a \in [Instruments -> UNION {Responses[i] : i \in Instruments}] :
               \A i \in Instruments : a[i] \in Responses[i] /\ MayReturn(i, a[i])}
RecordAll(a) == raw \cup {[inst |-> i, resp |-> a[i], at |-> day] :
                             i \in {j \in Instruments :
                                      ~\E b \in raw : b.inst = j /\ b.resp = a[j]}}
Collected(a) == {CheckpointOf(RecordAll(a), i, a[i]) : i \in Instruments}

\* materialize: the first family, from one complete collection.
Materialize(a) ==
    /\ Idle /\ families = <<>> /\ Len(families) < MaxFamilies /\ Start \in market
    /\ raw' = RecordAll(a)
    /\ Store(FullFamily(Collected(a), {}, market), a)
    /\ head' = 1 /\ error' = "none"
    /\ UNCHANGED <<day, market, op, draft, cache>>

\* _materialize for a rebuild: an unchanged projection keeps the parent's name.
SameProjection(f, k) ==
    /\ ~Fam(k).daily /\ f.through = Fam(k).through
    /\ f.quarantine = Fam(k).quarantine /\ f.table = Fam(k).table
RebuildFull(f, unchanged, a) ==
    IF unchanged /\ SameProjection(f, head) THEN UNCHANGED <<families, said, head>>
    ELSE Store(f, a) /\ head' = Position(f)

\* rebuild: with all the evidence, or the saved receipts again when nothing is new.
Rebuild(a) ==
    /\ Idle /\ head # None /\ Len(families) < MaxFamilies
    /\ LET cps == Collected(a)
           unchanged == MergeEvidence(Fam(head).evidence \cup cps) = Fam(head).evidence
       IN CASE Fam(head).through > LastSession(market) -> Refuse("CUTOFF_REGRESSION")
            [] ~CalendarKept(market, head)              -> Refuse("CALENDAR_MISMATCH")
            [] OTHER ->
               /\ raw' = RecordAll(a) /\ error' = "none"
               /\ UNCHANGED <<day, market, cache>>
               /\ IF unchanged /\ Fam(head).daily /\ LastSession(market) = Fam(head).through
                  THEN /\ op' = [parent |-> head, sess |-> market, took |-> {}, reproj |-> TRUE]
                       /\ UNCHANGED <<families, said, head, draft>>
                  ELSE /\ RebuildFull(FullFamily(cps, Fam(head).evidence, market), unchanged, a)
                       /\ UNCHANGED <<op, draft>>

\* A daily operation on the published family and the current market generation.
BeginDaily ==
    /\ Idle /\ head # None /\ Len(families) < MaxFamilies
    /\ IF Fam(head).through > LastSession(market) THEN Refuse("CUTOFF_REGRESSION")
       ELSE IF ~CalendarKept(market, head) THEN Refuse("CALENDAR_MISMATCH")
       ELSE /\ op' = [parent |-> head, sess |-> market, took |-> {}, reproj |-> FALSE]
            /\ error' = "none"
            /\ UNCHANGED <<day, market, raw, families, said, head, draft, cache>>

\* One instrument is collected and validate_daily_instrument accepts or refuses it.
InstrumentAccepted(cp) ==
    /\ ~DeleteRequired(op.parent, {cp}, op.sess, {cp.inst})
    /\ ~QuarantineAdded(op.parent, {cp}, op.sess, {cp.inst})

CollectInstrument(i, r) ==
    /\ op.parent # None /\ draft = <<>> /\ ~op.reproj
    /\ ~\E c \in op.took : c.inst = i
    /\ MayReturn(i, r) /\ raw' = Record(i, r)
    /\ \E cp \in {CheckpointOf(Record(i, r), i, r)} :
         /\ index' = IndexAfter(op.parent, {cp}, op.sess, {i})
         /\ verified' = VerifiedAfter(index')
         /\ op' = IF InstrumentAccepted(cp) THEN [op EXCEPT !.took = @ \cup {cp}] ELSE op
         /\ error' = IF InstrumentAccepted(cp) THEN "none" ELSE "INSTRUMENT_INVALID"
    /\ UNCHANGED <<day, market, families, said, head, draft>>

\* prepare_reprojection: the saved receipts of a daily family under the same calendar.
BeginReprojection ==
    /\ Idle /\ head # None /\ Len(families) < MaxFamilies /\ Fam(head).daily
    /\ IF Through(market, Fam(head).through) # SessionsOf(Fam(head))
       THEN Refuse("CALENDAR_MISMATCH")
       ELSE /\ op' = [parent |-> head, sess |-> market, took |-> {}, reproj |-> TRUE]
            /\ error' = "none"
            /\ UNCHANGED <<day, market, raw, families, said, head, draft, cache>>

\* What the operation projects, and through which session.
Projected == IF op.reproj THEN Fam(op.parent).evidence ELSE op.took
OpThrough == IF op.reproj THEN Fam(op.parent).through ELSE LastSession(op.sess)
OpSessions == Through(op.sess, OpThrough)
OpAffected == Affected(Projected, CalendarInstruments(op.parent, OpSessions))

DailyFamily(comp) ==
    LET k == op.parent IN
    [sess |-> op.sess, through |-> OpThrough, daily |-> TRUE, base |-> Baseline(Fam(k)),
     comp |-> comp, prior |-> k, reproj |-> op.reproj,
     current |-> IF op.reproj THEN {} ELSE op.took,
     evidence |-> MergeEvidence(Fam(k).evidence \cup Projected),
     table |-> IncrementalTable(k, Deltas(k, Projected, OpSessions, OpAffected), OpSessions),
     quarantine |-> QuarantineNow(k, Projected, OpSessions, OpAffected)]

\* Without an affected instrument the table and the quarantine stay the parent's.
PreparedFamily(comp) ==
    IF OpAffected = {}
    THEN [DailyFamily(comp) EXCEPT !.table = Fam(op.parent).table,
                                        !.quarantine = Fam(op.parent).quarantine]
    ELSE DailyFamily(comp)

\* prepare_daily, prepare_reprojection: _prepare_daily_candidate writes the delta
\* objects and returns a draft, or refuses what an overlay cannot express.
PrepareCandidate(comp) ==
    /\ op.parent # None /\ draft = <<>>
    /\ index' = IndexAfter(op.parent, Projected, OpSessions, OpAffected)
    /\ verified' = VerifiedAfter(index')
    /\ IF DeleteRequired(op.parent, Projected, OpSessions, OpAffected)
       THEN error' = "DELETE_REQUIRED" /\ UNCHANGED draft
       ELSE IF QuarantineAdded(op.parent, Projected, OpSessions, OpAffected)
       THEN error' = "QUARANTINE_CHANGE" /\ UNCHANGED draft
       ELSE /\ error' = "none"
            /\ draft' = <<[family |-> PreparedFamily(comp),
                           reports |-> InventoryWithDeltas(
                               index', OpAffected # {}, OpThrough)]>>
    /\ UNCHANGED <<day, market, raw, families, said, head, op>>

\* A draft carries the completeness proved so far; the rest may follow.
PrepareDaily ==
    /\ op.parent # None /\ ~op.reproj
    /\ PrepareCandidate(CompleteThrough(Fam(op.parent)))
PrepareReprojection ==
    /\ op.parent # None /\ op.reproj
    /\ PrepareCandidate(Fam(op.parent).comp)

\* The inventory that validation computes for a daily family.
ValidatedInventory(f) ==
    InventoryWithDeltas([IndexFor(f.prior) EXCEPT !.deltas = DailyDeltas(f)],
                        Reprojected(f) # {}, f.through)

\* The answers a family has accepted: its parent's, with those of this operation.
AnswersWith(cps, k) ==
    [i \in Instruments |-> IF \E c \in cps : c.inst = i
                           THEN (CHOOSE c \in cps : c.inst = i).resp ELSE said[k][i]]

Finished == op' = NoOp /\ draft' = <<>>

\* finalize_daily: completeness may only have grown since the draft; the stored
\* manifest is validated and its reports must be the draft's.
FinalizeDaily(comp) ==
    /\ draft # <<>>
    /\ comp \in {draft[1].family.comp, draft[1].family.through}
    /\ \E f \in {[draft[1].family EXCEPT !.comp = comp]} :
         /\ IF ~Valid(f) THEN error' = "CANDIDATE_INVALID" /\ UNCHANGED <<families, said>>
            ELSE IF ValidatedInventory(f) # draft[1].reports
            THEN error' = "INVENTORY_INVALID" /\ UNCHANGED <<families, said>>
            ELSE error' = "none" /\ Store(f, AnswersWith(f.current, f.prior))
         /\ index' = IndexAfter(f.prior, IF f.reproj THEN f.evidence ELSE f.current,
                                SessionsOf(f), Reprojected(f))
         /\ verified' = IF Valid(f)
                        THEN [fam |-> Position(f), through |-> f.through,
                              reports |-> ValidatedInventory(f)]
                        ELSE VerifiedAfter(index')
    /\ Finished
    /\ UNCHANGED <<day, market, raw, head>>

\* verify_for_publication, then the head moves to a child of the published family.
Publish(k) ==
    /\ op = NoOp /\ k = Len(families) /\ k # 0 /\ Fam(k).daily /\ Fam(k).prior = head
    /\ IF verified.fam = k THEN UNCHANGED cache
       ELSE /\ Valid(Fam(k))
            /\ index' = IndexAfter(Fam(k).prior,
                           IF Fam(k).reproj THEN Fam(k).evidence ELSE Fam(k).current,
                           SessionsOf(Fam(k)), Reprojected(Fam(k)))
            /\ verified' = [fam |-> k, through |-> Fam(k).through,
                            reports |-> ValidatedInventory(Fam(k))]
    /\ head' = k /\ error' = "none"
    /\ UNCHANGED <<day, market, raw, families, said, op, draft>>

\* report_inventory of a family whose proof is not at hand.
ReportInventory(k) ==
    /\ k \in {head, Len(families)} \ {None} /\ verified.fam # k
    /\ index' = IndexFor(k) /\ verified' = VerifiedAfter(index')
    /\ UNCHANGED <<day, market, raw, families, said, head, op, draft, error>>

\* The process restarts: its index, its proof and its draft are gone.
Restart ==
    /\ index # NoIndex \/ verified # NoInventory
    /\ index' = NoIndex /\ verified' = NoInventory /\ draft' = <<>>
    /\ UNCHANGED <<day, market, raw, families, said, head, op, error>>

\* The operation fails for good after collecting; its batches stay recorded.
Abandon ==
    /\ Abandons /\ op # NoOp
    /\ Finished
    /\ UNCHANGED <<day, market, raw, families, said, head, cache, error>>

Next ==
    \/ Tick \/ ExtendMarket
    \/ \E a \in Answers : Materialize(a) \/ Rebuild(a)
    \/ BeginDaily \/ BeginReprojection
    \/ \E i \in Instruments : \E r \in Responses[i] : CollectInstrument(i, r)
    \/ PrepareDaily \/ PrepareReprojection
    \/ \E comp \in 1 .. MaxDay : FinalizeDaily(comp)
    \/ \E k \in 1 .. MaxFamilies : Publish(k) \/ ReportInventory(k)
    \/ Restart \/ Abandon

Spec == Init /\ [][Next]_vars

(***************************************************************************)
(* Properties                                                              *)
(***************************************************************************)
\* Every variable has its type: stored families name an earlier parent, and the
\* index, the draft and the operation name stored families.
TypeOK ==
    /\ day \in 1 .. MaxDay /\ market \subseteq 1 .. MaxDay
    /\ Len(families) <= MaxFamilies /\ Len(said) = Len(families)
    /\ \A k \in 1 .. Len(families) : Fam(k).prior < k
    /\ {head, op.parent, index.fam} \subseteq 0 .. Len(families)
    /\ Len(draft) <= 1 /\ (draft # <<>> => op # NoOp)

\* Families are only appended: every stored family was the newest one once.
NewFamily == {Len(families)} \ {0}

\* A family extended by delta objects answers every read exactly like a family
\* rebuilt from all of its evidence: neither the pending and quarantined rows a
\* longer calendar moves nor the objects a read skips make a difference.
IncrementalEqualsRebuild ==
    \A k \in NewFamily : \A s \in Through(SessionsOf(Fam(k)), MaxDay) :
        s >= Start => Read(Fam(k).table, s) =
                      Read(FullTable(Fam(k).evidence, SessionsOf(Fam(k))), s)

\* The value of a field at a session does not depend on the window it is asked in:
\* neither on the compaction of the history before the window nor on how far
\* beyond the session a cached history was read.
WindowIndependent ==
    \A k \in NewFamily : \A s, t \in SessionsOf(Fam(k)) : Start <= s /\ s <= t =>
        \E whole \in {Read(Fam(k).table, s)}, window \in {Compact(Read(Fam(k).table, t), s)} :
            \A i \in Instruments, selection \in {"stock", "annual", "ttm"} :
                FieldValue(window, i, selection, s) = FieldValue(whole, i, selection, s)

\* No read through a session returns what was not public before it, nor a
\* correction that had not been observed before it.
NoLookAhead ==
    \A k \in NewFamily : \A s \in SessionsOf(Fam(k)) :
        \A a \in Read(Fam(k).table, s) :
            /\ a.pub < s
            /\ \/ a.at < s
               \/ \A o \in Observations(Fam(k).evidence) :
                     (o.row.inst = a.inst /\ o.row.period = a.period /\ o.row.pub = a.pub)
                        => a.at <= o.at

\* Previously selected rows keep their historical availability: what the published
\* family answers in coverage through a session, every later one answers too.
HistoryKept ==
    head # None /\ head' # head =>
      \A s \in SessionsOf(Fam(head)) : s >= Start =>
         {a \in Read(Fam(head).table, s) : a.eff >= Start}
            \subseteq Read(families'[head'].table, s)

\* The rows of a report that last won: those of its latest observation event.
LastWon(f, r) ==
    LET won == {v \in Overlay(f.table) : SameReport(v.row, r) /\ v.status # "superseded"}
    IN {v.row : v \in {w \in won : \A x \in won : x.at <= w.at}}

\* The latest state a family holds of a report is the one in the last answer it
\* accepted, when the source returns to an earlier value too.
ReturnRecorded ==
    \A k \in NewFamily : \A i \in Instruments : \A r \in said[k][i] :
        (r.pub # 0 /\ LastWon(Fam(k), r) # {}) =>
            LastWon(Fam(k), r) = Winners({q \in said[k][i] : SameReport(q, r)})

\* An operation whose instruments were accepted one by one is never refused as a
\* whole, and a draft always becomes the candidate it announced, whatever the
\* process indexed, validated or lost in between.
AcceptedIsPublishable ==
    error \notin {"DELETE_REQUIRED", "QUARANTINE_CHANGE", "CANDIDATE_INVALID", "INVENTORY_INVALID"}

\* A stored family validates again, by projection and by its stored facts, in any
\* state of the process's indexes.
FamiliesRevalidate ==
    /\ \A k \in 1 .. Len(families) : Valid(Fam(k))
    /\ \A k \in NewFamily : StoredValid(Fam(k))

\* The inventory kept as proof is the one the family's rows give.
InventoryHonest ==
    verified.fam \in 1 .. Len(families) =>
        verified.reports = Reports(Overlay(Fam(verified.fam).table), verified.through)
=============================================================================
