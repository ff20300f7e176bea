--------------------------- MODULE AdmissionProofs ---------------------------
(***************************************************************************)
(* Admission for any number of API workers, requests, commands, folders    *)
(* and Generations: what the runs of the model keep on small instances     *)
(* holds whatever the constants.                                           *)
(***************************************************************************)
EXTENDS Admission, FiniteSetTheorems, WellFoundedInduction, TLAPS

USE AdmissionAssumption

\* The rows, receipts and answers the transactions write, and what a worker holds.
Folders == UserFolders \cup SystemFolders
Unfinished == {"queued", "running", "cancelling"}
RunRows == [status : Unfinished \cup Terminal, kind : Kinds, folder : Folders, spec : Specs,
            gen : 1..Len(Generations), owner : 1..MaxRuns]
OwnershipRows == [day : 1..MaxDay, quota : {"reserved", "consumed", "released"},
                  started : BOOLEAN]
Issues == {"RERUN_SOURCE_NOT_FOUND", "RERUN_SOURCE_INVALID", "DUPLICATE_COMPUTATION",
           "FORMULA_INVALID", "DATA_NOT_READY", "RESEARCH_PERIOD_OUTSIDE_COVERAGE",
           "RESEARCH_PERIOD_HAS_NO_SESSIONS", "FIELD_UNAVAILABLE_IN_CURRENT_DATA",
           "FIELD_CALCULATION_OUTSIDE_COVERAGE", "INSUFFICIENT_CALCULATION_WARMUP",
           "RESEARCH_SESSION_EXCEEDS_WORKER_CAPACITY", "DAILY_RUN_QUOTA_EXCEEDED"}
Outcomes == Issues \cup {"accepted", "FOLDER_NOT_FOUND"}
ReceiptRows == [outcome : Outcomes, command : Commands, runs : Seq(1..MaxRuns)]
AnswerRows == [kind : Kinds, req : Requests, command : Commands, outcome : Outcomes,
               runs : Seq(1..MaxRuns)]

Asking == [step : {"receipt", "prepare"}, req : Requests, command : Commands]
Refused == [step : {"reject"}, req : Requests, command : Commands, issue : Issues,
            gen : 0..Len(Generations), specs : Seq(Specs)]
Prepared == [step : {"begin"}, req : Requests, command : Commands, issue : {"ok"},
             gen : 1..Len(Generations), specs : Seq(Specs)]
Admitting == [step : {"count", "insert"}, req : Requests, command : Commands,
              gen : 1..Len(Generations), specs : Seq(Specs), day : 1..MaxDay]
ApiRows == {Idle} \cup Asking \cup Refused \cup Prepared \cup Admitting
Readers == {Idle} \cup [step : {"items"}, batch : Nat, items : SUBSET (1..MaxRuns)]

Shapes ==
    /\ ownership \in Seq(OwnershipRows) /\ Len(ownership) <= MaxRuns
    /\ runs \in [1..MaxRuns -> RunRows \cup {NoRun}]
    /\ \A r \in 1..MaxRuns : Live(r) => r <= Len(ownership)
\* A run is one formula, a batch at least one.
Sized(a) == Len(a.specs) > 0 /\ (a.command.kind = "run" => Len(a.specs) = 1)
ApiShapes ==
    /\ api \in [Api -> ApiRows]
    /\ \A p \in Api : api[p].step \in {"count", "insert"} =>
         api[p].day <= day /\ api[p].command.folder \in Folders
    /\ \A p \in Api : api[p].step \in {"begin", "count", "insert"} => Sized(api[p])
RecordShapes ==
    /\ receipts \in [Kinds \X Requests -> ReceiptRows \cup {NoReceipt}]
    /\ answers \subseteq AnswerRows

\* Runs kept alive by one owner belong to one admission; an ordinary run owns itself.
OwnersApart ==
    /\ \A r \in 1..MaxRuns : Live(r) =>
         runs[r].owner <= r /\ (runs[r].kind = "run" => runs[r].owner = r)
    /\ \A r, s \in 1..MaxRuns : Live(r) /\ Live(s) /\ runs[r].owner = runs[s].owner =>
         runs[r].kind = runs[s].kind /\ runs[r].gen = runs[s].gen
\* A batch and its first run, which stands for it, have the same runs; what is gone of
\* them was deleted.
BatchesHold ==
    /\ batches \in Seq(Seq(1..MaxRuns))
    /\ \A b \in DOMAIN batches :
         /\ Len(batches[b]) > 0
         /\ \A i \in DOMAIN batches[b] :
              /\ batches[b][i] <= Len(ownership)
              /\ IF Live(batches[b][i])
                 THEN /\ runs[batches[b][i]].kind = "batch"
                      /\ runs[batches[b][i]].owner = batches[b][1]
                 ELSE batches[b][i] \in deleted
         /\ \A r \in 1..MaxRuns : Live(r) /\ runs[r].owner = batches[b][1] =>
              \E i \in DOMAIN batches[b] : batches[b][i] = r

\* A run that runs was started; the runs of a batch without an outcome wait or run with it.
StartedRuns ==
    \A r \in 1..MaxRuns : Live(r) /\ runs[r].status \in {"running", "cancelling"} =>
        ownership[r].started
Together(r) ==
    \/ runs[r].status = "queued" /\ batchStatus[runs[r].owner] = "queued"
    \/ runs[r].status = "running" /\ batchStatus[runs[r].owner] \in {"running", "cancelling"}
BatchesAgree ==
    \A r \in 1..MaxRuns :
        Live(r) /\ runs[r].kind = "batch" /\ runs[r].status \notin Terminal => Together(r)

\* The quota: rows that count, and what a worker that counted may still insert.
CountsKept ==
    /\ \A r \in DOMAIN ownership : Occupies(r) => ownership[r].quota # "released"
    /\ \A d \in 1..MaxDay : DailyRunCount(d) <= Limit
InsertsCounted ==
    /\ \A p \in Api : api[p].step = "insert" =>
         DailyRunCount(api[p].day) + Len(api[p].specs) <= Limit
    /\ \A p, q \in Api : api[p].step = "insert" /\ api[q].step = "insert" => p = q

\* The request lock: one worker admits a request id, and nothing was recorded for it.
RequestHeld ==
    /\ \A p \in Api : api[p].step \in {"count", "insert"} =>
         Receipt(p) = NoReceipt /\ ~NamesCancel(p)
    /\ \A p, q \in Api :
         (/\ api[p].step \in {"count", "insert"} /\ api[q].step \in {"count", "insert"}
          /\ api[p].command.kind = api[q].command.kind /\ api[p].req = api[q].req)
         => p = q

\* What a client was told stands in the receipt, unless the run it names was deleted.
ReceiptOf(a) == [outcome |-> a.outcome, command |-> a.command, runs |-> a.runs]
AnswerStands(a) ==
    \/ receipts[<<a.kind, a.req>>] = ReceiptOf(a)
    \/ a.kind = "run" /\ a.outcome = "accepted" /\ ~Live(a.runs[1])
NamesRuns(x) == IF x.outcome = "accepted" THEN x.runs # <<>> /\ x.runs[1] <= Len(ownership)
                ELSE x.runs = <<>>
AnswersStand ==
    /\ \A a \in answers : NamesRuns(a) /\ AnswerStands(a)
    /\ \A k \in Kinds \X Requests : receipts[k] # NoReceipt => NamesRuns(receipts[k])

ReaderHolds ==
    /\ reader \in Readers
    /\ reader # Idle => \A r \in reader.items : Live(r)

\* Specifications that passed the checks against a Generation.
RunsFit == \A r \in 1..MaxRuns : Live(r) => FitsIn(runs[r].spec, Generations[runs[r].gen])
PreparedFit ==
    \A p \in Api : api[p].step \in {"begin", "count", "insert"} =>
        \A i \in DOMAIN api[p].specs : FitsIn(api[p].specs[i], Generations[api[p].gen])

\* What holds of the rows, and what holds of the workers between their transactions.
RowsInv ==
    /\ TypeOK /\ Shapes /\ OwnersApart /\ BatchesHold /\ AcceptedPinned
    /\ StartedRuns /\ BatchesAgree /\ CountsKept /\ ReaderHolds /\ RunsFit
ApiInv == ApiShapes /\ InsertsCounted /\ RequestHeld /\ PreparedFit
RecordsInv == RecordShapes /\ AnswersStand /\ RequestNamesOneAction
AdmissionInv == RowsInv /\ ApiInv /\ RecordsInv

-----------------------------------------------------------------------------
(* Steps that leave the rows alone *)

RowVars == <<day, head, gens, retained, folders, runs, ownership, batches, batchStatus,
             deleted, reader>>

LEMMA RowsUnchanged ==
    ASSUME RowsInv, UNCHANGED <<RowVars, cancels>>
    PROVE  RowsInv'
<1> USE DEF RowVars
<1>1. TypeOK'
  BY DEF RowsInv, TypeOK, Live
<1>2. Shapes' /\ OwnersApart'
  BY DEF RowsInv, Shapes, OwnersApart, Live
<1>3. BatchesHold'
  BY ZenonT(30) DEF RowsInv, BatchesHold, Live
<1>4. AcceptedPinned' /\ StartedRuns' /\ BatchesAgree'
  BY DEF RowsInv, AcceptedPinned, Interrupted, StartedRuns, BatchesAgree, Together, Live
<1>5. CountsKept'
  BY DEF RowsInv, CountsKept, Live, Occupies, DailyRunCount
<1>6. ReaderHolds' /\ RunsFit'
  BY DEF RowsInv, ReaderHolds, RunsFit, Live
<1> QED BY <1>1, <1>2, <1>3, <1>4, <1>5, <1>6 DEF RowsInv

LEMMA ApiRowCases ==
    ASSUME NEW a \in ApiRows
    PROVE  /\ a.step \in {"idle", "receipt", "prepare", "reject", "begin", "count", "insert"}
           /\ a.step = "idle" => a = Idle
           /\ a.step \in {"receipt", "prepare"} => a \in Asking
           /\ a.step = "reject" => a \in Refused
           /\ a.step = "begin" => a \in Prepared
           /\ a.step \in {"count", "insert"} => a \in Admitting
           /\ a.step # "idle" => a.req \in Requests /\ a.command \in Commands
BY DEF ApiRows, Idle, Asking, Refused, Prepared, Admitting

\* A worker between transactions: what it next holds, when it holds no lock.
LEMMA ApiMoves ==
    ASSUME ApiInv, NEW p \in Api, NEW a \in ApiRows, api' = [api EXCEPT ![p] = a],
           UNCHANGED <<ownership, day, cancels>>,
           \A q \in Api \ {p} : api[q].step \in {"count", "insert"} => Receipt(q)' = Receipt(q),
           a.step \notin {"count", "insert"},
           a.step = "begin" =>
             Sized(a) /\ \A i \in DOMAIN a.specs : FitsIn(a.specs[i], Generations[a.gen])
    PROVE  ApiInv'
<1>1. api \in [Api -> ApiRows] /\ api' \in [Api -> ApiRows]
      /\ api'[p] = a /\ \A q \in Api \ {p} : api'[q] = api[q]
  BY DEF ApiInv, ApiShapes
<1>2. ApiShapes'
  BY <1>1 DEF ApiInv, ApiShapes
<1>3. InsertsCounted'
  BY <1>1 DEF ApiInv, InsertsCounted, DailyRunCount
<1>4. RequestHeld'
  BY <1>1 DEF ApiInv, RequestHeld, Receipt, NamesCancel
<1>5. PreparedFit'
  BY <1>1 DEF ApiInv, PreparedFit
<1> QED BY <1>2, <1>3, <1>4, <1>5 DEF ApiInv
\* The receipts and answers after one of a request id was read or written.
Told(k, x) == {a \in AnswerRows : <<a.kind, a.req>> = k /\ ReceiptOf(a) = x}

LEMMA NoReceiptApart ==
    /\ NoReceipt \notin ReceiptRows
    /\ \A a \in AnswerRows : ReceiptOf(a) \in ReceiptRows
    /\ \A a \in AnswerRows : ReceiptOf(a).outcome = a.outcome /\ ReceiptOf(a).runs = a.runs
BY DEF NoReceipt, ReceiptRows, AnswerRows, ReceiptOf, Outcomes, Issues

LEMMA RecordsAdvance ==
    ASSUME RecordsInv, Shapes, UNCHANGED cancels,
           NEW k \in Kinds \X Requests, NEW x \in ReceiptRows \cup {NoReceipt},
           receipts' = [receipts EXCEPT ![k] = x],
           x # NoReceipt => IF x.outcome = "accepted"
                            THEN x.runs # <<>> /\ x.runs[1] <= Len(ownership')
                            ELSE x.runs = <<>>,
           \/ x = receipts[k]
           \/ receipts[k] = NoReceipt /\ (k[1] = "batch" => k[2] \notin cancels),
           answers' \subseteq answers \cup Told(k, x),
           Len(ownership) \in Nat, Len(ownership') \in Nat, Len(ownership) <= Len(ownership'),
           \A r \in 1..Len(ownership) : ~Live(r) => ~Live(r)'
    PROVE  RecordsInv'
<1> USE NoReceiptApart
<1> DEFINE K == Kinds \X Requests
<1>1. receipts \in [K -> ReceiptRows \cup {NoReceipt}] /\ answers \subseteq AnswerRows
  BY DEF RecordsInv, RecordShapes
<1>2. receipts'[k] = x /\ \A j \in K \ {k} : receipts'[j] = receipts[j]
  BY <1>1
<1>3. RecordShapes'
  BY <1>1 DEF RecordShapes, Told
<1>4. ASSUME NEW a \in answers'
      PROVE  NamesRuns(a)' /\ AnswerStands(a)'
  <2>1. CASE a \in answers
    <3>1. a \in AnswerRows /\ NamesRuns(a) /\ AnswerStands(a)
      BY <2>1, <1>1 DEF RecordsInv, AnswersStand
    <3>2. NamesRuns(a)'
      <4>1. CASE a.outcome = "accepted"
        <5>1. a.runs \in Seq(1..MaxRuns) /\ a.runs # <<>> /\ a.runs[1] <= Len(ownership)
          BY <3>1, <4>1 DEF NamesRuns, AnswerRows
        <5>2. a.runs[1] \in Nat
          BY <5>1
        <5> QED BY <5>1, <5>2, <4>1 DEF NamesRuns
      <4> QED BY <4>1, <3>1 DEF NamesRuns
    <3>3. CASE receipts[<<a.kind, a.req>>] = ReceiptOf(a)
      <4>1. <<a.kind, a.req>> \in K /\ receipts[<<a.kind, a.req>>] # NoReceipt
        BY <3>1, <3>3 DEF AnswerRows
      <4>2. receipts'[<<a.kind, a.req>>] = receipts[<<a.kind, a.req>>]
        BY <4>1, <1>2
      <4> QED BY <4>2, <3>2, <3>3 DEF AnswerStands, ReceiptOf
    <3>4. CASE a.kind = "run" /\ a.outcome = "accepted" /\ ~Live(a.runs[1])
      <4>1. a.runs \in Seq(1..MaxRuns) /\ a.runs # <<>> /\ a.runs[1] <= Len(ownership)
        BY <3>1, <3>4 DEF NamesRuns, AnswerRows
      <4>2. a.runs[1] \in 1..Len(ownership)
        BY <4>1
      <4> QED BY <4>2, <3>2, <3>4 DEF AnswerStands
    <3> QED BY <3>1, <3>3, <3>4 DEF AnswerStands
  <2>2. CASE a \in Told(k, x)
    <3>1. a \in AnswerRows /\ <<a.kind, a.req>> = k /\ ReceiptOf(a) = x
      BY <2>2 DEF Told
    <3>2. x # NoReceipt /\ x.outcome = a.outcome /\ x.runs = a.runs
      BY <3>1
    <3>3. NamesRuns(a)'
      BY <3>2 DEF NamesRuns
    <3>4. receipts'[<<a.kind, a.req>>] = ReceiptOf(a)
      BY <3>1, <1>2
    <3> QED BY <3>3, <3>4 DEF AnswerStands, ReceiptOf
  <2> QED BY <2>1, <2>2
<1>5. ASSUME NEW j \in K, receipts'[j] # NoReceipt
      PROVE  NamesRuns(receipts[j])'
  <2>1. CASE j = k
    BY <2>1, <1>2, <1>5 DEF NamesRuns
  <2>2. CASE j # k
    <3>1. receipts'[j] = receipts[j] /\ receipts[j] \in ReceiptRows /\ NamesRuns(receipts[j])
      BY <2>2, <1>1, <1>2, <1>5 DEF RecordsInv, AnswersStand
    <3>2. CASE receipts[j].outcome = "accepted"
      <4>1. receipts[j].runs \in Seq(1..MaxRuns) /\ receipts[j].runs # <<>>
            /\ receipts[j].runs[1] <= Len(ownership)
        BY <3>1, <3>2 DEF NamesRuns, ReceiptRows
      <4>2. receipts[j].runs[1] \in Nat
        BY <4>1
      <4> QED BY <4>1, <4>2, <3>1, <3>2 DEF NamesRuns
    <3> QED BY <3>1, <3>2 DEF NamesRuns
  <2> QED BY <2>1, <2>2
<1>6. AnswersStand'
  BY <1>4, <1>5 DEF AnswersStand
<1>7. RequestNamesOneAction'
  <2> SUFFICES ASSUME NEW req \in cancels' PROVE receipts'[<<"batch", req>>] = NoReceipt
    BY DEF RequestNamesOneAction
  <2>1. req \in cancels /\ receipts[<<"batch", req>>] = NoReceipt
    BY DEF RecordsInv, RequestNamesOneAction
  <2>2. CASE k = <<"batch", req>>
    BY <2>1, <2>2, <1>2
  <2>3. CASE k # <<"batch", req>>
    BY <2>1, <2>3, <1>1
  <2> QED BY <2>2, <2>3
<1> QED BY <1>3, <1>6, <1>7 DEF RecordsInv

LEMMA RecordsUnchanged ==
    ASSUME RecordsInv, UNCHANGED <<receipts, answers, cancels, runs, ownership>>
    PROVE  RecordsInv'
<1>1. RecordShapes' /\ RequestNamesOneAction'
  BY DEF RecordsInv, RecordShapes, RequestNamesOneAction
<1>2. AnswersStand'
  BY Zenon DEF RecordsInv, AnswersStand, NamesRuns, AnswerStands, ReceiptOf, Live
<1> QED BY <1>1, <1>2 DEF RecordsInv

-----------------------------------------------------------------------------
(* What passes the checks against a Dataset fits it *)

LEMMA LeastElement ==
    ASSUME NEW S \in SUBSET Nat, S # {}
    PROVE  Min(S) \in S /\ \A y \in S : Min(S) <= y
<1> DEFINE R == {ss \in Nat \X Nat : ss[1] < ss[2]}
<1>0. R = OpToRel(<, Nat)
  BY DEF OpToRel
<1>1. IsWellFoundedOn(R, Nat)
  BY <1>0, NatLessThanWellFounded
<1>2. PICK x \in S : \A y \in S : ~(<<y, x>> \in R)
  <2> HIDE DEF R
  <2> QED BY <1>1, WFMin, Zenon
<1>3. \A y \in S : x <= y
  <2>1. \A y, z \in Nat : y < z => <<y, z>> \in R
    OBVIOUS
  <2> HIDE DEF R
  <2> TAKE y \in S
  <2>2. x \in Nat /\ y \in Nat
    OBVIOUS
  <2>3. ~(y < x)
    BY <1>2, <2>1, <2>2, Zenon
  <2> QED BY <2>2, <2>3
<1>4. \E z \in S : \A y \in S : z <= y
  BY <1>3
<1>5. Min(S) = CHOOSE z \in S : \A y \in S : z <= y
  BY DEF Min
<1> QED BY <1>4, <1>5, Zenon

LEMMA GreatestElement ==
    ASSUME NEW S \in SUBSET Nat, S # {}, NEW bound \in Nat, \A y \in S : y <= bound
    PROVE  Max(S) \in S /\ \A y \in S : y <= Max(S)
<1> DEFINE T == {bound - y : y \in S}
<1>1. T \in SUBSET Nat /\ T # {}
  <2>1. ASSUME NEW y \in S PROVE bound - y \in Nat
    <3>1. y \in Nat /\ y <= bound
      OBVIOUS
    <3> QED BY <3>1
  <2> QED BY <2>1
<1>2. Min(T) \in T /\ \A y \in T : Min(T) <= y
  <2> HIDE DEF T
  <2> QED BY <1>1, LeastElement
<1>3. PICK x \in S : Min(T) = bound - x
  BY <1>2
<1>4. \A y \in S : y <= x
  <2> TAKE y \in S
  <2>1. bound - x <= bound - y
    <3>1. bound - y \in T
      OBVIOUS
    <3> HIDE DEF T
    <3> QED BY <3>1, <1>2, <1>3
  <2> QED BY <2>1
<1>5. \E z \in S : \A y \in S : z >= y
  BY <1>4
<1>6. Max(S) = CHOOSE z \in S : \A y \in S : z >= y
  BY DEF Max
<1>7. Max(S) \in S /\ \A y \in S : Max(S) >= y
  BY <1>5, <1>6, Zenon
<1> QED BY <1>7

\* The session a calculation starts at: k of the sessions before the period lie from it on.
LyingFrom(B, s) == {t \in B : s <= t}

LEMMA StartExists ==
    ASSUME NEW B \in SUBSET Nat, IsFiniteSet(B), NEW m \in Nat, \A t \in B : t < m,
           NEW k \in Nat, k <= Cardinality(B)
    PROVE  \E s \in B \cup {m} : Cardinality(LyingFrom(B, s)) = k
<1> DEFINE From(s) == {t \in B : s <= t}
           A == {s \in B \cup {m} : Cardinality(From(s)) <= k}
<1>1. \A s : From(s) \in SUBSET B /\ IsFiniteSet(From(s)) /\ Cardinality(From(s)) \in Nat
  <2> TAKE s
  <2>1. From(s) \in SUBSET B
    OBVIOUS
  <2> HIDE DEF From
  <2> QED BY <2>1, FS_Subset, FS_CardinalityType
<1>2. From(m) = {}
  <2>1. ASSUME NEW t \in B PROVE ~(m <= t)
    <3>1. t \in Nat /\ t < m
      OBVIOUS
    <3> QED BY <3>1
  <2> QED BY <2>1
<1>3. A \in SUBSET Nat /\ m \in A
  <2>1. Cardinality(From(m)) = 0
    <3> HIDE DEF From
    <3> QED BY <1>2, FS_EmptySet
  <2>2. Cardinality(From(m)) <= k
    <3> HIDE DEF From
    <3> QED BY <2>1
  <2>3. A \subseteq B \cup {m}
    OBVIOUS
  <2>4. m \in A
    <3> HIDE DEF From
    <3> QED BY <2>2
  <2> HIDE DEF A
  <2> QED BY <2>3, <2>4
<1>4. Min(A) \in A /\ \A y \in A : Min(A) <= y
  <2> HIDE DEF A
  <2> QED BY <1>3, LeastElement
<1>5. PICK least : least \in A /\ \A y \in A : least <= y
  <2> HIDE DEF A
  <2> QED BY <1>4
<1>6. least \in B \cup {m} /\ least \in Nat /\ Cardinality(From(least)) <= k
  BY <1>5
<1>7. ASSUME Cardinality(From(least)) < k PROVE FALSE
  <2> DEFINE below == {t \in B : t < least}
  <2>1. below # {}
    <3>1. CASE below = {}
      <4>1. From(least) = B
        <5>1. ASSUME NEW t \in B PROVE least <= t
          <6>1. t \in Nat /\ ~(t < least)
            BY <3>1
          <6> QED BY <6>1, <1>6
        <5> QED BY <5>1
      <4> HIDE DEF From
      <4> QED BY <4>1, <1>7, <1>1
    <3> QED BY <3>1
  <2>2. below \in SUBSET Nat /\ \A y \in below : y <= least
    <3>1. ASSUME NEW y \in below PROVE y \in Nat /\ y <= least
      <4>1. y \in Nat /\ y < least
        OBVIOUS
      <4> HIDE DEF below
      <4> QED BY <4>1, <1>6
    <3> QED BY <3>1
  <2>3. Max(below) \in below /\ \A y \in below : y <= Max(below)
    <3> HIDE DEF below
    <3> QED BY <2>1, <2>2, <1>6, GreatestElement
  <2>4. PICK x : x \in below /\ \A y \in below : y <= x
    <3> HIDE DEF below
    <3> QED BY <2>3
  <2>5. x \in B /\ x \in Nat /\ x < least
    BY <2>4
  <2>6. From(x) = From(least) \cup {x}
    <3>1. ASSUME NEW t \in B PROVE x <= t <=> t = x \/ least <= t
      <4>1. t \in Nat /\ least \in Nat
        BY <1>6
      <4>2. t < least => t <= x
        BY <2>4
      <4> QED BY <4>1, <4>2, <2>5
    <3> QED BY <3>1, <2>5
  <2>7. x \notin From(least)
    BY <2>5, <1>6
  <2>8. Cardinality(From(x)) = Cardinality(From(least)) + 1
    <3> HIDE DEF From
    <3> QED BY <2>6, <2>7, <1>1, FS_AddElement
  <2>9. Cardinality(From(x)) <= k
    <3> HIDE DEF From
    <3> QED BY <2>8, <1>1, <1>7
  <2>10. x \in A
    BY <2>5, <2>9
  <2>11. least <= x
    <3> HIDE DEF A
    <3> QED BY <2>10, <1>5
  <2> QED BY <2>11, <2>5, <1>6
<1>8. Cardinality(From(least)) = k
  <2> HIDE DEF From
  <2> QED BY <1>6, <1>7, <1>1
<1> QED BY <1>6, <1>8 DEF LyingFrom

LEMMA DatasetIssueFits ==
    ASSUME NEW spec \in Specs, NEW g \in 1..Len(Generations),
           DatasetIssue(spec, Generations[g]) = "ok"
    PROVE  FitsIn(spec, Generations[g])
<1> DEFINE sessions == Generations[g].sessions
           period == {s \in sessions : spec.start <= s /\ s <= spec.end}
           before == {s \in sessions : s < Min(period)}
<1>1. /\ period # {}
      /\ spec.fields \subseteq DOMAIN Generations[g].coverage
      /\ ~(Cardinality(before) < spec.lookback)
  BY DEF DatasetIssue
<1>2. sessions \subseteq Nat /\ IsFiniteSet(sessions)
      /\ spec.start \in Nat /\ spec.end \in Nat /\ spec.lookback \in Nat
  BY CommandsAssumption, GenerationsAssumption
<1>3. Min(period) \in period /\ \A y \in period : Min(period) <= y
  BY <1>1, <1>2, LeastElement
<1>4. before = {s \in sessions : s < spec.start}
  <2> DEFINE least == Min(period)
  <2>1. least \in Nat /\ spec.start <= least /\ least <= spec.end
    BY <1>2, <1>3
  <2>2. ASSUME NEW s \in sessions PROVE s < least <=> s < spec.start
    <3>1. s \in Nat
      BY <1>2
    <3>2. CASE s < least /\ ~(s < spec.start)
      <4>1. s \in period
        BY <3>1, <3>2, <2>1, <1>2
      <4>2. least <= s
        BY <4>1, <1>3
      <4> HIDE DEF least
      <4> QED BY <4>2, <3>1, <3>2, <2>1
    <3> HIDE DEF least
    <3> QED BY <3>1, <3>2, <2>1, <1>2
  <2> QED BY <2>2
<1>5. IsFiniteSet(before) /\ Cardinality(before) \in Nat
  <2>1. before \in SUBSET sessions
    OBVIOUS
  <2> QED BY <2>1, <1>2, FS_Subset, FS_CardinalityType
<1>6. Cardinality(before) >= spec.lookback
  <2> HIDE DEF before
  <2> QED BY <1>1, <1>2, <1>5
<1>7. Cardinality({s \in sessions : s < spec.start}) >= spec.lookback
  BY <1>4, <1>6
<1>8. \E s \in sessions : spec.start <= s /\ s <= spec.end
  BY <1>1
<1> DEFINE coverage == Generations[g].coverage
           warmup == {s \in sessions : s < spec.start}
           start == CHOOSE s \in before \cup {Min(period)} :
                        Cardinality({t \in before : s <= t}) = spec.lookback
<1>9. /\ start \in before \cup {Min(period)}
      /\ Cardinality({t \in before : start <= t}) = spec.lookback
  <2>1. Min(period) \in Nat /\ before \in SUBSET Nat /\ \A t \in before : t < Min(period)
    <3>1. Min(period) \in Nat
      BY <1>2, <1>3
    <3>2. before \subseteq sessions /\ \A t \in before : t < Min(period)
      <4> HIDE DEF period
      <4> QED OBVIOUS
    <3> HIDE DEF before, period
    <3> QED BY <3>1, <3>2, <1>2
  <2>2. \E s \in before \cup {Min(period)} : Cardinality({t \in before : s <= t}) = spec.lookback
    <3>1. PICK least, k : least = Min(period) /\ k = spec.lookback
      OBVIOUS
    <3> HIDE DEF before, period
    <3>2. /\ before \in SUBSET Nat /\ IsFiniteSet(before) /\ least \in Nat /\ k \in Nat
          /\ (\A t \in before : t < least) /\ k <= Cardinality(before)
      BY <2>1, <3>1, <1>2, <1>5, <1>6
    <3>3. \E s \in before \cup {least} : Cardinality(LyingFrom(before, s)) = k
      BY <3>2, StartExists
    <3> QED BY <3>1, <3>3 DEF LyingFrom
  <2> HIDE DEF before, period
  <2> QED BY <2>2
<1>10. ASSUME NEW f \in spec.fields
       PROVE  ~(coverage[f].start > start) /\ ~(coverage[f].end < Max(period))
  BY <1>1 DEF DatasetIssue
<1>11. Max(period) \in period /\ \A y \in period : y <= Max(period)
  <2>1. period \in SUBSET Nat /\ \A y \in period : y <= spec.end
    BY <1>2
  <2> HIDE DEF period
  <2> QED BY <2>1, <1>1, <1>2, GreatestElement
<1>12. PICK first \in Nat : first = start /\ (\A s \in period : first <= s)
                            /\ Cardinality({t \in before : first <= t}) = spec.lookback
  <2>1. start \in Nat /\ \A s \in period : start <= s
    <3>1. PICK least : least = Min(period) /\ least \in period /\ \A y \in period : least <= y
      BY <1>3
    <3>2. PICK x : x = start
      OBVIOUS
    <3>3. x \in before \cup {least}
      <4> HIDE DEF before, period, start
      <4> QED BY <3>1, <3>2, <1>9
    <3>4. before = {s \in sessions : s < least}
      <4> HIDE DEF period
      <4> QED BY <3>1
    <3> HIDE DEF before, start
    <3>5. least \in Nat /\ period \subseteq Nat
      BY <3>1, <1>2
    <3>6. x \in Nat /\ x <= least
      BY <3>3, <3>4, <3>5, <1>2
    <3>7. ASSUME NEW s \in period PROVE x <= s
      <4>1. least <= s /\ s \in Nat
        BY <3>1, <3>5
      <4> QED BY <4>1, <3>5, <3>6
    <3> QED BY <3>2, <3>6, <3>7
  <2>2. PICK first : first = start
    OBVIOUS
  <2> HIDE DEF before, period, start
  <2>3. first \in Nat /\ (\A s \in period : first <= s)
        /\ Cardinality({t \in before : first <= t}) = spec.lookback
    BY <2>1, <2>2, <1>9
  <2> QED BY <2>2, <2>3
<1>13. ASSUME NEW f \in spec.fields
       PROVE  /\ f \in DOMAIN coverage
              /\ \A s \in period : coverage[f].start <= s /\ s <= coverage[f].end
              /\ Cardinality({s \in warmup : coverage[f].start <= s}) >= spec.lookback
  <2>1. f \in DOMAIN coverage /\ coverage[f].start \in Nat /\ coverage[f].end \in Nat
    BY <1>1, GenerationsAssumption
  <2>2. coverage[f].start <= first
    <3>1. ~(coverage[f].start > first)
      <4> HIDE DEF start, coverage, before, period
      <4> QED BY <1>10, <1>12, Zenon
    <3>2. PICK from : from = coverage[f].start
      OBVIOUS
    <3> HIDE DEF coverage
    <3>3. from \in Nat /\ ~(from > first)
      BY <3>1, <3>2, <2>1
    <3>4. from <= first
      BY <3>3
    <3> QED BY <3>2, <3>4
  <2>3. ASSUME NEW s \in period PROVE coverage[f].start <= s /\ s <= coverage[f].end
    <3>1. s \in Nat /\ s <= Max(period) /\ Max(period) \in Nat /\ first <= s
      BY <1>2, <1>11, <1>12
    <3>2. PICK from, to : from = coverage[f].start /\ to = coverage[f].end
      OBVIOUS
    <3>3. PICK last : last = Max(period)
      OBVIOUS
    <3> HIDE DEF period, coverage
    <3>4. from \in Nat /\ to \in Nat /\ from <= first /\ ~(to < last) /\ last \in Nat /\ s <= last
      BY <3>1, <3>2, <3>3, <2>1, <2>2, <1>10, Zenon
    <3>5. from <= s /\ s <= to
      BY <3>1, <3>4
    <3> QED BY <3>2, <3>5
  <2> DEFINE covered == {s \in warmup : coverage[f].start <= s}
             taken == {t \in before : first <= t}
  <2>4. before = warmup /\ warmup \subseteq Nat
    BY <1>4, <1>2
  <2>5. taken \subseteq covered
    <3> HIDE DEF before, warmup, coverage
    <3>1. ASSUME NEW t \in before, first <= t PROVE t \in warmup /\ coverage[f].start <= t
      <4>1. t \in warmup /\ t \in Nat
        BY <2>4
      <4>2. PICK from : from = coverage[f].start
        OBVIOUS
      <4>3. from \in Nat /\ from <= first
        BY <4>2, <2>1, <2>2
      <4>4. from <= t
        BY <4>1, <4>3, <3>1
      <4> QED BY <4>1, <4>2, <4>4
    <3> QED BY <3>1
  <2>6. IsFiniteSet(covered)
    <3>1. covered \in SUBSET warmup
      OBVIOUS
    <3> HIDE DEF covered, before, warmup
    <3> QED BY <3>1, <2>4, <1>5, FS_Subset
  <2>7. Cardinality(taken) <= Cardinality(covered) /\ Cardinality(covered) \in Nat
    <3> HIDE DEF taken, covered
    <3> QED BY <2>5, <2>6, FS_Subset, FS_CardinalityType
  <2>8. Cardinality(taken) = spec.lookback
    BY <1>12
  <2>9. Cardinality(covered) >= spec.lookback
    <3> HIDE DEF taken, covered
    <3> QED BY <2>7, <2>8, <1>2
  <2> QED BY <2>1, <2>3, <2>9
<1> QED BY <1>1, <1>7, <1>13 DEF FitsIn

LEMMA VerdictFits ==
    ASSUME Shapes, NEW c \in Commands, NEW g \in 0..Len(Generations), Len(ownership) \in Nat
    PROVE  /\ Verdict(c, g) \in Issues \cup {"ok"}
           /\ Verdict(c, g) = "ok" =>
                /\ g > 0 /\ ChildSpecs(c) \in Seq(Specs) /\ Len(ChildSpecs(c)) > 0
                /\ c.kind = "run" => Len(ChildSpecs(c)) = 1
                /\ \A i \in DOMAIN ChildSpecs(c) : FitsIn(ChildSpecs(c)[i], Generations[g])
<1>1. ASSUME NEW spec, NEW d PROVE DatasetIssue(spec, d) \in Issues \cup {"ok"}
  BY DEF DatasetIssue, Issues
<1>2. ASSUME NEW spec PROVE Issue(spec, g) \in Issues \cup {"ok"}
  BY <1>1 DEF Issue, Issues
<1>3. SourceIssue(c) \in Issues \cup {"ok"}
  BY DEF SourceIssue, Issues
<1>4. Verdict(c, g) \in Issues \cup {"ok"}
  <2>1. CASE SourceIssue(c) # "ok"
    BY <2>1, <1>3 DEF Verdict
  <2>2. CASE SourceIssue(c) = "ok"
    <3> DEFINE refused == {i \in DOMAIN ChildSpecs(c) : Issue(ChildSpecs(c)[i], g) # "ok"}
               first == Issue(ChildSpecs(c)[Min(refused)], g)
    <3>1. Verdict(c, g) = CASE refused # {} -> first
                            [] Duplicated(ChildSpecs(c)) -> "DUPLICATE_COMPUTATION"
                            [] OTHER -> "ok"
      BY <2>2 DEF Verdict
    <3>2. first \in Issues \cup {"ok"}
      BY <1>2
    <3>3. "DUPLICATE_COMPUTATION" \in Issues
      BY DEF Issues
    <3> HIDE DEF refused, first
    <3> QED BY <3>1, <3>2, <3>3
  <2> QED BY <2>1, <2>2
<1>5. ASSUME Verdict(c, g) = "ok"
      PROVE  /\ SourceIssue(c) = "ok"
             /\ \A i \in DOMAIN ChildSpecs(c) : Issue(ChildSpecs(c)[i], g) = "ok"
  <2>1. SourceIssue(c) = "ok"
    BY <1>5 DEF Verdict
  <2> DEFINE refused == {i \in DOMAIN ChildSpecs(c) : Issue(ChildSpecs(c)[i], g) # "ok"}
             first == Issue(ChildSpecs(c)[Min(refused)], g)
  <2>2. Verdict(c, g) = CASE refused # {} -> first
                          [] Duplicated(ChildSpecs(c)) -> "DUPLICATE_COMPUTATION"
                          [] OTHER -> "ok"
    BY <2>1 DEF Verdict
  <2>3. ASSUME refused # {} PROVE FALSE
    <3>1. refused \in SUBSET Nat
      <4>1. DOMAIN ChildSpecs(c) \subseteq Nat
        BY CommandsAssumption DEF ChildSpecs
      <4> QED BY <4>1
    <3>2. Min(refused) \in refused
      BY <3>1, <2>3, LeastElement
    <3>3. first # "ok"
      BY <3>2
    <3> HIDE DEF refused, first
    <3> QED BY <3>3, <2>3, <2>2, <1>5
  <2> QED BY <2>1, <2>3
<1>6. ASSUME Verdict(c, g) = "ok"
      PROVE  /\ g > 0 /\ ChildSpecs(c) \in Seq(Specs) /\ Len(ChildSpecs(c)) > 0
             /\ c.kind = "run" => Len(ChildSpecs(c)) = 1
             /\ \A i \in DOMAIN ChildSpecs(c) : FitsIn(ChildSpecs(c)[i], Generations[g])
  <2>1. /\ ChildSpecs(c) \in Seq(Specs) /\ Len(ChildSpecs(c)) > 0
        /\ c.kind = "run" => Len(ChildSpecs(c)) = 1
    <3>1. CASE c.source = 0
      <4>1. ChildSpecs(c) = c.specs
        BY <3>1 DEF ChildSpecs
      <4>2. c.specs \in Seq(Specs) /\ c.kind \in {"run", "batch"} /\ c.source \in Nat
            /\ (c.kind = "run" => c.source > 0 \/ Len(c.specs) = 1)
            /\ (c.kind = "batch" => Len(c.specs) > 0)
        BY CommandsAssumption
      <4>3. c.kind = "run" => Len(c.specs) = 1
        BY <4>2, <3>1
      <4>4. Len(c.specs) > 0
        BY <4>2, <3>1
      <4> QED BY <4>1, <4>2, <4>3, <4>4
    <3>2. CASE c.source # 0
      <4>1. c.source \in Nat /\ c.source <= Len(ownership) /\ runs[c.source].status = "succeeded"
        BY <3>2, <1>5, <1>6, CommandsAssumption DEF SourceIssue
      <4>2. c.source \in 1..MaxRuns
        BY <3>2, <4>1 DEF Shapes
      <4>3. runs[c.source] \in RunRows
        BY <4>1, <4>2 DEF Shapes, NoRun
      <4>4. runs[c.source].spec \in Specs
        BY <4>3 DEF RunRows
      <4>5. ChildSpecs(c) = <<runs[c.source].spec>>
        BY <3>2 DEF ChildSpecs
      <4> QED BY <4>4, <4>5
    <3> QED BY <3>1, <3>2
  <2>2. \A i \in DOMAIN ChildSpecs(c) : ChildSpecs(c)[i] \in Specs
    BY <2>1
  <2>3. g > 0
    <3>1. 1 \in DOMAIN ChildSpecs(c)
      BY <2>1
    <3>2. Issue(ChildSpecs(c)[1], g) = "ok"
      BY <3>1, <1>5, <1>6
    <3>3. g # 0
      BY <3>2 DEF Issue
    <3> QED BY <3>3, GenerationsAssumption
  <2>4. ASSUME NEW i \in DOMAIN ChildSpecs(c) PROVE FitsIn(ChildSpecs(c)[i], Generations[g])
    <3>1. Issue(ChildSpecs(c)[i], g) = "ok"
      BY <1>5, <1>6
    <3>2. DatasetIssue(ChildSpecs(c)[i], Generations[g]) = "ok"
      BY <3>1 DEF Issue
    <3> QED BY <3>2, <2>2, <2>3, DatasetIssueFits
  <2> QED BY <2>1, <2>3, <2>4
<1> QED BY <1>4, <1>6

-----------------------------------------------------------------------------
(* The steps of a worker before it inserts *)

Quiet == UNCHANGED <<RowVars, cancels>>

LEMMA KeyOf ==
    ASSUME ApiShapes, NEW p \in Api, api[p].step # "idle"
    PROVE  /\ api[p].req \in Requests /\ api[p].command \in Commands
           /\ api[p].command.kind \in Kinds
           /\ <<api[p].command.kind, api[p].req>> \in Kinds \X Requests
<1>1. api[p].req \in Requests /\ api[p].command \in Commands
  BY ApiRowCases DEF ApiShapes
<1>2. api[p].command.kind \in Kinds
  BY <1>1, CommandsAssumption DEF Kinds
<1> QED BY <1>1, <1>2

LEMMA OwnershipLength ==
    ASSUME Shapes PROVE Len(ownership) \in Nat /\ DOMAIN ownership = 1..Len(ownership)
BY DEF Shapes

\* The worker's call ended and nothing else changed.
LEMMA FailKeeps ==
    ASSUME AdmissionInv, Quiet, NEW p \in Api, Fail(p), UNCHANGED receipts
    PROVE  AdmissionInv'
<1>1. RowsInv'
  BY RowsUnchanged DEF AdmissionInv, Quiet
<1>2. ApiInv'
  <2>1. Idle \in ApiRows /\ Idle.step = "idle"
    BY DEF ApiRows, Idle
  <2>2. \A q \in Api \ {p} : Receipt(q)' = Receipt(q)
    BY DEF Fail, Receipt, AdmissionInv, ApiInv, ApiShapes
  <2>3. api' = [api EXCEPT ![p] = Idle] /\ UNCHANGED <<ownership, day, cancels>>
    BY DEF Fail, Quiet, RowVars
  <2> QED BY <2>1, <2>2, <2>3, ApiMoves DEF AdmissionInv
<1>3. RecordsInv'
  BY RecordsUnchanged DEF AdmissionInv, Fail, Quiet, RowVars
<1> QED BY <1>1, <1>2, <1>3 DEF AdmissionInv

\* The worker answers with what the receipt of its request says, which it may have written.
LEMMA AnswerKeeps ==
    ASSUME AdmissionInv, Quiet, NEW p \in Api, api[p].step # "idle",
           NEW x \in ReceiptRows,
           receipts' = [receipts EXCEPT ![<<api[p].command.kind, api[p].req>>] = x],
           x.command = api[p].command,
           Answer(p, x.outcome, x.runs),
           \/ x = Receipt(p)
           \/ /\ Receipt(p) = NoReceipt /\ ~NamesCancel(p)
              /\ ~RequestLocked(api[p].command.kind, api[p].req)
              /\ x.outcome # "accepted" /\ x.runs = <<>>
    PROVE  AdmissionInv'
<1> DEFINE k == <<api[p].command.kind, api[p].req>>
<1>1. RowsInv'
  BY RowsUnchanged DEF AdmissionInv, Quiet
<1>0. /\ api \in [Api -> ApiRows] /\ k \in Kinds \X Requests /\ api[p].command \in Commands
      /\ api[p].command.kind \in Kinds /\ api[p].req \in Requests
  BY KeyOf DEF AdmissionInv, ApiInv, ApiShapes
<1>00. receipts \in [Kinds \X Requests -> ReceiptRows \cup {NoReceipt}]
  BY DEF AdmissionInv, RecordsInv, RecordShapes
<1>2. ApiInv'
  <2>1. Idle \in ApiRows /\ Idle.step = "idle"
    BY DEF ApiRows, Idle
  <2>2. ASSUME NEW q \in Api \ {p}, api[q].step \in {"count", "insert"}
        PROVE  Receipt(q)' = Receipt(q)
    <3>1. api'[q] = api[q]
      BY <1>0 DEF Answer
    <3>2. <<api[q].command.kind, api[q].req>> \in Kinds \X Requests
      BY <2>2, KeyOf DEF AdmissionInv, ApiInv
    <3>3. CASE x = Receipt(p)
      BY <3>1, <3>2, <3>3, <1>0, <1>00 DEF Receipt
    <3>4. CASE ~RequestLocked(api[p].command.kind, api[p].req)
      <4>1. <<api[q].command.kind, api[q].req>> # k
        BY <2>2, <3>4 DEF RequestLocked
      <4> QED BY <4>1, <3>1, <3>2, <1>0, <1>00 DEF Receipt
    <3> QED BY <3>3, <3>4
  <2>3. api' = [api EXCEPT ![p] = Idle] /\ UNCHANGED <<ownership, day, cancels>>
    BY DEF Answer, Quiet, RowVars
  <2> QED BY <2>1, <2>2, <2>3, ApiMoves DEF AdmissionInv
<1>3. RecordsInv'
  <2>1. receipts[k] = Receipt(p)
    BY DEF Receipt
  <2>2. x # NoReceipt
    BY NoReceiptApart
  <2>3. x = receipts[k] \/ (receipts[k] = NoReceipt /\ (k[1] = "batch" => k[2] \notin cancels))
    BY <2>1 DEF NamesCancel
  <2>4. IF x.outcome = "accepted" THEN x.runs # <<>> /\ x.runs[1] <= Len(ownership')
        ELSE x.runs = <<>>
    <3>1. UNCHANGED ownership
      BY DEF Quiet, RowVars
    <3>2. CASE x = receipts[k]
      <4>1. NamesRuns(receipts[k])
        BY <3>2, <2>2, <1>0 DEF AdmissionInv, RecordsInv, AnswersStand
      <4> QED BY <3>1, <3>2, <4>1 DEF NamesRuns
    <3>3. CASE x # receipts[k]
      BY <3>3, <2>1
    <3> QED BY <3>2, <3>3
  <2>5. answers' \subseteq answers \cup Told(k, x)
    <3> DEFINE a == [kind |-> api[p].command.kind, req |-> api[p].req,
                     command |-> api[p].command, outcome |-> x.outcome, runs |-> x.runs]
    <3>1. answers' = answers \cup {a}
      BY DEF Answer
    <3>2. a \in AnswerRows
      BY <1>0 DEF AnswerRows, ReceiptRows
    <3>3. <<a.kind, a.req>> = k
      OBVIOUS
    <3>4. ReceiptOf(a) = x
      BY DEF ReceiptOf, ReceiptRows
    <3> QED BY <3>1, <3>2, <3>3, <3>4 DEF Told
  <2>6. Shapes /\ UNCHANGED <<ownership, runs, cancels>> /\ Len(ownership) \in Nat
    BY OwnershipLength DEF AdmissionInv, RowsInv, Quiet, RowVars
  <2>7. \A r \in 1..Len(ownership) : ~Live(r) => ~Live(r)'
    BY <2>6 DEF Live
  <2>8. Len(ownership') \in Nat /\ Len(ownership) <= Len(ownership')
    BY <2>6
  <2>9. RecordsInv
    BY DEF AdmissionInv
  <2>10. receipts' = [receipts EXCEPT ![k] = x]
    OBVIOUS
  <2>11. x \in ReceiptRows \cup {NoReceipt}
    OBVIOUS
  <2>12. k \in Kinds \X Requests
    BY <1>0
  <2> HIDE DEF k
  <2> QED BY <2>11, <2>12, <2>2, <2>3, <2>4, <2>5, <2>6, <2>7, <2>8, <2>9, <2>10, RecordsAdvance
<1> QED BY <1>1, <1>2, <1>3 DEF AdmissionInv

LEMMA ReplayKeeps ==
    ASSUME AdmissionInv, Quiet, NEW p \in Api, api[p].step # "idle",
           Receipt(p) # NoReceipt, Replay(p, Receipt(p)), UNCHANGED receipts
    PROVE  AdmissionInv'
<1> DEFINE k == <<api[p].command.kind, api[p].req>>
<1>1. CASE Receipt(p).command # api[p].command
  BY <1>1, FailKeeps DEF Replay
<1>2. CASE Receipt(p).command = api[p].command
  <2>1. k \in Kinds \X Requests
    BY KeyOf DEF AdmissionInv, ApiInv
  <2>2. receipts \in [Kinds \X Requests -> ReceiptRows \cup {NoReceipt}]
    BY DEF AdmissionInv, RecordsInv, RecordShapes
  <2>3. Receipt(p) \in ReceiptRows
    BY <2>1, <2>2 DEF Receipt
  <2>4. receipts' = [receipts EXCEPT ![k] = Receipt(p)]
    BY <2>1, <2>2 DEF Receipt
  <2>5. Answer(p, Receipt(p).outcome, Receipt(p).runs)
    BY <1>2 DEF Replay
  <2> QED BY <1>2, <2>3, <2>4, <2>5, AnswerKeeps
<1> QED BY <1>1, <1>2

\* A worker moved on without a lock, and nothing else changed.
LEMMA MoveKeeps ==
    ASSUME AdmissionInv, Quiet, NEW p \in Api, NEW a \in ApiRows, api' = [api EXCEPT ![p] = a],
           UNCHANGED <<receipts, answers>>, a.step \notin {"count", "insert"},
           a.step = "begin" =>
             Sized(a) /\ \A i \in DOMAIN a.specs : FitsIn(a.specs[i], Generations[a.gen])
    PROVE  AdmissionInv'
<1>1. RowsInv'
  BY RowsUnchanged DEF AdmissionInv, Quiet
<1>2. RecordsInv'
  BY RecordsUnchanged DEF AdmissionInv, Quiet, RowVars
<1>3. ApiInv'
  <2>1. ASSUME NEW q \in Api \ {p} PROVE Receipt(q)' = Receipt(q)
    <3>1. api'[q] = api[q]
      BY DEF AdmissionInv, ApiInv, ApiShapes
    <3> QED BY <3>1 DEF Receipt
  <2>2. UNCHANGED <<ownership, day, cancels>>
    BY DEF Quiet, RowVars
  <2> QED BY <2>1, <2>2, ApiMoves DEF AdmissionInv
<1> QED BY <1>1, <1>2, <1>3 DEF AdmissionInv

LEMMA SubmitKeeps ==
    ASSUME AdmissionInv, NEW p \in Api, NEW req \in Requests, NEW c \in Commands,
           Submit(p, req, c)
    PROVE  AdmissionInv'
<1> DEFINE a == [step |-> "receipt", req |-> req, command |-> c]
<1>1. a \in ApiRows /\ a.step = "receipt"
  BY DEF ApiRows, Asking
<1>2. Quiet /\ api' = [api EXCEPT ![p] = a] /\ UNCHANGED <<receipts, answers>>
  BY DEF Submit, Quiet, RowVars
<1> HIDE DEF a
<1> QED BY <1>1, <1>2, MoveKeeps

LEMMA FirstReceiptKeeps ==
    ASSUME AdmissionInv, NEW p \in Api, FirstReceipt(p)
    PROVE  AdmissionInv'
<1>1. Quiet /\ UNCHANGED receipts /\ api[p].step = "receipt"
  BY DEF FirstReceipt, Quiet, RowVars
<1>2. CASE NamesCancel(p)
  BY <1>1, <1>2, FailKeeps DEF FirstReceipt
<1>3. CASE ~NamesCancel(p) /\ Receipt(p) # NoReceipt
  BY <1>1, <1>3, ReplayKeeps DEF FirstReceipt
<1>4. CASE ~NamesCancel(p) /\ Receipt(p) = NoReceipt
  <2> DEFINE a == [api[p] EXCEPT !.step = "prepare"]
  <2>1. api \in [Api -> ApiRows] /\ api[p] \in Asking
    BY <1>1, ApiRowCases DEF AdmissionInv, ApiInv, ApiShapes
  <2>2. a \in ApiRows /\ a.step = "prepare"
    BY <2>1 DEF ApiRows, Asking
  <2>3. api' = [api EXCEPT ![p].step = "prepare"] /\ UNCHANGED answers
    BY <1>4 DEF FirstReceipt
  <2>4. api' = [api EXCEPT ![p] = a]
    BY <2>1, <2>3
  <2> HIDE DEF a
  <2> QED BY <2>2, <2>3, <2>4, <1>1, MoveKeeps
<1> QED BY <1>2, <1>3, <1>4

LEMMA PrepareKeeps ==
    ASSUME AdmissionInv, NEW p \in Api, Prepare(p)
    PROVE  AdmissionInv'
<1> DEFINE c == api[p].command
           v == Verdict(c, head)
           a == [step |-> IF v = "ok" THEN "begin" ELSE "reject",
                 req |-> api[p].req, command |-> c, issue |-> v, gen |-> head,
                 specs |-> IF v = "ok" THEN ChildSpecs(c) ELSE <<>>]
<1>1. Quiet /\ UNCHANGED <<receipts, answers>> /\ api[p].step = "prepare"
  BY DEF Prepare, Quiet, RowVars
<1>2. api \in [Api -> ApiRows] /\ api[p].req \in Requests /\ c \in Commands
  BY <1>1, ApiRowCases DEF AdmissionInv, ApiInv, ApiShapes
<1>3. api' = [api EXCEPT ![p] = a]
  BY <1>2 DEF Prepare
<1>4. head \in 0..Len(Generations) /\ Shapes /\ Len(ownership) \in Nat
  BY OwnershipLength DEF AdmissionInv, RowsInv, TypeOK
<1>5. /\ v \in Issues \cup {"ok"}
      /\ v = "ok" => /\ head > 0 /\ ChildSpecs(c) \in Seq(Specs) /\ Len(ChildSpecs(c)) > 0
                     /\ c.kind = "run" => Len(ChildSpecs(c)) = 1
                     /\ \A i \in DOMAIN ChildSpecs(c) : FitsIn(ChildSpecs(c)[i], Generations[head])
  BY <1>2, <1>4, VerdictFits
<1> HIDE DEF v, c
<1>6. CASE v = "ok"
  <2>1. a = [step |-> "begin", req |-> api[p].req, command |-> c, issue |-> "ok",
             gen |-> head, specs |-> ChildSpecs(c)]
    BY <1>6
  <2>2. head \in 1..Len(Generations)
    BY <1>4, <1>5, <1>6, GenerationsAssumption
  <2>3. a \in Prepared
    BY <2>1, <2>2, <1>2, <1>5, <1>6 DEF Prepared
  <2>4. a.step = "begin" /\ a.specs = ChildSpecs(c) /\ a.gen = head /\ a.command = c
    BY <2>1
  <2>5. a \in ApiRows
    BY <2>3 DEF ApiRows
  <2> HIDE DEF a
  <2>6. Sized(a)
    BY <2>4, <1>5, <1>6 DEF Sized
  <2> QED BY <2>4, <2>5, <2>6, <1>1, <1>3, <1>5, <1>6, MoveKeeps
<1>7. CASE v # "ok"
  <2>1. a = [step |-> "reject", req |-> api[p].req, command |-> c, issue |-> v,
             gen |-> head, specs |-> <<>>]
    BY <1>7
  <2>2. v \in Issues /\ <<>> \in Seq(Specs)
    BY <1>5, <1>7
  <2>3. a \in Refused
    BY <2>1, <2>2, <1>2, <1>4 DEF Refused
  <2>4. a \in ApiRows /\ a.step = "reject"
    BY <2>3 DEF ApiRows, Refused
  <2> HIDE DEF a
  <2> QED BY <2>4, <1>1, <1>3, MoveKeeps
<1> QED BY <1>6, <1>7

LEMMA UnavailableKeeps ==
    ASSUME AdmissionInv, NEW p \in Api, Unavailable(p)
    PROVE  AdmissionInv'
<1>1. Quiet /\ UNCHANGED receipts /\ Fail(p)
  BY DEF Unavailable, Quiet, RowVars
<1> QED BY <1>1, FailKeeps

LEMMA RejectKeeps ==
    ASSUME AdmissionInv, NEW p \in Api, Reject(p)
    PROVE  AdmissionInv'
<1>1. Quiet /\ api[p].step = "reject" /\ ~RequestLocked(api[p].command.kind, api[p].req)
  BY DEF Reject, Quiet, RowVars
<1>2. CASE NamesCancel(p)
  BY <1>1, <1>2, FailKeeps DEF Reject
<1>3. CASE ~NamesCancel(p) /\ Receipt(p) # NoReceipt
  BY <1>1, <1>3, ReplayKeeps DEF Reject
<1>4. CASE ~NamesCancel(p) /\ Receipt(p) = NoReceipt
  <2> DEFINE x == [outcome |-> api[p].issue, command |-> api[p].command, runs |-> <<>>]
  <2>1. api[p] \in Refused
    BY <1>1, ApiRowCases DEF AdmissionInv, ApiInv, ApiShapes
  <2>2. api[p].issue \in Issues /\ api[p].command \in Commands /\ <<>> \in Seq(1..MaxRuns)
    BY <2>1 DEF Refused
  <2>3. x \in ReceiptRows
    BY <2>2 DEF ReceiptRows, Outcomes
  <2>4. x.outcome = api[p].issue /\ x.runs = <<>> /\ x.command = api[p].command
        /\ x.outcome # "accepted"
    BY <2>2 DEF Issues
  <2>5. /\ receipts' = [receipts EXCEPT ![<<api[p].command.kind, api[p].req>>] = x]
        /\ Answer(p, api[p].issue, <<>>)
    BY <1>4 DEF Reject
  <2> HIDE DEF x
  <2> QED BY <2>3, <2>4, <2>5, <1>1, <1>4, AnswerKeeps
<1> QED BY <1>2, <1>3, <1>4

LEMMA BeginAdmitKeeps ==
    ASSUME AdmissionInv, NEW p \in Api, BeginAdmit(p)
    PROVE  AdmissionInv'
<1> DEFINE c == api[p].command
           k == <<c.kind, api[p].req>>
<1>1. Quiet /\ api[p].step = "begin" /\ ~RequestLocked(c.kind, api[p].req)
  BY DEF BeginAdmit, Quiet, RowVars
<1>2. /\ api \in [Api -> ApiRows] /\ api[p] \in Prepared
      /\ c.kind \in Kinds /\ c \in Commands /\ api[p].req \in Requests
  BY <1>1, ApiRowCases, KeyOf DEF AdmissionInv, ApiInv, ApiShapes
<1>3. ~(NamesCancel(p) /\ Receipt(p) # NoReceipt)
  BY DEF NamesCancel, Receipt, AdmissionInv, RecordsInv, RequestNamesOneAction
<1>4. CASE NamesCancel(p)
  <2>1. Fail(p) /\ UNCHANGED receipts
    BY <1>3, <1>4 DEF BeginAdmit
  <2> QED BY <1>1, <2>1, FailKeeps
<1>5. CASE ~NamesCancel(p) /\ Receipt(p) # NoReceipt
  <2>1. Replay(p, Receipt(p)) /\ UNCHANGED receipts
    BY <1>5 DEF BeginAdmit
  <2> QED BY <1>1, <1>5, <2>1, ReplayKeeps
<1>6. CASE ~NamesCancel(p) /\ Receipt(p) = NoReceipt /\ c.folder \notin folders \cup SystemFolders
  <2> DEFINE x == [outcome |-> "FOLDER_NOT_FOUND", command |-> c, runs |-> <<>>]
  <2>1. /\ receipts' = [receipts EXCEPT ![<<"run", api[p].req>>] = x]
        /\ Answer(p, "FOLDER_NOT_FOUND", <<>>)
    BY <1>6 DEF BeginAdmit
  <2>2. c.kind = "run"
    BY <1>2, <1>6, CommandsAssumption DEF Kinds, SystemFolders
  <2>3. x \in ReceiptRows
    <3>1. <<>> \in Seq(1..MaxRuns)
      OBVIOUS
    <3> QED BY <3>1, <1>2 DEF ReceiptRows, Outcomes
  <2>4. x.outcome = "FOLDER_NOT_FOUND" /\ x.runs = <<>> /\ x.command = c
    OBVIOUS
  <2> HIDE DEF x
  <2> QED BY <2>1, <2>2, <2>3, <2>4, <1>1, <1>6, AnswerKeeps
<1>7. CASE ~NamesCancel(p) /\ Receipt(p) = NoReceipt /\ c.folder \in folders \cup SystemFolders
  <2> DEFINE a == [step |-> "count", req |-> api[p].req, command |-> c, gen |-> api[p].gen,
                   specs |-> api[p].specs, day |-> day]
  <2>1. api' = [api EXCEPT ![p] = a] /\ UNCHANGED <<answers, receipts>>
    BY <1>2, <1>7 DEF BeginAdmit
  <2>2. day \in 1..MaxDay /\ folders \subseteq UserFolders
    BY DEF AdmissionInv, RowsInv, TypeOK
  <2>3. a \in Admitting
    BY <1>2, <2>2 DEF Prepared, Admitting
  <2>4. a \in ApiRows
    BY <2>3 DEF ApiRows
  <2>5. /\ api'[p] = a /\ \A q \in Api \ {p} : api'[q] = api[q]
        /\ UNCHANGED <<ownership, day, cancels, receipts, runs>>
    BY <1>2, <2>1, <1>1 DEF Quiet, RowVars
  <2>6. /\ a.step = "count" /\ a.req = api[p].req /\ a.command = c /\ a.gen = api[p].gen
        /\ a.specs = api[p].specs /\ a.day = day
    OBVIOUS
  <2> HIDE DEF a
  <2>7. ApiShapes'
    <3>1. api' \in [Api -> ApiRows]
      BY <1>2, <2>1, <2>4
    <3>2. a.day <= day /\ a.command.folder \in Folders /\ Sized(a)
      BY <1>1, <1>7, <2>2, <2>6 DEF Folders, AdmissionInv, ApiInv, ApiShapes, Sized
    <3> QED BY <3>1, <3>2, <2>5 DEF AdmissionInv, ApiInv, ApiShapes
  <2>8. InsertsCounted'
    BY <2>5, <2>6 DEF AdmissionInv, ApiInv, InsertsCounted, DailyRunCount
  <2>9. RequestHeld'
    <3>1. ASSUME NEW q \in Api, api'[q].step \in {"count", "insert"}
          PROVE  Receipt(q)' = NoReceipt /\ ~NamesCancel(q)'
      <4>1. CASE q = p
        BY <4>1, <2>5, <2>6, <1>7 DEF Receipt, NamesCancel
      <4>2. CASE q # p
        BY <4>2, <2>5, <3>1 DEF Receipt, NamesCancel, AdmissionInv, ApiInv, RequestHeld
      <4> QED BY <4>1, <4>2
    <3>2. ASSUME NEW q \in Api, NEW s \in Api,
                 api'[q].step \in {"count", "insert"}, api'[s].step \in {"count", "insert"},
                 api'[q].command.kind = api'[s].command.kind, api'[q].req = api'[s].req
          PROVE  q = s
      <4>1. CASE q # p /\ s # p
        BY <4>1, <3>2, <2>5 DEF AdmissionInv, ApiInv, RequestHeld
      <4>2. CASE q = p /\ s # p
        BY <4>2, <3>2, <2>5, <2>6, <1>1 DEF RequestLocked
      <4>3. CASE s = p /\ q # p
        BY <4>3, <3>2, <2>5, <2>6, <1>1 DEF RequestLocked
      <4> QED BY <4>1, <4>2, <4>3
    <3> QED BY <3>1, <3>2 DEF RequestHeld
  <2>10. PreparedFit'
    BY <2>5, <2>6, <1>1 DEF AdmissionInv, ApiInv, PreparedFit
  <2>11. RowsInv' /\ RecordsInv'
    BY <1>1, <2>1, <2>5, RowsUnchanged, RecordsUnchanged DEF AdmissionInv, Quiet
  <2> QED BY <2>7, <2>8, <2>9, <2>10, <2>11 DEF AdmissionInv, ApiInv
<1> QED BY <1>4, <1>5, <1>6, <1>7

LEMMA CountKeeps ==
    ASSUME AdmissionInv, NEW p \in Api, Count(p)
    PROVE  AdmissionInv'
<1>1. /\ Quiet /\ api[p].step = "count" /\ ~QuotaLocked(p) /\ UNCHANGED <<receipts, answers>>
  BY DEF Count, Quiet, RowVars
<1>2. /\ api \in [Api -> ApiRows] /\ api[p] \in Admitting
  BY <1>1, ApiRowCases DEF AdmissionInv, ApiInv, ApiShapes
<1>3. CASE ~ChildrenFit(p)
  <2> DEFINE a == [step |-> "reject", req |-> api[p].req, command |-> api[p].command,
                   issue |-> "DAILY_RUN_QUOTA_EXCEEDED", gen |-> 0, specs |-> <<>>]
  <2>1. api' = [api EXCEPT ![p] = a]
    BY <1>2, <1>3 DEF Count
  <2>2. a \in Refused
    <3>1. <<>> \in Seq(Specs) /\ 0 \in 0..Len(Generations)
          /\ "DAILY_RUN_QUOTA_EXCEEDED" \in Issues
      BY GenerationsAssumption DEF Issues
    <3> QED BY <3>1, <1>2 DEF Refused, Admitting
  <2>3. a \in ApiRows /\ a.step = "reject"
    BY <2>2 DEF ApiRows
  <2> HIDE DEF a
  <2> QED BY <2>1, <2>3, <1>1, MoveKeeps
<1>4. CASE ChildrenFit(p)
  <2> DEFINE a == [api[p] EXCEPT !.step = "insert"]
  <2>1. api' = [api EXCEPT ![p] = a]
    BY <1>2, <1>4 DEF Count
  <2>2. a \in Admitting /\ a.step = "insert"
    BY <1>2 DEF Admitting
  <2>3. a.req = api[p].req /\ a.command = api[p].command /\ a.gen = api[p].gen
        /\ a.specs = api[p].specs /\ a.day = api[p].day
    BY <1>2 DEF Admitting
  <2>4. a \in ApiRows
    BY <2>2 DEF ApiRows
  <2> HIDE DEF a
  <2>5. /\ api'[p] = a /\ \A q \in Api \ {p} : api'[q] = api[q]
        /\ UNCHANGED <<ownership, day, cancels, receipts, runs>>
    BY <1>2, <2>1, <1>1 DEF Quiet, RowVars
  <2>6. ApiShapes'
    <3>1. api' \in [Api -> ApiRows]
      BY <1>2, <2>1, <2>4
    <3>2. Sized(a)
      BY <1>1, <2>3 DEF AdmissionInv, ApiInv, ApiShapes, Sized
    <3> QED BY <3>1, <3>2, <1>1, <2>3, <2>5 DEF AdmissionInv, ApiInv, ApiShapes
  <2>7. InsertsCounted'
    <3>1. \A d : DailyRunCount(d)' = DailyRunCount(d)
      BY <2>5 DEF DailyRunCount
    <3>2. \A q \in Api \ {p} : api[q].step # "insert"
      BY <1>1 DEF QuotaLocked
    <3>3. DailyRunCount(a.day) + Len(a.specs) <= Limit
      BY <1>4, <2>3 DEF ChildrenFit
    <3> QED BY <3>1, <3>2, <3>3, <2>5 DEF InsertsCounted
  <2>8. RequestHeld'
    <3>1. \A q \in Api : /\ api'[q].step \in {"count", "insert"} =>
                             api[q].step \in {"count", "insert"}
                         /\ api'[q].command = api[q].command /\ api'[q].req = api[q].req
      BY <1>1, <2>3, <2>5
    <3>2. \A q \in Api : Receipt(q)' = Receipt(q) /\ NamesCancel(q)' = NamesCancel(q)
      BY <3>1, <2>5 DEF Receipt, NamesCancel
    <3> QED BY <3>1, <3>2 DEF AdmissionInv, ApiInv, RequestHeld
  <2>9. PreparedFit'
    BY <2>3, <2>5, <1>1 DEF AdmissionInv, ApiInv, PreparedFit
  <2>10. RowsInv' /\ RecordsInv'
    BY <1>1, <2>5, RowsUnchanged, RecordsUnchanged DEF AdmissionInv, Quiet
  <2> QED BY <2>6, <2>7, <2>8, <2>9, <2>10 DEF AdmissionInv, ApiInv
<1> QED BY <1>3, <1>4

-----------------------------------------------------------------------------
(* Steps that change rows but not which runs there are *)

\* The runs stay the same runs: their status and folder apart, nothing of them changes.
SameRuns ==
    \A r \in 1..MaxRuns :
        /\ Live(r)' <=> Live(r)
        /\ Live(r) => /\ runs'[r].kind = runs[r].kind /\ runs'[r].gen = runs[r].gen
                      /\ runs'[r].owner = runs[r].owner /\ runs'[r].spec = runs[r].spec

LEMMA SameRunsKeep ==
    ASSUME RowsInv, SameRuns, Len(ownership') = Len(ownership),
           UNCHANGED <<batches, deleted, reader>>
    PROVE  OwnersApart' /\ BatchesHold' /\ ReaderHolds' /\ RunsFit'
<1>1. OwnersApart'
  BY DEF RowsInv, SameRuns, OwnersApart
<1>2. BatchesHold'
  <2>1. batches' \in Seq(Seq(1..MaxRuns)) /\ DOMAIN batches' = DOMAIN batches
    BY DEF RowsInv, BatchesHold
  <2>2. ASSUME NEW b \in DOMAIN batches
        PROVE  /\ Len(batches'[b]) > 0
               /\ \A i \in DOMAIN batches'[b] :
                    /\ batches'[b][i] <= Len(ownership')
                    /\ IF Live(batches[b][i])'
                       THEN /\ runs'[batches'[b][i]].kind = "batch"
                            /\ runs'[batches'[b][i]].owner = batches'[b][1]
                       ELSE batches'[b][i] \in deleted'
               /\ \A r \in 1..MaxRuns : Live(r)' /\ runs'[r].owner = batches'[b][1] =>
                    \E i \in DOMAIN batches'[b] : batches'[b][i] = r
    <3>1. batches'[b] = batches[b] /\ batches[b] \in Seq(1..MaxRuns) /\ Len(batches[b]) > 0
      BY DEF RowsInv, BatchesHold
    <3>2. \A i \in DOMAIN batches[b] : batches[b][i] \in 1..MaxRuns
      BY <3>1
    <3>3. ASSUME NEW i \in DOMAIN batches[b]
          PROVE  /\ batches[b][i] <= Len(ownership')
                 /\ IF Live(batches[b][i])'
                    THEN /\ runs'[batches[b][i]].kind = "batch"
                         /\ runs'[batches[b][i]].owner = batches[b][1]
                    ELSE batches[b][i] \in deleted'
      <4> DEFINE r == batches[b][i]
      <4>1. r \in 1..MaxRuns
        BY <3>2
      <4>2. /\ r <= Len(ownership)
            /\ IF Live(r) THEN runs[r].kind = "batch" /\ runs[r].owner = batches[b][1]
               ELSE r \in deleted
        BY DEF RowsInv, BatchesHold
      <4>3. /\ Live(r)' <=> Live(r)
            /\ Live(r) => runs'[r].kind = runs[r].kind /\ runs'[r].owner = runs[r].owner
        BY <4>1 DEF SameRuns, Live
      <4>4. Live(r)' <=> Live(batches[b][i])'
        BY DEF Live
      <4> QED BY <4>2, <4>3, <4>4
    <3>4. ASSUME NEW r \in 1..MaxRuns, Live(r)', runs'[r].owner = batches[b][1]
          PROVE  \E i \in DOMAIN batches[b] : batches[b][i] = r
      BY <3>4 DEF RowsInv, BatchesHold, SameRuns
    <3> QED BY <3>1, <3>3, <3>4
  <2> QED BY <2>1, <2>2 DEF BatchesHold
<1>3. ReaderHolds'
  BY DEF RowsInv, ReaderHolds, Readers, SameRuns, Idle
<1>4. RunsFit'
  BY DEF RowsInv, RunsFit, SameRuns
<1> QED BY <1>1, <1>2, <1>3, <1>4

LEMMA LiveRow ==
    ASSUME Shapes, NEW r \in 1..MaxRuns
    PROVE  /\ Live(r) <=> runs[r] \in RunRows
           /\ Live(r) => runs[r].status \in Unfinished \cup Terminal /\ r \in DOMAIN ownership
           /\ ~Live(r) <=> runs[r] = NoRun
<1>1. runs[r] \in RunRows \cup {NoRun}
  BY DEF Shapes
<1>2. NoRun.status = "none" /\ \A x \in RunRows : x.status \in Unfinished \cup Terminal
  BY DEF NoRun, RunRows
<1>3. \A x \in RunRows : x.status # "none"
  BY <1>2 DEF Unfinished, Terminal
<1> QED BY <1>1, <1>2, <1>3, OwnershipLength DEF Live, Shapes

\* settle_run_quota of one row.
LEMMA SettleRow ==
    ASSUME NEW row \in OwnershipRows, NEW status \in Unfinished \cup Terminal
    PROVE  LET s == Settle(row, status) IN
           /\ s \in OwnershipRows /\ s.day = row.day
           /\ s.started <=> row.started \/ status \in {"running", "cancelling", "succeeded"}
           /\ s.quota = CASE status = "failed" -> "released"
                          [] status = "cancelled" ->
                                 IF row.started THEN "consumed" ELSE "released"
                          [] status = "succeeded" -> "consumed"
                          [] OTHER -> "reserved"
BY DEF Settle, OwnershipRows, Unfinished, Terminal

\* The rows of a day that count, and sets of run ids.
Counted(d) == {r \in DOMAIN ownership : ownership[r].day = d /\ ownership[r].quota # "released"}

LEMMA CountedFinite ==
    ASSUME Shapes, NEW d
    PROVE  /\ IsFiniteSet(Counted(d)) /\ DailyRunCount(d) = Cardinality(Counted(d))
           /\ DailyRunCount(d) \in Nat
           /\ \A S \in SUBSET Counted(d) : Cardinality(S) <= DailyRunCount(d) /\ IsFiniteSet(S)
<1>1. IsFiniteSet(1..Len(ownership)) /\ Counted(d) \in SUBSET (1..Len(ownership))
  BY OwnershipLength, FS_Interval DEF Counted
<1>2. IsFiniteSet(Counted(d))
  BY <1>1, FS_Subset
<1>3. DailyRunCount(d) = Cardinality(Counted(d))
  BY DEF DailyRunCount, Counted
<1> QED BY <1>2, <1>3, FS_Subset, FS_CardinalityType

\* A change of status: the runs stay, and fewer rows count than before.
StatusChanged(new) ==
    /\ Shapes' /\ SameRuns /\ CountsKept'
    /\ Len(ownership') = Len(ownership) /\ DOMAIN ownership' = DOMAIN ownership
    /\ StartedRuns'
    /\ \A r \in 1..MaxRuns :
         runs'[r].status = IF r \in DOMAIN new THEN new[r] ELSE runs[r].status
    /\ \A r \in DOMAIN ownership :
         ownership'[r].day = ownership[r].day /\ (ownership[r].started => ownership'[r].started)
    /\ \A d : DailyRunCount(d)' <= DailyRunCount(d) /\ DailyRunCount(d)' \in Nat
              /\ DailyRunCount(d) \in Nat

LEMMA SetStatusChanges ==
    ASSUME RowsInv, NEW new, DOMAIN new \subseteq 1..MaxRuns,
           \A r \in DOMAIN new : /\ new[r] \in Unfinished \cup Terminal
                                 /\ runs[r].status \in Unfinished,
           SetStatuses(new)
    PROVE  StatusChanged(new)
<1> DEFINE rs == DOMAIN new
<1>0. /\ Shapes /\ Len(ownership) \in Nat /\ DOMAIN ownership = 1..Len(ownership)
      /\ Len(ownership) <= MaxRuns
  BY OwnershipLength DEF RowsInv, Shapes
<1>1. \A r \in rs : runs[r] \in RunRows /\ Live(r) /\ r \in DOMAIN ownership
  BY <1>0, LiveRow DEF Unfinished, Live
<1>2. ASSUME NEW r \in 1..MaxRuns
      PROVE  /\ runs'[r] \in RunRows \cup {NoRun}
             /\ runs'[r].status = IF r \in rs THEN new[r] ELSE runs[r].status
             /\ Live(r)' <=> Live(r)
             /\ Live(r) => /\ runs'[r].kind = runs[r].kind /\ runs'[r].gen = runs[r].gen
                           /\ runs'[r].owner = runs[r].owner /\ runs'[r].spec = runs[r].spec
                           /\ runs'[r].folder = runs[r].folder
  <2>1. CASE r \notin rs
    <3>1. runs'[r] = runs[r]
      BY <2>1 DEF SetStatuses
    <3> QED BY <2>1, <3>1, <1>0 DEF Live, Shapes
  <2>2. CASE r \in rs
    <3>1. runs'[r] = [runs[r] EXCEPT !.status = new[r]] /\ runs[r] \in RunRows
      BY <2>2, <1>1 DEF SetStatuses
    <3> DEFINE row == runs[r]
               after == runs'[r]
    <3>2. /\ after \in RunRows /\ after.status = new[r] /\ after.kind = row.kind
          /\ after.gen = row.gen /\ after.owner = row.owner /\ after.spec = row.spec
          /\ after.folder = row.folder
      BY <2>2, <3>1 DEF RunRows
    <3>3. new[r] # "none"
      BY <2>2 DEF Unfinished, Terminal
    <3> QED BY <2>2, <3>2, <3>3, <1>1 DEF Live
  <2> QED BY <2>1, <2>2
<1>3. /\ DOMAIN runs' = 1..MaxRuns /\ runs' = [r \in 1..MaxRuns |-> runs'[r]]
  BY DEF SetStatuses
<1>4. /\ DOMAIN ownership' = DOMAIN ownership
      /\ \A r \in DOMAIN ownership :
           ownership'[r] = IF r \in rs THEN Settle(ownership[r], new[r]) ELSE ownership[r]
  BY DEF SetStatuses
<1>5. ASSUME NEW r \in DOMAIN ownership
      PROVE  /\ ownership'[r] \in OwnershipRows /\ ownership'[r].day = ownership[r].day
             /\ ownership'[r].started <=>
                       (\/ ownership[r].started
                        \/ r \in rs /\ new[r] \in {"running", "cancelling", "succeeded"})
  <2>1. ownership[r] \in OwnershipRows
    BY <1>0 DEF Shapes
  <2> QED BY <2>1, <1>4, SettleRow
<1>6. ownership' \in Seq(OwnershipRows) /\ Len(ownership') = Len(ownership)
  <2>1. ownership' = [r \in 1..Len(ownership) |-> ownership'[r]]
    BY <1>0 DEF SetStatuses
  <2> QED BY <2>1, <1>0, <1>5
<1>7. Shapes'
  <2>1. runs' \in [1..MaxRuns -> RunRows \cup {NoRun}]
    BY <1>2, <1>3
  <2>2. \A r \in 1..MaxRuns : Live(r)' => r <= Len(ownership')
    BY <1>0, <1>2, <1>6 DEF Shapes
  <2> QED BY <2>1, <2>2, <1>0, <1>6 DEF Shapes
<1>8. SameRuns
  BY <1>2 DEF SameRuns
<1>9. ASSUME NEW r \in DOMAIN ownership
      PROVE  /\ Occupies(r)' => ownership'[r].quota # "released"
             /\ ownership'[r].quota # "released" => ownership[r].quota # "released"
  <2>1. ownership[r] \in OwnershipRows /\ r \in 1..MaxRuns
    BY <1>0 DEF Shapes
  <2>2. Occupies(r) => ownership[r].quota # "released"
    BY DEF RowsInv, CountsKept
  <2>3. CASE r \notin rs
    <3>1. ownership'[r] = ownership[r] /\ runs'[r] = runs[r]
      BY <2>1, <2>3, <1>4 DEF SetStatuses
    <3> QED BY <2>2, <3>1 DEF Occupies, Live
  <2>4. CASE r \in rs
    <3>1. /\ ownership'[r] = Settle(ownership[r], new[r])
          /\ runs'[r].status = new[r] /\ Live(r)'
      BY <2>1, <2>4, <1>1, <1>2, <1>4
    <3>2. Occupies(r)
      BY <2>4, <1>1 DEF Occupies, Unfinished
    <3>3. Occupies(r)' => \/ new[r] \notin {"failed", "cancelled"}
                          \/ new[r] = "cancelled" /\ ownership'[r].started
      BY <3>1 DEF Occupies
    <3>4. ownership'[r].started <=> ownership[r].started
                                    \/ new[r] \in {"running", "cancelling", "succeeded"}
      BY <2>4, <3>1, <2>1, SettleRow
    <3>5. ownership'[r].quota = CASE new[r] = "failed" -> "released"
                                 [] new[r] = "cancelled" ->
                                        IF ownership[r].started THEN "consumed" ELSE "released"
                                 [] new[r] = "succeeded" -> "consumed"
                                 [] OTHER -> "reserved"
      BY <2>4, <3>1, <2>1, SettleRow
    <3> QED BY <2>2, <3>2, <3>3, <3>4, <3>5
  <2> QED BY <2>3, <2>4
<1>10. ASSUME NEW d
       PROVE  /\ DailyRunCount(d)' <= DailyRunCount(d)
              /\ DailyRunCount(d)' \in Nat /\ DailyRunCount(d) \in Nat
  <2>1. Counted(d)' \in SUBSET Counted(d)
    BY <1>4, <1>5, <1>9 DEF Counted
  <2>2. DailyRunCount(d)' = Cardinality(Counted(d)')
    BY DEF DailyRunCount, Counted
  <2> QED BY <2>1, <2>2, <1>0, CountedFinite, FS_CardinalityType
<1>11. CountsKept'
  <2>1. ASSUME NEW d \in 1..MaxDay PROVE DailyRunCount(d)' <= Limit
    BY <1>10 DEF RowsInv, CountsKept
  <2> QED BY <2>1, <1>4, <1>9 DEF CountsKept
<1>12. StartedRuns'
  <2>1. ASSUME NEW r \in 1..MaxRuns, Live(r)', runs'[r].status \in {"running", "cancelling"}
        PROVE  ownership'[r].started
    <3>1. Live(r) /\ r \in DOMAIN ownership
      BY <2>1, <1>0, <1>2, LiveRow
    <3>2. CASE r \in rs
      BY <3>1, <3>2, <2>1, <1>2, <1>5
    <3>3. CASE r \notin rs
      BY <3>1, <3>3, <2>1, <1>2, <1>5 DEF RowsInv, StartedRuns
    <3> QED BY <3>2, <3>3
  <2> QED BY <2>1 DEF StartedRuns
<1> QED BY <1>2, <1>4, <1>5, <1>6, <1>7, <1>8, <1>10, <1>11, <1>12 DEF StatusChanged

LEMMA ApiKept ==
    ASSUME ApiInv, UNCHANGED api, day \in Nat, day' \in Nat, day <= day',
           \A q \in Api : api[q].step \in {"count", "insert"} =>
               Receipt(q)' = NoReceipt /\ ~NamesCancel(q)',
           \A d \in 1..MaxDay : /\ DailyRunCount(d)' <= DailyRunCount(d)
                                /\ DailyRunCount(d)' \in Nat /\ DailyRunCount(d) \in Nat
    PROVE  ApiInv'
<1>1. \A q \in Api : api[q].step \in {"count", "insert"} =>
        api[q].day \in 1..MaxDay /\ Len(api[q].specs) \in Nat
  BY ApiRowCases DEF ApiInv, ApiShapes, Admitting
<1>2. ApiShapes'
  BY <1>1 DEF ApiInv, ApiShapes
<1>3. InsertsCounted'
  <2>1. ASSUME NEW q \in Api, api[q].step = "insert"
        PROVE  DailyRunCount(api[q].day)' + Len(api'[q].specs) <= Limit
    <3> DEFINE d == api[q].day
    <3>1. d \in 1..MaxDay /\ Len(api[q].specs) \in Nat
      BY <1>1, <2>1
    <3>2. DailyRunCount(d) + Len(api[q].specs) <= Limit
      BY <2>1 DEF ApiInv, InsertsCounted
    <3>3. DailyRunCount(d)' <= DailyRunCount(d) /\ DailyRunCount(d)' \in Nat
          /\ DailyRunCount(d) \in Nat
      BY <3>1
    <3>4. DailyRunCount(api[q].day)' = DailyRunCount(d)'
      BY DEF DailyRunCount
    <3> QED BY <3>1, <3>2, <3>3, <3>4
  <2> QED BY <2>1 DEF ApiInv, InsertsCounted
<1>4. RequestHeld'
  BY DEF ApiInv, RequestHeld
<1>5. PreparedFit'
  BY DEF ApiInv, PreparedFit
<1> QED BY <1>2, <1>3, <1>4, <1>5 DEF ApiInv

\* The runs that were gone stay gone; receipts and answers are not touched.
LEMMA RecordsKept ==
    ASSUME RecordsInv, Shapes, UNCHANGED <<receipts, answers>>,
           \A req \in cancels' : receipts[<<"batch", req>>] = NoReceipt,
           Len(ownership) \in Nat, Len(ownership') = Len(ownership),
           \A r \in 1..Len(ownership) : ~Live(r) => ~Live(r)'
    PROVE  RecordsInv'
<1>1. RecordShapes' /\ RequestNamesOneAction'
  BY DEF RecordsInv, RecordShapes, RequestNamesOneAction
<1>2. ASSUME NEW a \in answers PROVE NamesRuns(a)' /\ AnswerStands(a)'
  <2>1. a \in AnswerRows /\ NamesRuns(a) /\ AnswerStands(a)
    BY DEF RecordsInv, AnswersStand, RecordShapes
  <2>2. NamesRuns(a)'
    BY <2>1 DEF NamesRuns
  <2>3. CASE a.kind = "run" /\ a.outcome = "accepted" /\ ~Live(a.runs[1])
    <3>1. a.runs \in Seq(1..MaxRuns) /\ a.runs # <<>> /\ a.runs[1] <= Len(ownership)
      BY <2>1, <2>3 DEF NamesRuns, AnswerRows
    <3>2. a.runs[1] \in 1..Len(ownership)
      BY <3>1
    <3>3. ~Live(a.runs[1])'
      BY <3>2, <2>3 DEF Live
    <3> QED BY <2>2, <2>3, <3>3 DEF AnswerStands
  <2>4. CASE receipts[<<a.kind, a.req>>] = ReceiptOf(a)
    BY <2>2, <2>4 DEF AnswerStands, ReceiptOf
  <2> QED BY <2>1, <2>3, <2>4 DEF AnswerStands
<1>3. \A k \in Kinds \X Requests : receipts[k] # NoReceipt => NamesRuns(receipts[k])'
  BY DEF RecordsInv, AnswersStand, NamesRuns
<1> QED BY <1>1, <1>2, <1>3 DEF RecordsInv, AnswersStand

\* The workers and the records, when the statuses of runs change.
LEMMA StatusKeepsRest ==
    ASSUME AdmissionInv, NEW new, StatusChanged(new),
           UNCHANGED <<day, api, receipts, answers>>,
           \A req \in cancels' : receipts[<<"batch", req>>] = NoReceipt,
           \A q \in Api : api[q].step \in {"count", "insert"} => ~NamesCancel(q)'
    PROVE  ApiInv' /\ RecordsInv'
<1>1. day \in Nat /\ Shapes /\ Len(ownership) \in Nat /\ Len(ownership) <= MaxRuns
  BY OwnershipLength DEF AdmissionInv, RowsInv, TypeOK, Shapes
<1>2. ApiInv'
  <2>1. \A q \in Api : api[q].step \in {"count", "insert"} => Receipt(q)' = NoReceipt
    BY DEF Receipt, AdmissionInv, ApiInv, RequestHeld
  <2> QED BY <2>1, <1>1, ApiKept DEF AdmissionInv, StatusChanged
<1>3. RecordsInv'
  <2>1. \A r \in 1..Len(ownership) : ~Live(r) => ~Live(r)'
    BY <1>1 DEF StatusChanged, SameRuns
  <2>2. Len(ownership') = Len(ownership)
    BY DEF StatusChanged
  <2> QED BY <2>1, <2>2, <1>1, RecordsKept DEF AdmissionInv
<1> QED BY <1>2, <1>3

\* What TypeOK says of the rows, when the statuses of runs change.
LEMMA StatusKeepsTypes ==
    ASSUME RowsInv, NEW new, StatusChanged(new),
           UNCHANGED <<day, head, gens, folders, deleted>>,
           retained' \subseteq (1..MaxRuns) \X (1..Len(Generations)),
           batchStatus' \in [1..MaxRuns -> BatchStatuses], cancels' \subseteq Requests
    PROVE  TypeOK'
<1>1. /\ day' \in 1..MaxDay /\ head' \in 0..Len(Generations) /\ gens' \subseteq 1..head'
      /\ retained' \subseteq (1..MaxRuns) \X (1..Len(Generations))
      /\ folders' \subseteq UserFolders /\ cancels' \subseteq Requests
  BY DEF RowsInv, TypeOK
<1>2. /\ deleted' \subseteq DOMAIN ownership' /\ Len(ownership') <= MaxRuns
  BY DEF RowsInv, TypeOK, StatusChanged
<1>3. ASSUME NEW r \in DOMAIN ownership'
      PROVE  /\ ownership'[r].day \in 1..day'
             /\ ownership'[r].quota \in {"reserved", "consumed", "released"}
  <2>1. r \in DOMAIN ownership /\ ownership'[r].day = ownership[r].day
        /\ ownership' \in Seq(OwnershipRows)
    BY DEF StatusChanged, Shapes
  <2>2. ownership'[r] \in OwnershipRows
    BY <2>1
  <2> QED BY <2>1, <2>2 DEF RowsInv, TypeOK, OwnershipRows
<1>4. ASSUME NEW r \in 1..MaxRuns, Live(r)'
      PROVE  r \in DOMAIN ownership' /\ runs'[r].owner \in 1..r
  BY <1>4 DEF RowsInv, TypeOK, StatusChanged, SameRuns
<1> QED BY <1>1, <1>2, <1>3, <1>4 DEF TypeOK

\* What a step leaves of an unfinished run: its Generation is kept unless an attempt of its
\* batch was interrupted, and it waits or runs with its batch.
Kept(s) ==
    /\ \/ runs[s].gen \in gens /\ <<runs[s].owner, runs[s].gen>> \in retained'
       \/ runs[s].kind = "batch" /\ runs'[s].status = "queued" /\ ownership'[s].started
    /\ runs[s].kind = "batch" =>
         \/ runs'[s].status = "queued" /\ batchStatus'[runs[s].owner] = "queued"
         \/ /\ runs'[s].status = "running"
            /\ batchStatus'[runs[s].owner] \in {"running", "cancelling"}

\* A change of status keeps the invariant when every unfinished run is left so.
LEMMA StatusStepKeeps ==
    ASSUME AdmissionInv, NEW new, StatusChanged(new),
           UNCHANGED <<day, head, gens, folders, batches, deleted, receipts, api, reader, answers>>,
           retained' \subseteq (1..MaxRuns) \X (1..Len(Generations)),
           batchStatus' \in [1..MaxRuns -> BatchStatuses], cancels' \subseteq Requests,
           \A req \in cancels' : receipts[<<"batch", req>>] = NoReceipt,
           \A q \in Api : api[q].step \in {"count", "insert"} => ~NamesCancel(q)',
           \A s \in 1..MaxRuns : Live(s) /\ runs'[s].status \notin Terminal => Kept(s)
    PROVE  AdmissionInv'
<1>1. OwnersApart' /\ BatchesHold' /\ ReaderHolds' /\ RunsFit'
  BY SameRunsKeep DEF AdmissionInv, StatusChanged
<1>2. TypeOK'
  BY StatusKeepsTypes DEF AdmissionInv
<1>3. ASSUME NEW s \in 1..MaxRuns, Live(s)', runs'[s].status \notin Terminal
      PROVE  /\ Kept(s) /\ runs'[s].gen = runs[s].gen /\ runs'[s].owner = runs[s].owner
             /\ runs'[s].kind = runs[s].kind
  BY <1>3 DEF StatusChanged, SameRuns
<1>4. AcceptedPinned'
  <2>1. ASSUME NEW s \in DOMAIN ownership', Live(s)', runs'[s].status \notin Terminal,
               ~Interrupted(s)'
        PROVE  runs'[s].gen \in gens' /\ <<runs'[s].owner, runs'[s].gen>> \in retained'
    <3>1. s \in 1..MaxRuns
      BY OwnershipLength DEF StatusChanged, AdmissionInv, RowsInv, Shapes
    <3> QED BY <2>1, <3>1, <1>3 DEF Kept, Interrupted
  <2> QED BY <2>1 DEF AcceptedPinned
<1>5. BatchesAgree'
  BY <1>3 DEF BatchesAgree, Together, Kept
<1>6. ApiInv' /\ RecordsInv'
  BY StatusKeepsRest
<1> QED BY <1>1, <1>2, <1>4, <1>5, <1>6 DEF AdmissionInv, RowsInv, StatusChanged

\* Cancellation receipts are not touched.
LEMMA CancelsKept ==
    ASSUME AdmissionInv, UNCHANGED <<cancels, api>>
    PROVE  /\ cancels' \subseteq Requests
           /\ \A req \in cancels' : receipts[<<"batch", req>>] = NoReceipt
           /\ \A q \in Api : api[q].step \in {"count", "insert"} => ~NamesCancel(q)'
<1>1. cancels' \subseteq Requests /\ \A req \in cancels' : receipts[<<"batch", req>>] = NoReceipt
  BY DEF AdmissionInv, RowsInv, TypeOK, RecordsInv, RequestNamesOneAction
<1>2. \A q \in Api : api[q].step \in {"count", "insert"} => ~NamesCancel(q)'
  BY DEF AdmissionInv, ApiInv, RequestHeld, NamesCancel
<1> QED BY <1>1, <1>2

\* What is retained, and the statuses of batches, have their types.
LEMMA RetainedTypes ==
    ASSUME AdmissionInv
    PROVE  /\ retained \subseteq (1..MaxRuns) \X (1..Len(Generations))
           /\ batchStatus \in [1..MaxRuns -> BatchStatuses]
BY DEF AdmissionInv, RowsInv, TypeOK

\* An unfinished run that no step touches: what it keeps.
LEMMA Pinned ==
    ASSUME AdmissionInv, NEW s \in 1..MaxRuns, Live(s), runs[s].status \notin Terminal
    PROVE  /\ \/ runs[s].gen \in gens /\ <<runs[s].owner, runs[s].gen>> \in retained
              \/ runs[s].kind = "batch" /\ runs[s].status = "queued" /\ ownership[s].started
           /\ runs[s].kind = "batch" => Together(s)
           /\ s \in DOMAIN ownership /\ runs[s].status \in Unfinished
           /\ runs[s].gen \in 1..Len(Generations) /\ runs[s].owner \in 1..MaxRuns
<1>1. s \in DOMAIN ownership /\ runs[s] \in RunRows
  BY LiveRow DEF AdmissionInv, RowsInv
<1>2. Interrupted(s) \/ (runs[s].gen \in gens /\ <<runs[s].owner, runs[s].gen>> \in retained)
  BY <1>1 DEF AdmissionInv, RowsInv, AcceptedPinned
<1>3. runs[s].kind = "batch" => Together(s)
  BY DEF AdmissionInv, RowsInv, BatchesAgree
<1> QED BY <1>1, <1>2, <1>3 DEF Interrupted, RunRows

\* An ordinary run moves on: its retention or pin goes when it ends.
LEMMA OneRunKeeps ==
    ASSUME AdmissionInv, NEW r \in 1..MaxRuns, NEW status \in Unfinished \cup Terminal,
           Live(r), runs[r].kind = "run", runs[r].status \in Unfinished, SetStatus({r}, status),
           UNCHANGED <<day, head, gens, folders, batches, deleted, receipts, api, reader, answers>>,
           UNCHANGED <<batchStatus, cancels>>,
           retained' = IF status \in Terminal THEN retained \ {<<r, runs[r].gen>>} ELSE retained
    PROVE  AdmissionInv'
<1> DEFINE new == [s \in {r} |-> status]
<1>1. StatusChanged(new)
  <2>1. DOMAIN new \subseteq 1..MaxRuns /\ SetStatuses(new)
    BY DEF SetStatus
  <2>2. \A s \in DOMAIN new : new[s] \in Unfinished \cup Terminal /\ runs[s].status \in Unfinished
    OBVIOUS
  <2> HIDE DEF new
  <2> QED BY <2>1, <2>2, SetStatusChanges DEF AdmissionInv
<1>2. runs[r].owner = r /\ runs'[r].status = status
  BY <1>1 DEF AdmissionInv, RowsInv, OwnersApart, StatusChanged
<1>3. ASSUME NEW s \in 1..MaxRuns, Live(s), runs'[s].status \notin Terminal
      PROVE  Kept(s)
  <2>1. CASE s = r
    <3>1. retained' = retained
      BY <1>2, <1>3, <2>1
    <3>2. runs[r].gen \in gens /\ <<runs[r].owner, runs[r].gen>> \in retained
      BY Pinned DEF Unfinished, Terminal
    <3> QED BY <2>1, <3>1, <3>2 DEF Kept
  <2>2. CASE s # r
    <3>1. runs'[s].status = runs[s].status
      BY <1>1, <2>2 DEF StatusChanged
    <3>2. s \in DOMAIN ownership /\ (ownership[s].started => ownership'[s].started)
      BY <1>1, <1>3, <3>1, Pinned DEF StatusChanged
    <3>3. runs[s].owner # r
      <4>1. runs[s].owner = r => runs[s].kind = "run"
        BY <1>2, <1>3 DEF AdmissionInv, RowsInv, OwnersApart
      <4>2. runs[s].kind = "run" => runs[s].owner = s
        BY <1>3 DEF AdmissionInv, RowsInv, OwnersApart
      <4> QED BY <4>1, <4>2, <2>2
    <3>4. <<runs[s].owner, runs[s].gen>> \in retained =>
            <<runs[s].owner, runs[s].gen>> \in retained'
      BY <3>3
    <3> QED BY <1>3, <3>1, <3>2, <3>4, Pinned DEF Kept, Together
  <2> QED BY <2>1, <2>2
<1>4. /\ retained' \subseteq (1..MaxRuns) \X (1..Len(Generations))
      /\ batchStatus' \in [1..MaxRuns -> BatchStatuses]
  BY RetainedTypes
<1> HIDE DEF new
<1> QED BY <1>1, <1>3, <1>4, CancelsKept, StatusStepKeeps

LEMMA RunStepsKeep ==
    ASSUME AdmissionInv, NEW r \in 1..MaxRuns,
           ClaimRun(r) \/ CancelRun(r) \/ \E s \in Terminal : FinishRun(r, s)
    PROVE  AdmissionInv'
<1>1. CASE ClaimRun(r)
  <2>1. "running" \in Unfinished /\ "running" \notin Terminal /\ "queued" \in Unfinished
    BY DEF Unfinished, Terminal
  <2> QED BY <1>1, <2>1, OneRunKeeps DEF ClaimRun
<1>2. CASE CancelRun(r)
  <2>1. "cancelling" \in Unfinished \ Terminal /\ "cancelled" \in Terminal
        /\ {"queued", "running"} \subseteq Unfinished
    BY DEF Unfinished, Terminal
  <2>2. Live(r) /\ runs[r].kind = "run" /\ runs[r].status \in Unfinished
    BY <1>2, <2>1 DEF CancelRun
  <2>3. CASE SetStatus({r}, "cancelled") /\ retained' = retained \ {<<r, runs[r].gen>>}
    BY <1>2, <2>1, <2>2, <2>3, OneRunKeeps DEF CancelRun
  <2>4. CASE SetStatus({r}, "cancelling") /\ UNCHANGED retained
    BY <1>2, <2>1, <2>2, <2>4, OneRunKeeps DEF CancelRun
  <2> QED BY <1>2, <2>3, <2>4 DEF CancelRun
<1>3. ASSUME NEW s \in Terminal, FinishRun(r, s) PROVE AdmissionInv'
  <2>1. {"running", "cancelling"} \subseteq Unfinished
    BY DEF Unfinished
  <2> QED BY <1>3, <2>1, OneRunKeeps DEF FinishRun
<1> QED BY <1>1, <1>2, <1>3

\* The runs of a batch without an outcome are the unfinished runs its first run stands for.
LEMMA IncompleteRuns ==
    ASSUME AdmissionInv, NEW b \in DOMAIN batches
    PROVE  /\ Batch(b) \in 1..MaxRuns /\ Incomplete(b) \subseteq 1..MaxRuns
           /\ \A s \in Incomplete(b) :
                /\ Live(s) /\ runs[s].status \in Unfinished /\ runs[s].status \notin Terminal
                /\ runs[s].kind = "batch" /\ runs[s].owner = Batch(b)
           /\ \A s \in 1..MaxRuns :
                Live(s) /\ runs[s].status \notin Terminal /\ runs[s].owner = Batch(b) =>
                    s \in Incomplete(b)
<1>1. batches[b] \in Seq(1..MaxRuns) /\ Len(batches[b]) > 0
  BY DEF AdmissionInv, RowsInv, BatchesHold
<1>2. Batch(b) \in 1..MaxRuns
  BY <1>1 DEF Batch
<1>3. ASSUME NEW s \in Incomplete(b)
      PROVE  /\ s \in 1..MaxRuns /\ Live(s) /\ runs[s].status \notin Terminal
             /\ runs[s].kind = "batch" /\ runs[s].owner = Batch(b)
  <2>1. PICK i \in DOMAIN batches[b] : batches[b][i] = s
    BY DEF Incomplete
  <2>2. s \in 1..MaxRuns /\ Live(s) /\ runs[s].status \notin Terminal
    BY DEF Incomplete
  <2>3. Live(batches[b][i]) /\ runs[batches[b][i]] = runs[s]
    BY <2>1, <2>2
  <2> QED BY <2>2, <2>3 DEF AdmissionInv, RowsInv, BatchesHold, Batch
<1>4. \A s \in Incomplete(b) : runs[s].status \in Unfinished
  BY <1>3, Pinned
<1>5. ASSUME NEW s \in 1..MaxRuns, Live(s), runs[s].status \notin Terminal,
             runs[s].owner = Batch(b)
      PROVE  s \in Incomplete(b)
  BY <1>5 DEF AdmissionInv, RowsInv, BatchesHold, Batch, Incomplete
<1> QED BY <1>2, <1>3, <1>4, <1>5

\* A step of one batch keeps the invariant when it leaves so the runs without an outcome.
LEMMA BatchStepKeeps ==
    ASSUME AdmissionInv, NEW b \in DOMAIN batches, NEW new, SetStatuses(new),
           DOMAIN new \subseteq Incomplete(b),
           \A s \in DOMAIN new : new[s] \in Unfinished \cup Terminal,
           NEW status \in BatchStatuses, SetBatch(b, status),
           UNCHANGED <<day, head, gens, folders, batches, deleted, receipts, api, reader, answers>>,
           retained' \subseteq (1..MaxRuns) \X (1..Len(Generations)),
           \A x \in retained : x[1] # Batch(b) => x \in retained',
           cancels' \subseteq Requests,
           \A req \in cancels' : receipts[<<"batch", req>>] = NoReceipt,
           \A q \in Api : api[q].step \in {"count", "insert"} => ~NamesCancel(q)',
           StatusChanged(new) =>
               \A s \in Incomplete(b) : runs'[s].status \notin Terminal => Kept(s)
    PROVE  AdmissionInv'
<1>1. StatusChanged(new)
  <2>1. DOMAIN new \subseteq 1..MaxRuns /\ \A s \in DOMAIN new : runs[s].status \in Unfinished
    BY IncompleteRuns
  <2> QED BY <2>1, SetStatusChanges DEF AdmissionInv
<1>2. /\ batchStatus' \in [1..MaxRuns -> BatchStatuses]
      /\ \A x \in 1..MaxRuns : x # Batch(b) => batchStatus'[x] = batchStatus[x]
  BY RetainedTypes DEF SetBatch
<1>3. ASSUME NEW s \in 1..MaxRuns, Live(s), runs'[s].status \notin Terminal
      PROVE  Kept(s)
  <2>1. CASE s \in Incomplete(b)
    BY <1>1, <1>3, <2>1
  <2>2. CASE s \notin Incomplete(b)
    <3>1. runs'[s].status = runs[s].status
      BY <1>1, <2>2 DEF StatusChanged
    <3>2. s \in DOMAIN ownership /\ (ownership[s].started => ownership'[s].started)
      BY <1>1, <1>3, <3>1, Pinned DEF StatusChanged
    <3>3. runs[s].owner # Batch(b)
      BY <1>3, <2>2, <3>1, IncompleteRuns
    <3>4. <<runs[s].owner, runs[s].gen>> \in retained =>
            <<runs[s].owner, runs[s].gen>> \in retained'
      BY <3>3
    <3>5. batchStatus'[runs[s].owner] = batchStatus[runs[s].owner]
      BY <1>2, <1>3, <3>1, <3>3, Pinned
    <3> QED BY <1>3, <3>1, <3>2, <3>4, <3>5, Pinned DEF Kept, Together
  <2> QED BY <2>1, <2>2
<1> QED BY <1>1, <1>2, <1>3, StatusStepKeeps

LEMMA ClaimBatchKeeps ==
    ASSUME AdmissionInv, NEW b \in 1..MaxRuns, ClaimBatch(b)
    PROVE  AdmissionInv'
<1> DEFINE new == [s \in Incomplete(b) |-> "running"]
<1>1. /\ b \in DOMAIN batches /\ SetStatuses(new) /\ SetBatch(b, "running")
      /\ UNCHANGED <<day, head, gens, folders, batches, deleted, receipts, api, reader, answers>>
      /\ UNCHANGED <<cancels, api>>
  BY DEF ClaimBatch, SetStatus
<1>2. PICK r \in Incomplete(b) : /\ runs[r].gen \in gens
                                 /\ retained' = retained \cup {<<Batch(b), runs[r].gen>>}
  BY DEF ClaimBatch, Pinnable
<1>3. /\ DOMAIN new \subseteq Incomplete(b)
      /\ \A s \in DOMAIN new : new[s] \in Unfinished \cup Terminal
      /\ "running" \in BatchStatuses
  BY DEF Unfinished, BatchStatuses
<1>4. /\ retained' \subseteq (1..MaxRuns) \X (1..Len(Generations))
      /\ \A x \in retained : x \in retained'
  BY <1>1, <1>2, RetainedTypes, IncompleteRuns, Pinned
<1>5. ASSUME StatusChanged(new), NEW s \in Incomplete(b) PROVE Kept(s)
  <2>1. runs'[s].status = "running" /\ batchStatus'[Batch(b)] = "running"
    BY <1>1, <1>5, IncompleteRuns, RetainedTypes DEF StatusChanged, SetBatch
  <2>2. runs[s].owner = Batch(b) /\ runs[s].gen = runs[r].gen
    BY <1>1, IncompleteRuns DEF AdmissionInv, RowsInv, OwnersApart
  <2> QED BY <1>2, <2>1, <2>2 DEF Kept
<1> HIDE DEF new
<1> QED BY <1>1, <1>3, <1>4, <1>5, CancelsKept, BatchStepKeeps

LEMMA FinishItemKeeps ==
    ASSUME AdmissionInv, NEW b \in 1..MaxRuns, NEW r \in 1..MaxRuns, NEW status \in Terminal,
           FinishItem(b, r, status)
    PROVE  AdmissionInv'
<1> DEFINE new == [s \in {r} |-> status]
<1>1. /\ b \in DOMAIN batches /\ SetStatuses(new) /\ batchStatus[Batch(b)] = "running"
      /\ UNCHANGED <<day, head, gens, folders, batches, deleted, receipts, api, reader, answers>>
      /\ UNCHANGED <<cancels, api>> /\ UNCHANGED <<retained, batchStatus>>
      /\ r \in Incomplete(b)
  BY DEF FinishItem, SetStatus
<1>2. SetBatch(b, "running")
  BY <1>1, RetainedTypes, IncompleteRuns DEF SetBatch
<1>3. /\ DOMAIN new \subseteq Incomplete(b)
      /\ \A s \in DOMAIN new : new[s] \in Unfinished \cup Terminal
      /\ "running" \in BatchStatuses
  BY <1>1 DEF BatchStatuses
<1>4. /\ retained' \subseteq (1..MaxRuns) \X (1..Len(Generations))
      /\ \A x \in retained : x \in retained'
  BY <1>1, RetainedTypes
<1>5. ASSUME StatusChanged(new), NEW s \in Incomplete(b), runs'[s].status \notin Terminal
      PROVE  Kept(s)
  <2>1. runs'[s].status = runs[s].status
    BY <1>1, <1>5, IncompleteRuns DEF StatusChanged
  <2>2. /\ Live(s) /\ runs[s].status \notin Terminal /\ s \in 1..MaxRuns
        /\ runs[s].kind = "batch" /\ runs[s].owner = Batch(b)
    BY <1>1, IncompleteRuns
  <2>3. Together(s) /\ runs[s].status = "running"
    BY <1>1, <2>2, Pinned DEF Together
  <2> QED BY <1>1, <2>1, <2>2, <2>3, Pinned DEF Kept
<1> HIDE DEF new
<1> QED BY <1>1, <1>2, <1>3, <1>4, <1>5, CancelsKept, BatchStepKeeps

LEMMA CloseBatchKeeps ==
    ASSUME AdmissionInv, NEW b \in 1..MaxRuns, CloseBatch(b)
    PROVE  AdmissionInv'
<1>1. /\ b \in DOMAIN batches /\ batchStatus[Batch(b)] = "running" /\ Unretain(b)
      /\ UNCHANGED <<day, head, gens, folders, batches, deleted, receipts, api, reader, answers>>
      /\ UNCHANGED <<cancels, api>>
  BY DEF CloseBatch
<1>2. PICK again \in SUBSET Incomplete(b) :
        /\ SetStatuses([r \in Incomplete(b) |-> IF r \in again THEN "queued" ELSE "failed"])
        /\ SetBatch(b, IF again = {} THEN "ended" ELSE "queued")
  BY DEF CloseBatch
<1> DEFINE new == [r \in Incomplete(b) |-> IF r \in again THEN "queued" ELSE "failed"]
           status == IF again = {} THEN "ended" ELSE "queued"
<1>3. /\ DOMAIN new \subseteq Incomplete(b)
      /\ \A s \in DOMAIN new : new[s] \in Unfinished \cup Terminal
      /\ status \in BatchStatuses
  BY DEF Unfinished, Terminal, BatchStatuses
<1>4. /\ retained' \subseteq (1..MaxRuns) \X (1..Len(Generations))
      /\ \A x \in retained : x[1] # Batch(b) => x \in retained'
  BY <1>1, RetainedTypes DEF Unretain
<1>5. ASSUME StatusChanged(new), NEW s \in Incomplete(b), runs'[s].status \notin Terminal
      PROVE  Kept(s)
  <2>1. /\ Live(s) /\ runs[s].status \notin Terminal /\ s \in 1..MaxRuns
        /\ runs[s].kind = "batch" /\ runs[s].owner = Batch(b)
    BY <1>1, IncompleteRuns
  <2>2. runs'[s].status = "queued" /\ again # {}
    BY <1>5, <2>1 DEF StatusChanged, Terminal
  <2>3. batchStatus'[Batch(b)] = "queued"
    BY <1>1, <1>2, <2>2, RetainedTypes, IncompleteRuns DEF SetBatch
  <2>4. runs[s].status = "running"
    BY <1>1, <2>1, Pinned DEF Together
  <2>5. ownership[s].started /\ s \in DOMAIN ownership
    BY <2>1, <2>4, Pinned DEF AdmissionInv, RowsInv, StartedRuns
  <2>6. ownership'[s].started
    BY <1>5, <2>5 DEF StatusChanged
  <2> QED BY <2>1, <2>2, <2>3, <2>6 DEF Kept
<1>6. SetStatuses(new) /\ SetBatch(b, status)
  BY <1>2
<1> HIDE DEF new, status
<1> QED BY <1>1, <1>3, <1>4, <1>5, <1>6, CancelsKept, BatchStepKeeps

\* A batch that is given up keeps nothing, and none of its runs is unfinished.
LEMMA CancelItemsKeep ==
    ASSUME AdmissionInv, NEW b \in DOMAIN batches, CancelItems(b),
           UNCHANGED <<day, head, gens, folders, batches, deleted, receipts, api, reader, answers>>,
           cancels' \subseteq Requests,
           \A req \in cancels' : receipts[<<"batch", req>>] = NoReceipt,
           \A q \in Api : api[q].step \in {"count", "insert"} => ~NamesCancel(q)'
    PROVE  AdmissionInv'
<1> DEFINE new == [s \in Incomplete(b) |-> "cancelled"]
<1>1. SetStatuses(new) /\ SetBatch(b, "ended") /\ Unretain(b)
  BY DEF CancelItems, SetStatus
<1>2. /\ DOMAIN new \subseteq Incomplete(b)
      /\ \A s \in DOMAIN new : new[s] \in Unfinished \cup Terminal
      /\ "ended" \in BatchStatuses
  BY DEF Terminal, BatchStatuses
<1>3. /\ retained' \subseteq (1..MaxRuns) \X (1..Len(Generations))
      /\ \A x \in retained : x[1] # Batch(b) => x \in retained'
  BY <1>1, RetainedTypes DEF Unretain
<1>4. ASSUME StatusChanged(new), NEW s \in Incomplete(b) PROVE runs'[s].status \in Terminal
  <2>1. s \in 1..MaxRuns
    BY IncompleteRuns
  <2> QED BY <1>4, <2>1 DEF StatusChanged, Terminal
<1> HIDE DEF new
<1> QED BY <1>1, <1>2, <1>3, <1>4, BatchStepKeeps

LEMMA StopBatchKeeps ==
    ASSUME AdmissionInv, NEW b \in 1..MaxRuns, StopBatch(b)
    PROVE  AdmissionInv'
<1>1. /\ b \in DOMAIN batches /\ CancelItems(b)
      /\ UNCHANGED <<day, head, gens, folders, batches, deleted, receipts, api, reader, answers>>
      /\ UNCHANGED <<cancels, api>>
  BY DEF StopBatch
<1> QED BY <1>1, CancelsKept, CancelItemsKeep

LEMMA CancelBatchKeeps ==
    ASSUME AdmissionInv, NEW b \in 1..MaxRuns, NEW req \in Requests, CancelBatch(b, req)
    PROVE  AdmissionInv'
<1>1. /\ b \in DOMAIN batches /\ ~RequestLocked("batch", req)
      /\ receipts[<<"batch", req>>] = NoReceipt /\ cancels' = cancels \cup {req}
      /\ UNCHANGED <<day, head, gens, folders, batches, deleted, receipts, api, reader, answers>>
  BY DEF CancelBatch
<1>2. /\ cancels' \subseteq Requests
      /\ \A q \in cancels' : receipts[<<"batch", q>>] = NoReceipt
  BY <1>1 DEF AdmissionInv, RowsInv, TypeOK, RecordsInv, RequestNamesOneAction
<1>3. ASSUME NEW q \in Api, api[q].step \in {"count", "insert"} PROVE ~NamesCancel(q)'
  <2>1. ~NamesCancel(q)
    BY <1>3 DEF AdmissionInv, ApiInv, RequestHeld
  <2>2. ~(api[q].command.kind = "batch" /\ api[q].req = req)
    BY <1>1, <1>3 DEF RequestLocked
  <2> QED BY <1>1, <2>1, <2>2 DEF NamesCancel
<1>4. CASE CancelItems(b)
  BY <1>1, <1>2, <1>3, <1>4, CancelItemsKeep
<1>5. CASE /\ batchStatus[Batch(b)] = "running" /\ SetBatch(b, "cancelling")
           /\ UNCHANGED <<runs, ownership, retained>>
  <2> DEFINE new == [s \in {} |-> "queued"]
  <2>1. SetStatuses(new)
    <3>1. runs = [r \in 1..MaxRuns |-> runs[r]]
      BY DEF AdmissionInv, RowsInv, Shapes
    <3>2. ownership = [r \in DOMAIN ownership |-> ownership[r]]
      BY DEF AdmissionInv, RowsInv, Shapes
    <3> QED BY <1>5, <3>1, <3>2 DEF SetStatuses
  <2>2. /\ DOMAIN new \subseteq Incomplete(b)
        /\ \A s \in DOMAIN new : new[s] \in Unfinished \cup Terminal
        /\ "cancelling" \in BatchStatuses
    BY DEF BatchStatuses
  <2>3. /\ retained' \subseteq (1..MaxRuns) \X (1..Len(Generations))
        /\ \A x \in retained : x \in retained'
    BY <1>5, RetainedTypes
  <2>4. ASSUME NEW s \in Incomplete(b) PROVE Kept(s)
    <3>1. /\ Live(s) /\ runs[s].status \notin Terminal /\ s \in 1..MaxRuns
          /\ runs[s].kind = "batch" /\ runs[s].owner = Batch(b)
      BY <1>1, IncompleteRuns
    <3>2. runs'[s].status = "running"
      BY <1>5, <3>1, Pinned DEF Together
    <3>3. batchStatus'[Batch(b)] = "cancelling"
      BY <1>1, <1>5, RetainedTypes, IncompleteRuns DEF SetBatch
    <3> QED BY <1>5, <3>1, <3>2, <3>3, Pinned DEF Kept
  <2> HIDE DEF new
  <2> QED BY <1>1, <1>2, <1>3, <1>5, <2>1, <2>2, <2>3, <2>4, BatchStepKeeps
<1> QED BY <1>4, <1>5 DEF CancelBatch

LEMMA OrganizeKeeps ==
    ASSUME AdmissionInv, NEW r \in 1..MaxRuns, NEW f \in UserFolders, Organize(r, f)
    PROVE  AdmissionInv'
<1>1. /\ Live(r) /\ runs' = [runs EXCEPT ![r].folder = f]
      /\ UNCHANGED <<day, head, gens, folders, batches, deleted, receipts, api, reader, answers>>
      /\ UNCHANGED <<ownership, retained, batchStatus>> /\ UNCHANGED <<cancels, api>>
  BY DEF Organize
<1>2. /\ Shapes /\ runs \in [1..MaxRuns -> RunRows \cup {NoRun}] /\ runs[r] \in RunRows
  BY <1>1, LiveRow DEF AdmissionInv, RowsInv, Shapes
<1> DEFINE new == [runs[r] EXCEPT !.folder = f]
           row == runs[r]
<1>3. /\ new \in RunRows /\ new.status = row.status /\ new.kind = row.kind /\ new.gen = row.gen
      /\ new.owner = row.owner /\ new.spec = row.spec
  BY <1>2 DEF RunRows, Folders
<1>4. runs'[r] = new /\ \A s \in 1..MaxRuns \ {r} : runs'[s] = runs[s]
  BY <1>1, <1>2
<1> HIDE DEF new
<1>5. /\ SameRuns /\ \A s \in 1..MaxRuns : runs'[s].status = runs[s].status
  BY <1>3, <1>4 DEF SameRuns, Live
<1>6. Shapes'
  <2>1. runs' = [runs EXCEPT ![r] = new]
    BY <1>1, <1>2 DEF new
  <2>2. runs' \in [1..MaxRuns -> RunRows \cup {NoRun}]
    BY <2>1, <1>2, <1>3
  <2> QED BY <2>2, <1>1, <1>2, <1>5 DEF Shapes, SameRuns
<1>7. CountsKept'
  <2>1. ASSUME NEW s \in DOMAIN ownership
        PROVE  Occupies(s)' => ownership[s].quota # "released"
    <3>1. s \in 1..MaxRuns
      BY <1>2, OwnershipLength DEF Shapes
    <3>2. Occupies(s)' <=> Occupies(s)
      BY <3>1, <1>1, <1>5 DEF Occupies, Live
    <3> QED BY <3>2 DEF AdmissionInv, RowsInv, CountsKept
  <2>2. \A d \in 1..MaxDay : DailyRunCount(d)' <= Limit
    BY <1>1 DEF DailyRunCount, AdmissionInv, RowsInv, CountsKept
  <2> QED BY <1>1, <2>1, <2>2 DEF CountsKept
<1> DEFINE none == [s \in {} |-> "queued"]
<1>8. StatusChanged(none)
  <2>1. \A d : DailyRunCount(d)' = DailyRunCount(d)
    BY <1>1 DEF DailyRunCount
  <2>2. \A d : DailyRunCount(d) \in Nat
    BY <1>2, CountedFinite
  <2>3. \A d : DailyRunCount(d)' <= DailyRunCount(d) /\ DailyRunCount(d)' \in Nat
               /\ DailyRunCount(d) \in Nat
    BY <2>1, <2>2
  <2>4. StartedRuns'
    BY <1>1, <1>5 DEF StartedRuns, SameRuns, AdmissionInv, RowsInv
  <2> QED BY <2>3, <2>4, <1>1, <1>5, <1>6, <1>7 DEF StatusChanged
<1>9. ASSUME NEW s \in 1..MaxRuns, Live(s), runs'[s].status \notin Terminal
      PROVE  Kept(s)
  BY <1>1, <1>5, <1>9, Pinned DEF Kept, Together
<1>10. /\ retained' \subseteq (1..MaxRuns) \X (1..Len(Generations))
       /\ batchStatus' \in [1..MaxRuns -> BatchStatuses]
  BY <1>1, RetainedTypes
<1> HIDE DEF none
<1> QED BY <1>1, <1>8, <1>9, <1>10, CancelsKept, StatusStepKeeps

\* The workers and the records, when the rows of runs do not change.
LEMMA RunsSameKeepRest ==
    ASSUME AdmissionInv, UNCHANGED <<runs, ownership, api, receipts, answers, cancels>>,
           day' \in Nat, day <= day'
    PROVE  ApiInv' /\ RecordsInv'
<1>1. RecordsInv'
  BY RecordsUnchanged DEF AdmissionInv
<1>2. ApiInv'
  <2>1. \A q \in Api : api[q].step \in {"count", "insert"} =>
          Receipt(q)' = NoReceipt /\ ~NamesCancel(q)'
    BY DEF AdmissionInv, ApiInv, RequestHeld, Receipt, NamesCancel
  <2>2. \A d \in 1..MaxDay : /\ DailyRunCount(d)' <= DailyRunCount(d)
                             /\ DailyRunCount(d)' \in Nat /\ DailyRunCount(d) \in Nat
    <3>1. \A d : DailyRunCount(d)' = DailyRunCount(d)
      BY DEF DailyRunCount
    <3>2. \A d : DailyRunCount(d) \in Nat
      BY CountedFinite DEF AdmissionInv, RowsInv
    <3> QED BY <3>1, <3>2
  <2>3. day \in Nat
    BY DEF AdmissionInv, RowsInv, TypeOK
  <2> QED BY <2>1, <2>2, <2>3, ApiKept DEF AdmissionInv
<1> QED BY <1>1, <1>2

\* Folders, readers, Heads, the collector and the clock.
Surroundings ==
    \/ \E f \in UserFolders : CreateFolder(f) \/ DeleteFolder(f)
    \/ (\E b \in 1..MaxRuns : ReadItems(b)) \/ ReadStatuses
    \/ PublishHead \/ NextDay \/ (\E g \in 1..Len(Generations) : Collect(g))

LEMMA SurroundingsKeep ==
    ASSUME AdmissionInv, Surroundings
    PROVE  AdmissionInv'
<1>1. /\ UNCHANGED <<runs, ownership, batches, batchStatus, deleted, retained, api, receipts,
                     answers, cancels>>
      /\ day' \in 1..MaxDay /\ day <= day' /\ folders' \subseteq UserFolders
      /\ head \in 0..Len(Generations) /\ day \in 1..MaxDay
      /\ head' \in 0..Len(Generations) /\ head <= head' /\ gens' \subseteq 1..head'
      /\ \A x \in retained : x[2] \in gens => x[2] \in gens'
  <2>0. TypeOK
    BY DEF AdmissionInv, RowsInv
  <2>a. /\ day \in Nat /\ day <= day /\ head \in Nat /\ head <= head
        /\ day \in 1..MaxDay /\ head \in 0..Len(Generations)
        /\ folders \subseteq UserFolders /\ gens \subseteq 1..head
    BY <2>0 DEF TypeOK
  <2>1. CASE \E f \in UserFolders : CreateFolder(f) \/ DeleteFolder(f)
    <3>1. PICK f \in UserFolders : CreateFolder(f) \/ DeleteFolder(f)
      BY <2>1
    <3>2. /\ UNCHANGED <<runs, ownership, batches, batchStatus, deleted, retained, api, receipts,
                         answers, cancels, day, head, gens>>
          /\ folders' = folders \cup {f} \/ folders' = folders \ {f}
      BY <3>1, Zenon DEF CreateFolder, DeleteFolder
    <3> QED BY <3>2, <2>a
  <2>2. CASE (\E b \in 1..MaxRuns : ReadItems(b)) \/ ReadStatuses
    <3>1. UNCHANGED <<runs, ownership, batches, batchStatus, deleted, retained, api, receipts,
                      answers, cancels, day, head, gens, folders>>
      BY <2>2, Zenon DEF ReadItems, ReadStatuses
    <3> QED BY <3>1, <2>a
  <2>3. CASE PublishHead
    <3>1. Len(Generations) \in Nat
      BY GenerationsAssumption
    <3>2. /\ UNCHANGED <<runs, ownership, batches, batchStatus, deleted, retained, api, receipts,
                         answers, cancels, day, folders>>
          /\ head < Len(Generations) /\ head' = head + 1 /\ gens' = gens \cup {head'}
      BY <2>3 DEF PublishHead
    <3> QED BY <3>1, <3>2, <2>a
  <2>4. CASE NextDay
    <3>1. /\ UNCHANGED <<runs, ownership, batches, batchStatus, deleted, retained, api, receipts,
                         answers, cancels, head, gens, folders>>
          /\ day < MaxDay /\ day' = day + 1
      BY <2>4 DEF NextDay
    <3> QED BY <3>1, <2>a
  <2>5. CASE \E g \in 1..Len(Generations) : Collect(g)
    <3>1. PICK g \in 1..Len(Generations) : Collect(g)
      BY <2>5
    <3>2. /\ UNCHANGED <<runs, ownership, batches, batchStatus, deleted, retained, api, receipts,
                         answers, cancels, day, head, folders>>
          /\ gens' = gens \ {g} /\ \A x \in retained : x[2] # g
      BY <3>1 DEF Collect
    <3> QED BY <3>2, <2>a
  <2> QED BY <2>1, <2>2, <2>3, <2>4, <2>5 DEF Surroundings
<1>2. ApiInv' /\ RecordsInv'
  BY <1>1, RunsSameKeepRest
<1>3. TypeOK'
  <2>1. \A r \in DOMAIN ownership : ownership[r].day \in 1..day
    BY DEF AdmissionInv, RowsInv, TypeOK
  <2>2. \A r \in DOMAIN ownership : ownership[r].day \in 1..day'
    BY <1>1, <2>1
  <2> QED BY <1>1, <2>2 DEF AdmissionInv, RowsInv, TypeOK, Live
<1>4. Shapes' /\ OwnersApart'
  BY <1>1 DEF AdmissionInv, RowsInv, Shapes, OwnersApart, Live
<1>5. BatchesHold'
  <2>1. runs' = runs /\ ownership' = ownership /\ batches' = batches /\ deleted' = deleted
    BY <1>1
  <2>2. BatchesHold
    BY DEF AdmissionInv, RowsInv
  <2>3. BatchesHold' <=> BatchesHold
    BY <2>1, SMTT(30) DEF BatchesHold, Live
  <2> QED BY <2>2, <2>3
<1>6. AcceptedPinned'
  <2>1. ASSUME NEW r \in DOMAIN ownership, Live(r), runs[r].status \notin Terminal,
               ~Interrupted(r)
        PROVE  runs[r].gen \in gens' /\ <<runs[r].owner, runs[r].gen>> \in retained
    <3>1. runs[r].gen \in gens /\ <<runs[r].owner, runs[r].gen>> \in retained
      BY <2>1 DEF AdmissionInv, RowsInv, AcceptedPinned
    <3>2. <<runs[r].owner, runs[r].gen>>[2] \in gens'
      BY <3>1, <1>1
    <3> QED BY <3>1, <3>2
  <2> QED BY <1>1, <2>1 DEF AcceptedPinned, Interrupted, Live
<1>7. CountsKept'
  BY <1>1 DEF AdmissionInv, RowsInv, CountsKept, Occupies, DailyRunCount, Live
<1>8. ReaderHolds'
  <2>1. CASE UNCHANGED reader
    BY <1>1, <2>1 DEF AdmissionInv, RowsInv, ReaderHolds, Live
  <2>2. CASE \E b \in 1..MaxRuns : ReadItems(b)
    <3>1. PICK b \in 1..MaxRuns : ReadItems(b)
      BY <2>2
    <3> DEFINE items == {batches[b][i] : i \in DOMAIN batches[b]} \ deleted
    <3>2. b \in DOMAIN batches /\ reader' = [step |-> "items", batch |-> b, items |-> items]
      BY <3>1 DEF ReadItems
    <3>3. batches[b] \in Seq(1..MaxRuns)
      BY <3>2 DEF AdmissionInv, RowsInv, BatchesHold
    <3>4. items \in SUBSET (1..MaxRuns)
      BY <3>3
    <3>5. \A r \in items : Live(r)
      BY <3>2 DEF AdmissionInv, RowsInv, BatchesHold
    <3>6. reader'.items = items /\ reader' \in Readers
      BY <3>2, <3>4 DEF Readers
    <3> HIDE DEF items
    <3> QED BY <3>5, <3>6, <1>1 DEF ReaderHolds, Live
  <2>3. CASE ReadStatuses
    BY <2>3 DEF ReadStatuses, ReaderHolds, Readers
  <2> QED BY <2>1, <2>2, <2>3 DEF Surroundings, CreateFolder, DeleteFolder, PublishHead,
                                  NextDay, Collect
<1>9. RunsFit'
  BY <1>1 DEF AdmissionInv, RowsInv, RunsFit, Live
<1>10. StartedRuns' /\ BatchesAgree'
  BY <1>1 DEF AdmissionInv, RowsInv, StartedRuns, BatchesAgree, Together, Live
<1> QED BY <1>2, <1>3, <1>4, <1>5, <1>6, <1>7, <1>8, <1>9, <1>10 DEF AdmissionInv, RowsInv

-----------------------------------------------------------------------------
(* A run goes, and runs are admitted *)

LEMMA DeleteRunKeeps ==
    ASSUME AdmissionInv, NEW r \in 1..MaxRuns, DeleteRun(r)
    PROVE  AdmissionInv'
<1>1. /\ r \in DOMAIN ownership /\ runs[r].status \in Terminal /\ ~ItemLocked(r)
      /\ runs' = [runs EXCEPT ![r] = NoRun]
      /\ receipts' = [k \in DOMAIN receipts |->
                        IF k[1] = "run" /\ receipts[k] # NoReceipt /\ receipts[k].runs = <<r>>
                        THEN NoReceipt ELSE receipts[k]]
      /\ deleted' = IF runs[r].kind = "batch" THEN deleted \cup {r} ELSE deleted
      /\ UNCHANGED <<day, head, gens, retained, folders, ownership, batches, batchStatus,
                     cancels, api, reader, answers>>
  BY DEF DeleteRun
<1>2. /\ Shapes /\ runs \in [1..MaxRuns -> RunRows \cup {NoRun}]
      /\ Len(ownership) \in Nat /\ DOMAIN ownership = 1..Len(ownership)
  BY OwnershipLength DEF AdmissionInv, RowsInv, Shapes
<1>3. /\ Live(r) /\ ~Live(r)' /\ runs'[r] = NoRun
      /\ \A s \in 1..MaxRuns : s # r => runs'[s] = runs[s] /\ (Live(s)' <=> Live(s))
  BY <1>1, <1>2 DEF Live, NoRun, Terminal
<1>4. Shapes'
  <2>1. runs' \in [1..MaxRuns -> RunRows \cup {NoRun}]
    BY <1>1, <1>2
  <2> QED BY <2>1, <1>1, <1>2, <1>3 DEF Shapes
<1>5. TypeOK'
  <2>1. deleted' \subseteq DOMAIN ownership'
    BY <1>1 DEF AdmissionInv, RowsInv, TypeOK
  <2>2. \A s \in 1..MaxRuns : Live(s)' => s \in DOMAIN ownership' /\ runs'[s].owner \in 1..s
    BY <1>1, <1>3 DEF AdmissionInv, RowsInv, TypeOK
  <2> QED BY <1>1, <2>1, <2>2 DEF AdmissionInv, RowsInv, TypeOK
<1>6. OwnersApart'
  BY <1>3 DEF AdmissionInv, RowsInv, OwnersApart
<1>7. BatchesHold'
  <2>1. batches' = batches /\ batches \in Seq(Seq(1..MaxRuns))
    BY <1>1 DEF AdmissionInv, RowsInv, BatchesHold
  <2>2. ASSUME NEW b \in DOMAIN batches
        PROVE  /\ Len(batches[b]) > 0
               /\ \A i \in DOMAIN batches[b] :
                    /\ batches[b][i] <= Len(ownership)
                    /\ IF runs'[batches[b][i]].status # "none"
                       THEN /\ runs'[batches[b][i]].kind = "batch"
                            /\ runs'[batches[b][i]].owner = batches[b][1]
                       ELSE batches[b][i] \in deleted'
               /\ \A s \in 1..MaxRuns : Live(s)' /\ runs'[s].owner = batches[b][1] =>
                    \E i \in DOMAIN batches[b] : batches[b][i] = s
    <3>1. batches[b] \in Seq(1..MaxRuns) /\ Len(batches[b]) > 0
      BY DEF AdmissionInv, RowsInv, BatchesHold
    <3>2. ASSUME NEW i \in DOMAIN batches[b]
          PROVE  /\ batches[b][i] <= Len(ownership)
                 /\ IF runs'[batches[b][i]].status # "none"
                    THEN /\ runs'[batches[b][i]].kind = "batch"
                         /\ runs'[batches[b][i]].owner = batches[b][1]
                    ELSE batches[b][i] \in deleted'
      <4> DEFINE s == batches[b][i]
      <4>1. s \in 1..MaxRuns
        BY <3>1
      <4>2. /\ s <= Len(ownership)
            /\ IF Live(s) THEN runs[s].kind = "batch" /\ runs[s].owner = batches[b][1]
               ELSE s \in deleted
        BY DEF AdmissionInv, RowsInv, BatchesHold
      <4>3. CASE s = r
        BY <4>2, <4>3, <1>1, <1>3 DEF NoRun
      <4>4. CASE s # r
        <5>1. runs'[s] = runs[s] /\ deleted \subseteq deleted'
          BY <4>1, <4>4, <1>1, <1>3
        <5> QED BY <4>2, <5>1 DEF Live
      <4> QED BY <4>3, <4>4
    <3>3. ASSUME NEW s \in 1..MaxRuns, Live(s)', runs'[s].owner = batches[b][1]
          PROVE  \E i \in DOMAIN batches[b] : batches[b][i] = s
      <4>1. s # r
        BY <3>3, <1>3
      <4>2. Live(s) /\ runs[s].owner = batches[b][1]
        BY <4>1, <3>3, <1>3
      <4> QED BY <4>2 DEF AdmissionInv, RowsInv, BatchesHold
    <3> QED BY <3>1, <3>2, <3>3
  <2> QED BY <1>1, <2>1, <2>2 DEF BatchesHold, Live
<1>8. AcceptedPinned'
  <2>1. ASSUME NEW s \in DOMAIN ownership', Live(s)', runs'[s].status \notin Terminal,
               ~Interrupted(s)'
        PROVE  runs'[s].gen \in gens' /\ <<runs'[s].owner, runs'[s].gen>> \in retained'
    <3>1. s \in DOMAIN ownership /\ s \in 1..MaxRuns
      BY <1>1, <1>2 DEF Shapes
    <3>2. s # r /\ runs'[s] = runs[s] /\ Live(s)
      BY <2>1, <3>1, <1>3
    <3> QED BY <2>1, <3>1, <3>2, <1>1 DEF AdmissionInv, RowsInv, AcceptedPinned, Interrupted
  <2> QED BY <2>1 DEF AcceptedPinned
<1>9. CountsKept'
  <2>1. ASSUME NEW s \in DOMAIN ownership
        PROVE  Occupies(s)' => ownership[s].quota # "released"
    <3>1. s \in 1..MaxRuns /\ (Occupies(s) => ownership[s].quota # "released")
      BY <1>2 DEF Shapes, AdmissionInv, RowsInv, CountsKept
    <3>2. CASE s = r
      BY <3>2, <1>1, <1>3 DEF Occupies
    <3>3. CASE s # r
      BY <3>1, <3>3, <1>1, <1>3 DEF Occupies, Live
    <3> QED BY <3>2, <3>3
  <2>2. \A d \in 1..MaxDay : DailyRunCount(d)' <= Limit
    BY <1>1 DEF DailyRunCount, AdmissionInv, RowsInv, CountsKept
  <2> QED BY <1>1, <2>1, <2>2 DEF CountsKept
<1>10. ReaderHolds' /\ RunsFit'
  <2>1. RunsFit'
    BY <1>3 DEF AdmissionInv, RowsInv, RunsFit
  <2>2. ReaderHolds'
    <3>1. reader # Idle => reader.items \in SUBSET (1..MaxRuns) /\ r \notin reader.items
      BY <1>1 DEF ItemLocked, AdmissionInv, RowsInv, ReaderHolds, Readers, Idle
    <3> QED BY <3>1, <1>1, <1>3 DEF AdmissionInv, RowsInv, ReaderHolds
  <2> QED BY <2>1, <2>2
<1>11. receipts \in [Kinds \X Requests -> ReceiptRows \cup {NoReceipt}]
  BY DEF AdmissionInv, RecordsInv, RecordShapes
<1>12. \A k \in Kinds \X Requests :
         \/ receipts'[k] = receipts[k]
         \/ receipts'[k] = NoReceipt /\ k[1] = "run" /\ receipts[k] # NoReceipt
              /\ receipts[k].runs = <<r>>
  BY <1>1, <1>11
<1>13. ApiInv'
  <2>1. ASSUME NEW q \in Api, api[q].step \in {"count", "insert"}
        PROVE  Receipt(q)' = NoReceipt /\ ~NamesCancel(q)'
    <3>1. Receipt(q) = NoReceipt /\ ~NamesCancel(q)
      BY <2>1 DEF AdmissionInv, ApiInv, RequestHeld
    <3>2. <<api[q].command.kind, api[q].req>> \in Kinds \X Requests
      BY <2>1, KeyOf DEF AdmissionInv, ApiInv
    <3> QED BY <3>1, <3>2, <1>1, <1>12 DEF Receipt, NamesCancel
  <2>2. \A d \in 1..MaxDay : /\ DailyRunCount(d)' <= DailyRunCount(d)
                             /\ DailyRunCount(d)' \in Nat /\ DailyRunCount(d) \in Nat
    <3>1. \A d : DailyRunCount(d)' = DailyRunCount(d)
      BY <1>1 DEF DailyRunCount
    <3>2. \A d : DailyRunCount(d) \in Nat
      BY <1>2, CountedFinite
    <3> QED BY <3>1, <3>2
  <2>3. day \in Nat /\ day' = day /\ UNCHANGED api
    BY <1>1 DEF AdmissionInv, RowsInv, TypeOK
  <2> QED BY <2>1, <2>2, <2>3, ApiKept DEF AdmissionInv
<1>14. RecordsInv'
  <2>1. RecordShapes'
    <3>1. receipts' = [k \in Kinds \X Requests |-> receipts'[k]]
      BY <1>1, <1>11
    <3>2. receipts' \in [Kinds \X Requests -> ReceiptRows \cup {NoReceipt}]
      BY <3>1, <1>11, <1>12
    <3> QED BY <3>2, <1>1 DEF AdmissionInv, RecordsInv, RecordShapes
  <2>2. RequestNamesOneAction'
    <3>1. \A req \in cancels : <<"batch", req>> \in Kinds \X Requests
      BY DEF AdmissionInv, RowsInv, TypeOK, Kinds
    <3> QED BY <3>1, <1>1, <1>12 DEF AdmissionInv, RecordsInv, RequestNamesOneAction
  <2>3. ASSUME NEW a \in answers PROVE NamesRuns(a)' /\ AnswerStands(a)'
    <3>1. a \in AnswerRows /\ NamesRuns(a) /\ AnswerStands(a)
      BY DEF AdmissionInv, RecordsInv, AnswersStand, RecordShapes
    <3>2. NamesRuns(a)'
      BY <3>1, <1>1 DEF NamesRuns
    <3> DEFINE k == <<a.kind, a.req>>
    <3>3. k \in Kinds \X Requests /\ k[1] = a.kind
      BY <3>1 DEF AnswerRows
    <3>4. CASE a.kind = "run" /\ a.outcome = "accepted" /\ ~Live(a.runs[1])
      <4>1. a.runs \in Seq(1..MaxRuns) /\ a.runs # <<>>
        BY <3>1, <3>4 DEF NamesRuns, AnswerRows
      <4>2. a.runs[1] \in 1..MaxRuns
        BY <4>1
      <4>3. ~Live(a.runs[1])'
        BY <4>2, <3>4, <1>3 DEF Live
      <4> QED BY <3>2, <3>4, <4>3 DEF AnswerStands
    <3>5. CASE receipts[k] = ReceiptOf(a) /\ receipts'[k] = receipts[k]
      BY <3>2, <3>5 DEF AnswerStands, ReceiptOf
    <3>6. CASE /\ receipts[k] = ReceiptOf(a) /\ k[1] = "run" /\ receipts[k].runs = <<r>>
      <4>1. a.runs = <<r>> /\ a.kind = "run"
        BY <3>1, <3>3, <3>6, NoReceiptApart
      <4>2. a.outcome = "accepted" /\ a.runs[1] = r
        BY <3>1, <4>1 DEF NamesRuns
      <4>3. ~Live(a.runs[1])'
        BY <4>2, <1>3 DEF Live
      <4> QED BY <3>2, <4>1, <4>2, <4>3 DEF AnswerStands
    <3> QED BY <3>1, <3>3, <3>4, <3>5, <3>6, <1>12 DEF AnswerStands
  <2>4. ASSUME NEW k \in Kinds \X Requests, receipts'[k] # NoReceipt
        PROVE  NamesRuns(receipts[k])'
    <3>1. receipts'[k] = receipts[k] /\ NamesRuns(receipts[k])
      BY <2>4, <1>12 DEF AdmissionInv, RecordsInv, AnswersStand
    <3> QED BY <3>1, <1>1 DEF NamesRuns
  <2>5. AnswersStand'
    BY <2>3, <2>4, <1>1 DEF AnswersStand
  <2> QED BY <2>1, <2>2, <2>5 DEF RecordsInv
<1>15. StartedRuns' /\ BatchesAgree'
  BY <1>1, <1>3 DEF AdmissionInv, RowsInv, StartedRuns, BatchesAgree, Together
<1> QED BY <1>4, <1>5, <1>6, <1>7, <1>8, <1>9, <1>10, <1>13, <1>14, <1>15 DEF AdmissionInv, RowsInv

\* The rows an admitting transaction inserts, for a worker at its last step.
Admits(p) ==
    LET n == Len(api[p].specs)
        N == Len(ownership)
        ids == FreshIds(n)
        k == api[p].command.kind
    IN  /\ N + n <= MaxRuns /\ PreparedGen(p) \in gens
        /\ runs' = [r \in 1..MaxRuns |-> runs'[r]]
        /\ \A r \in 1..MaxRuns :
             runs'[r] = IF r \in (N + 1)..(N + n)
                        THEN [status |-> "queued", kind |-> k, folder |-> api[p].command.folder,
                              spec |-> api[p].specs[r - N], gen |-> api[p].gen, owner |-> N + 1]
                        ELSE runs[r]
        /\ ownership' = ownership \o [i \in 1..n |->
                          Settle([day |-> api[p].day, quota |-> "reserved", started |-> FALSE],
                                 "queued")]
        /\ retained' = retained \cup {<<N + 1, api[p].gen>>}
        /\ batches' = IF k = "batch" THEN Append(batches, ids) ELSE batches
        /\ batchStatus' = IF k = "batch" THEN [batchStatus EXCEPT ![N + 1] = "queued"]
                          ELSE batchStatus
        /\ receipts' = [receipts EXCEPT ![<<k, api[p].req>>] =
                          [outcome |-> "accepted", command |-> api[p].command, runs |-> ids]]
        /\ Answer(p, "accepted", ids) \/ Fail(p)
        /\ UNCHANGED <<day, head, gens, folders, deleted, cancels, reader>>

\* What a worker at its last step holds.
AtInsert(p) ==
    LET n == Len(api[p].specs)
    IN  /\ api[p].step = "insert" /\ api \in [Api -> ApiRows]
        /\ api[p].command \in Commands /\ api[p].command.kind \in Kinds
        /\ api[p].req \in Requests /\ api[p].gen \in 1..Len(Generations)
        /\ api[p].specs \in Seq(Specs) /\ n \in Nat \ {0} /\ Sized(api[p]) /\ api[p].day \in 1..day
        /\ api[p].day \in 1..MaxDay /\ api[p].command.folder \in Folders
        /\ Receipt(p) = NoReceipt /\ ~NamesCancel(p)
        /\ DailyRunCount(api[p].day) + n <= Limit
        /\ \A i \in 1..n : FitsIn(api[p].specs[i], Generations[api[p].gen])
        /\ Len(ownership) \in Nat /\ DOMAIN ownership = 1..Len(ownership)
        /\ ownership \in Seq(OwnershipRows)

LEMMA InsertState ==
    ASSUME AdmissionInv, NEW p \in Api, api[p].step = "insert"
    PROVE  AtInsert(p)
<1>1. api \in [Api -> ApiRows] /\ api[p] \in Admitting
  BY ApiRowCases DEF AdmissionInv, ApiInv, ApiShapes
<1>2. /\ api[p].command \in Commands /\ api[p].command.kind \in Kinds /\ api[p].req \in Requests
  BY KeyOf DEF AdmissionInv, ApiInv
<1>3. /\ api[p].gen \in 1..Len(Generations) /\ api[p].specs \in Seq(Specs)
      /\ api[p].day \in 1..MaxDay
  BY <1>1 DEF Admitting
<1>4. /\ Len(api[p].specs) > 0 /\ Sized(api[p])
      /\ api[p].day <= day /\ api[p].command.folder \in Folders
  BY DEF AdmissionInv, ApiInv, ApiShapes, Sized
<1>5. Len(api[p].specs) \in Nat \ {0} /\ DOMAIN api[p].specs = 1..Len(api[p].specs)
  BY <1>3, <1>4
<1>6. api[p].day \in 1..day
  <2>1. day \in 1..MaxDay
    BY DEF AdmissionInv, RowsInv, TypeOK
  <2> QED BY <2>1, <1>3, <1>4
<1>7. Receipt(p) = NoReceipt /\ ~NamesCancel(p)
  BY DEF AdmissionInv, ApiInv, RequestHeld
<1>8. DailyRunCount(api[p].day) + Len(api[p].specs) <= Limit
  BY DEF AdmissionInv, ApiInv, InsertsCounted
<1>9. \A i \in 1..Len(api[p].specs) : FitsIn(api[p].specs[i], Generations[api[p].gen])
  BY <1>5 DEF AdmissionInv, ApiInv, PreparedFit
<1>10. /\ Len(ownership) \in Nat /\ DOMAIN ownership = 1..Len(ownership)
       /\ ownership \in Seq(OwnershipRows)
  BY OwnershipLength DEF AdmissionInv, RowsInv, Shapes
<1> QED BY <1>1, <1>2, <1>3, <1>4, <1>5, <1>6, <1>7, <1>8, <1>9, <1>10 DEF AtInsert

LEMMA InsertAdmits ==
    ASSUME AdmissionInv, NEW p \in Api, Insert(p), Retainable(p)
    PROVE  Admits(p)
<1> DEFINE n == Len(api[p].specs)
           N == Len(ownership)
           ids == FreshIds(n)
           k == api[p].command.kind
<1>1. n \in Nat \ {0} /\ N \in Nat /\ AtInsert(p)
  BY InsertState DEF Insert, AtInsert
<1>2. /\ DOMAIN ids = 1..n /\ \A i \in 1..n : ids[i] = N + i
      /\ ids[1] = N + 1
  BY <1>1 DEF FreshIds
<1>3. /\ runs' = [r \in 1..MaxRuns |->
                    IF \E i \in DOMAIN ids : ids[i] = r
                    THEN [status |-> "queued", kind |-> k, folder |-> api[p].command.folder,
                          spec |-> api[p].specs[CHOOSE i \in DOMAIN ids : ids[i] = r],
                          gen |-> PreparedGen(p), owner |-> ids[1]]
                    ELSE runs[r]]
      /\ ownership' = ownership \o [i \in DOMAIN ids |->
            Settle([day |-> api[p].day, quota |-> "reserved", started |-> FALSE], "queued")]
      /\ retained' = retained \cup {<<ids[1], PreparedGen(p)>>}
      /\ batches' = IF k = "batch" THEN Append(batches, ids) ELSE batches
      /\ batchStatus' = IF k = "batch" THEN [batchStatus EXCEPT ![ids[1]] = "queued"]
                        ELSE batchStatus
      /\ receipts' = [receipts EXCEPT ![<<k, api[p].req>>] =
                        [outcome |-> "accepted", command |-> api[p].command, runs |-> ids]]
      /\ (Answer(p, "accepted", ids) \/ Fail(p))
      /\ N + n <= MaxRuns /\ PreparedGen(p) \in gens
      /\ UNCHANGED <<day, head, gens, folders, deleted, cancels, reader>>
  <2>1. PICK new \in {FreshIds(Len(api[p].specs))}, kind \in {api[p].command.kind} :
          /\ runs' = [r \in 1..MaxRuns |->
                        IF \E i \in DOMAIN new : new[i] = r
                        THEN [status |-> "queued", kind |-> kind, folder |-> api[p].command.folder,
                              spec |-> api[p].specs[CHOOSE i \in DOMAIN new : new[i] = r],
                              gen |-> PreparedGen(p), owner |-> new[1]]
                        ELSE runs[r]]
          /\ ownership' = ownership \o [i \in DOMAIN new |->
                Settle([day |-> api[p].day, quota |-> "reserved", started |-> FALSE], "queued")]
          /\ retained' = retained \cup {<<new[1], PreparedGen(p)>>}
          /\ batches' = IF kind = "batch" THEN Append(batches, new) ELSE batches
          /\ batchStatus' = IF kind = "batch" THEN [batchStatus EXCEPT ![new[1]] = "queued"]
                            ELSE batchStatus
          /\ receipts' = [receipts EXCEPT ![<<kind, api[p].req>>] =
                            [outcome |-> "accepted", command |-> api[p].command, runs |-> new]]
          /\ (Answer(p, "accepted", new) \/ Fail(p))
    BY Zenon DEF Insert
  <2>2. new = ids /\ kind = k
    OBVIOUS
  <2>3. N + n <= MaxRuns /\ PreparedGen(p) \in gens
        /\ UNCHANGED <<day, head, gens, folders, deleted, cancels, reader>>
    BY DEF Insert, Retainable
  <2> HIDE DEF ids, k, N, n
  <2> QED BY <2>1, <2>2, <2>3, Zenon
<1>4. ASSUME NEW r \in 1..MaxRuns
      PROVE  runs'[r] = IF r \in (N + 1)..(N + n)
                        THEN [status |-> "queued", kind |-> k, folder |-> api[p].command.folder,
                              spec |-> api[p].specs[r - N], gen |-> api[p].gen, owner |-> N + 1]
                        ELSE runs[r]
  <2>1. (\E i \in DOMAIN ids : ids[i] = r) <=> r \in (N + 1)..(N + n)
    <3>1. ASSUME r \in (N + 1)..(N + n) PROVE r - N \in 1..n /\ ids[r - N] = r
      BY <3>1, <1>1, <1>2
    <3>2. ASSUME NEW i \in DOMAIN ids, ids[i] = r PROVE r \in (N + 1)..(N + n)
      BY <3>2, <1>1, <1>2
    <3> HIDE DEF ids
    <3> QED BY <3>1, <3>2, <1>2
  <2>2. ASSUME r \in (N + 1)..(N + n)
        PROVE  (CHOOSE i \in DOMAIN ids : ids[i] = r) = r - N
    <3>1. r - N \in DOMAIN ids /\ ids[r - N] = r
      BY <2>2, <1>1, <1>2
    <3>2. \A i \in DOMAIN ids : ids[i] = r => i = r - N
      BY <1>1, <1>2
    <3> HIDE DEF ids
    <3> QED BY <3>1, <3>2
  <2> HIDE DEF ids, N, n
  <2>3. CASE r \in (N + 1)..(N + n)
    BY <2>1, <2>2, <2>3, <1>2, <1>3 DEF PreparedGen
  <2>4. CASE r \notin (N + 1)..(N + n)
    BY <2>1, <2>4, <1>3
  <2> QED BY <2>3, <2>4
<1>5. /\ ownership' = ownership \o [i \in 1..n |->
            Settle([day |-> api[p].day, quota |-> "reserved", started |-> FALSE], "queued")]
      /\ retained' = retained \cup {<<N + 1, api[p].gen>>}
      /\ batchStatus' = IF k = "batch" THEN [batchStatus EXCEPT ![N + 1] = "queued"]
                        ELSE batchStatus
  BY <1>2, <1>3 DEF PreparedGen
<1>6. runs' = [r \in 1..MaxRuns |-> runs'[r]]
  BY <1>3
<1> HIDE DEF ids, N, n, k
<1> QED BY <1>3, <1>4, <1>5, <1>6 DEF Admits, ids, N, n, k

\* The new rows and the old ones after an admission.
Grown(p) ==
    LET n == Len(api[p].specs)
        N == Len(ownership)
    IN  /\ Len(ownership') = N + n /\ DOMAIN ownership' = 1..(N + n)
        /\ ownership' \in Seq(OwnershipRows)
        /\ \A r \in 1..N : ownership'[r] = ownership[r]
        /\ \A r \in (N + 1)..(N + n) :
             ownership'[r].day = api[p].day /\ ownership'[r].quota = "reserved"
        /\ runs' \in [1..MaxRuns -> RunRows \cup {NoRun}]
        /\ \A r \in 1..MaxRuns :
             IF r \in (N + 1)..(N + n)
             THEN /\ Live(r)' /\ runs'[r].status = "queued"
                  /\ runs'[r].kind = api[p].command.kind /\ runs'[r].gen = api[p].gen
                  /\ runs'[r].owner = N + 1 /\ FitsIn(runs'[r].spec, Generations[runs'[r].gen])
             ELSE runs'[r] = runs[r] /\ (Live(r)' <=> Live(r)) /\ (Live(r) => r \in 1..N)

LEMMA AdmitsGrown ==
    ASSUME AdmissionInv, NEW p \in Api, AtInsert(p), Admits(p)
    PROVE  Grown(p)
<1> DEFINE n == Len(api[p].specs)
           N == Len(ownership)
           fresh == Settle([day |-> api[p].day, quota |-> "reserved", started |-> FALSE], "queued")
           added == [i \in 1..n |-> fresh]
<1>1. /\ n \in Nat \ {0} /\ N \in Nat /\ N + n <= MaxRuns
      /\ ownership \in Seq(OwnershipRows)
      /\ ownership' = ownership \o added
  BY DEF AtInsert, Admits
<1>2. fresh \in OwnershipRows /\ fresh.day = api[p].day /\ fresh.quota = "reserved"
  <2>1. [day |-> api[p].day, quota |-> "reserved", started |-> FALSE] \in OwnershipRows
    BY DEF AtInsert, OwnershipRows
  <2>2. "queued" \in Unfinished
    BY DEF Unfinished
  <2> QED BY <2>1, <2>2, SettleRow
<1> HIDE DEF fresh
<1>3. added \in Seq(OwnershipRows) /\ Len(added) = n
  BY <1>1, <1>2
<1>4. /\ Len(ownership') = N + n /\ ownership' \in Seq(OwnershipRows)
      /\ \A r \in 1..N : ownership'[r] = ownership[r]
      /\ \A r \in (N + 1)..(N + n) : ownership'[r] = fresh
  <2>1. \A r \in (N + 1)..(N + n) : r - N \in 1..n
    BY <1>1
  <2> QED BY <1>1, <1>3, <2>1
<1>5. DOMAIN ownership' = 1..(N + n)
  BY <1>4
<1>6. ASSUME NEW r \in 1..MaxRuns
      PROVE  /\ runs'[r] \in RunRows \cup {NoRun}
             /\ IF r \in (N + 1)..(N + n)
                THEN /\ Live(r)' /\ runs'[r].status = "queued"
                     /\ runs'[r].kind = api[p].command.kind /\ runs'[r].gen = api[p].gen
                     /\ runs'[r].owner = N + 1 /\ FitsIn(runs'[r].spec, Generations[runs'[r].gen])
                ELSE runs'[r] = runs[r] /\ (Live(r)' <=> Live(r)) /\ (Live(r) => r \in 1..N)
  <2>1. CASE r \in (N + 1)..(N + n)
    <3> DEFINE new == [status |-> "queued", kind |-> api[p].command.kind,
                       folder |-> api[p].command.folder, spec |-> api[p].specs[r - N],
                       gen |-> api[p].gen, owner |-> N + 1]
    <3>1. runs'[r] = new
      BY <2>1 DEF Admits
    <3>2. r - N \in 1..n
      BY <2>1, <1>1
    <3>3. api[p].specs[r - N] \in Specs /\ FitsIn(api[p].specs[r - N], Generations[api[p].gen])
      <4>1. \A i \in 1..n : /\ api[p].specs[i] \in Specs
                              /\ FitsIn(api[p].specs[i], Generations[api[p].gen])
        BY DEF AtInsert
      <4> HIDE DEF n, N
      <4> QED BY <3>2, <4>1
    <3>4. new \in RunRows
      <4>1. N + 1 \in 1..MaxRuns /\ "queued" \in Unfinished \cup Terminal
        BY <1>1 DEF Unfinished
      <4> QED BY <4>1, <3>3 DEF RunRows, AtInsert
    <3>5. /\ new.status = "queued" /\ new.kind = api[p].command.kind /\ new.gen = api[p].gen
          /\ new.owner = N + 1 /\ new.spec = api[p].specs[r - N]
      OBVIOUS
    <3> HIDE DEF new
    <3> QED BY <2>1, <3>1, <3>3, <3>4, <3>5 DEF Live
  <2>2. CASE r \notin (N + 1)..(N + n)
    <3>1. runs'[r] = runs[r]
      BY <2>2 DEF Admits
    <3>2. Live(r) => r \in 1..N
      BY DEF AdmissionInv, RowsInv, Shapes
    <3>3. runs[r] \in RunRows \cup {NoRun}
      BY DEF AdmissionInv, RowsInv, Shapes
    <3> QED BY <2>2, <3>1, <3>2, <3>3 DEF Live
  <2> QED BY <2>1, <2>2
<1>7. runs' \in [1..MaxRuns -> RunRows \cup {NoRun}]
  <2>1. runs' = [r \in 1..MaxRuns |-> runs'[r]]
    BY DEF Admits
  <2> QED BY <2>1, <1>6
<1>8. \A r \in (N + 1)..(N + n) :
        ownership'[r].day = api[p].day /\ ownership'[r].quota = "reserved"
  BY <1>2, <1>4
<1> HIDE DEF n, N
<1> QED BY <1>4, <1>5, <1>6, <1>7, <1>8 DEF Grown, n, N

LEMMA AdmitsKeepsBatches ==
    ASSUME AdmissionInv, NEW p \in Api, AtInsert(p), Admits(p), Grown(p)
    PROVE  BatchesHold'
<1> DEFINE n == Len(api[p].specs)
           N == Len(ownership)
           ids == FreshIds(n)
<1>0. /\ n \in Nat \ {0} /\ N \in Nat /\ N + n <= MaxRuns /\ Len(ownership') = N + n
      /\ UNCHANGED deleted /\ batches \in Seq(Seq(1..MaxRuns))
      /\ api[p].command.kind \in {"run", "batch"}
  BY DEF AtInsert, Admits, Grown, Kinds, AdmissionInv, RowsInv, BatchesHold
<1>1. ASSUME NEW r \in 1..MaxRuns
      PROVE  IF r \in (N + 1)..(N + n)
             THEN /\ Live(r)' /\ runs'[r].kind = api[p].command.kind /\ runs'[r].owner = N + 1
             ELSE runs'[r] = runs[r] /\ (Live(r)' <=> Live(r)) /\ (Live(r) => r \in 1..N)
  BY DEF Grown
\* What BatchesHold says of the items of one batch.
<1> DEFINE Holds(items) ==
             /\ Len(items) > 0
             /\ \A i \in DOMAIN items :
                  /\ items[i] <= N + n
                  /\ IF runs'[items[i]].status # "none"
                     THEN runs'[items[i]].kind = "batch" /\ runs'[items[i]].owner = items[1]
                     ELSE items[i] \in deleted
             /\ \A r \in 1..MaxRuns : Live(r)' /\ runs'[r].owner = items[1] =>
                  \E i \in DOMAIN items : items[i] = r
<1>2. ASSUME NEW b \in DOMAIN batches PROVE Holds(batches[b])
  <2> DEFINE items == batches[b]
  <2>1. items \in Seq(1..MaxRuns) /\ Len(items) > 0 /\ DOMAIN items = 1..Len(items)
    BY <1>0 DEF AdmissionInv, RowsInv, BatchesHold
  <2>2. ASSUME NEW i \in DOMAIN items
        PROVE  /\ items[i] \in 1..MaxRuns /\ items[i] <= N
               /\ IF Live(items[i])
                  THEN runs[items[i]].kind = "batch" /\ runs[items[i]].owner = items[1]
                  ELSE items[i] \in deleted
    BY <2>1 DEF AdmissionInv, RowsInv, BatchesHold
  <2>3. ASSUME NEW i \in DOMAIN items
        PROVE  /\ items[i] <= N + n
               /\ IF runs'[items[i]].status # "none"
                  THEN runs'[items[i]].kind = "batch" /\ runs'[items[i]].owner = items[1]
                  ELSE items[i] \in deleted
    <3> DEFINE x == items[i]
    <3>1. /\ x \in 1..MaxRuns /\ x <= N
          /\ IF Live(x) THEN runs[x].kind = "batch" /\ runs[x].owner = items[1]
             ELSE x \in deleted
      BY <2>2, <2>3
    <3> HIDE DEF x
    <3>2. runs'[x] = runs[x] /\ x <= N + n
      BY <1>0, <1>1, <3>1, SMTT(30)
    <3>3. x = items[i]
      BY DEF x
    <3> QED BY <3>1, <3>2, <3>3 DEF Live
  <2>4. ASSUME NEW r \in 1..MaxRuns, Live(r)', runs'[r].owner = items[1]
        PROVE  \E i \in DOMAIN items : items[i] = r
    <3>1. items[1] \in 1..N
      BY <2>1, <2>2
    <3>2. r \notin (N + 1)..(N + n)
      BY <1>0, <1>1, <2>4, <3>1
    <3>3. Live(r) /\ runs[r].owner = items[1]
      BY <3>2, <1>1, <2>4
    <3> QED BY <3>3 DEF AdmissionInv, RowsInv, BatchesHold
  <2> QED BY <2>1, <2>3, <2>4
<1>3. /\ ids \in Seq(1..MaxRuns) /\ Len(ids) = n /\ DOMAIN ids = 1..n
      /\ \A i \in 1..n : ids[i] = N + i /\ ids[i] \in (N + 1)..(N + n) /\ ids[i] \in 1..MaxRuns
  <2>1. ids = [i \in 1..n |-> N + i]
    BY DEF FreshIds
  <2>2. \A i \in 1..n : N + i \in 1..MaxRuns /\ N + i \in (N + 1)..(N + n)
    BY <1>0
  <2> QED BY <2>1, <2>2, <1>0
<1>4. ASSUME api[p].command.kind = "batch" PROVE Holds(ids)
  <2>1. ASSUME NEW i \in DOMAIN ids
        PROVE  /\ ids[i] <= N + n
               /\ runs'[ids[i]].status # "none" /\ runs'[ids[i]].kind = "batch"
               /\ runs'[ids[i]].owner = ids[1]
    <3>1. PICK x \in (N + 1)..(N + n) : x = ids[i] /\ x \in 1..MaxRuns
      BY <1>3, <2>1
    <3>2. /\ x <= N + n /\ runs'[x].status # "none" /\ runs'[x].kind = "batch"
          /\ runs'[x].owner = N + 1
      BY <1>0, <1>1, <1>4, <3>1 DEF Live
    <3>3. ids[1] = N + 1
      <4>1. 1 \in 1..n
        BY <1>0
      <4> QED BY <4>1, <1>3
    <3> QED BY <3>1, <3>2, <3>3
  <2>2. ASSUME NEW r \in 1..MaxRuns, Live(r)', runs'[r].owner = ids[1]
        PROVE  \E i \in DOMAIN ids : ids[i] = r
    <3>1. runs'[r].owner = N + 1
      <4>1. 1 \in 1..n
        BY <1>0
      <4>2. ids[1] = N + 1
        BY <4>1, <1>3
      <4> HIDE DEF ids
      <4> QED BY <4>2, <2>2
    <3>2. r \in (N + 1)..(N + n)
      <4>1. r \notin (N + 1)..(N + n) => Live(r) /\ runs[r].owner = N + 1 /\ r \in 1..N
        BY <1>1, <2>2, <3>1
      <4>2. Live(r) => runs[r].owner \in 1..r
        BY DEF AdmissionInv, RowsInv, TypeOK
      <4> QED BY <4>1, <4>2, <1>0
    <3>3. r - N \in 1..n /\ ids[r - N] = r
      <4>1. r - N \in 1..n /\ N + (r - N) = r
        BY <3>2, <1>0
      <4> QED BY <4>1, <1>3
    <3> QED BY <3>3, <1>3
  <2> HIDE DEF ids
  <2> QED BY <1>0, <1>3, <2>1, <2>2
<1>5. /\ batches' \in Seq(Seq(1..MaxRuns))
      /\ \A b \in DOMAIN batches' : Holds(batches'[b])
  <2>1. CASE api[p].command.kind = "batch"
    <3>1. batches' = Append(batches, ids)
      BY <2>1 DEF Admits
    <3>2. /\ DOMAIN batches' = 1..(Len(batches) + 1) /\ Len(batches) \in Nat
          /\ DOMAIN batches = 1..Len(batches)
          /\ batches'[Len(batches) + 1] = ids
          /\ \A b \in 1..Len(batches) : batches'[b] = batches[b]
          /\ batches' \in Seq(Seq(1..MaxRuns))
      <4> HIDE DEF ids
      <4> QED BY <3>1, <1>0, <1>3
    <3> HIDE DEF ids, Holds
    <3>3. ASSUME NEW b \in DOMAIN batches' PROVE Holds(batches'[b])
      <4>1. CASE b = Len(batches) + 1
        BY <4>1, <3>2, <1>4, <2>1
      <4>2. CASE b # Len(batches) + 1
        <5>1. b \in 1..Len(batches)
          BY <4>2, <3>2
        <5>2. batches'[b] = batches[b] /\ b \in DOMAIN batches
          BY <5>1, <3>2
        <5> QED BY <5>2, <1>2
      <4> QED BY <4>1, <4>2
    <3> QED BY <3>2, <3>3
  <2>2. CASE api[p].command.kind # "batch"
    <3>1. batches' = batches
      BY <2>2 DEF Admits
    <3> HIDE DEF Holds
    <3> QED BY <3>1, <1>0, <1>2
  <2> QED BY <2>1, <2>2
<1> QED BY <1>0, <1>5 DEF BatchesHold, Live

LEMMA AdmitsKeepsRows ==
    ASSUME AdmissionInv, NEW p \in Api, AtInsert(p), Admits(p), Grown(p)
    PROVE  TypeOK' /\ Shapes' /\ OwnersApart' /\ BatchesHold' /\ AcceptedPinned'
           /\ StartedRuns' /\ BatchesAgree' /\ ReaderHolds' /\ RunsFit'
<1> DEFINE n == Len(api[p].specs)
           N == Len(ownership)
<1>0. /\ n \in Nat \ {0} /\ N \in Nat /\ N + n <= MaxRuns /\ DOMAIN ownership = 1..N
      /\ Len(ownership') = N + n /\ DOMAIN ownership' = 1..(N + n)
      /\ ownership' \in Seq(OwnershipRows)
      /\ UNCHANGED <<day, head, gens, folders, deleted, cancels, reader>>
  BY DEF AtInsert, Admits, Grown
<1>1. ASSUME NEW r \in 1..MaxRuns
      PROVE  IF r \in (N + 1)..(N + n)
             THEN /\ Live(r)' /\ runs'[r].status = "queued"
                  /\ runs'[r].kind = api[p].command.kind /\ runs'[r].gen = api[p].gen
                  /\ runs'[r].owner = N + 1 /\ FitsIn(runs'[r].spec, Generations[runs'[r].gen])
             ELSE runs'[r] = runs[r] /\ (Live(r)' <=> Live(r)) /\ (Live(r) => r \in 1..N)
  BY DEF Grown
<1>2. Shapes'
  <2>1. \A r \in 1..MaxRuns : Live(r)' => r <= N + n
    BY <1>0, <1>1
  <2> QED BY <2>1, <1>0 DEF Grown, Shapes
<1>3. TypeOK'
  <2>1. retained' \subseteq (1..MaxRuns) \X (1..Len(Generations))
    <3>1. N + 1 \in 1..MaxRuns /\ api[p].gen \in 1..Len(Generations)
      BY <1>0 DEF AtInsert
    <3> QED BY <3>1, SMTT(30) DEF Admits, AdmissionInv, RowsInv, TypeOK
  <2>2. ASSUME NEW r \in DOMAIN ownership'
        PROVE  /\ ownership'[r].day \in 1..day'
               /\ ownership'[r].quota \in {"reserved", "consumed", "released"}
    <3>1. ownership'[r] \in OwnershipRows
      BY <1>0
    <3>2. ownership'[r].day \in 1..day
      <4>1. CASE r \in 1..N
        BY <4>1, <1>0 DEF Grown, AdmissionInv, RowsInv, TypeOK
      <4>2. CASE r \in (N + 1)..(N + n)
        BY <4>2 DEF Grown, AtInsert
      <4> QED BY <4>1, <4>2, <1>0
    <3> QED BY <3>1, <3>2, <1>0 DEF OwnershipRows
  <2>3. ASSUME NEW r \in 1..MaxRuns, Live(r)'
        PROVE  r \in DOMAIN ownership' /\ runs'[r].owner \in 1..r
    <3>1. CASE r \in (N + 1)..(N + n)
      <4>1. runs'[r].owner = N + 1
        BY <1>1, <3>1
      <4> QED BY <4>1, <3>1, <1>0
    <3>2. CASE r \notin (N + 1)..(N + n)
      <4>1. runs'[r] = runs[r] /\ Live(r) /\ r \in 1..N
        BY <1>1, <2>3, <3>2
      <4> QED BY <4>1, <1>0 DEF AdmissionInv, RowsInv, TypeOK
    <3> QED BY <3>1, <3>2
  <2>4. deleted' \subseteq DOMAIN ownership' /\ Len(ownership') <= MaxRuns
    BY <1>0 DEF AdmissionInv, RowsInv, TypeOK
  <2>5. batchStatus' \in [1..MaxRuns -> BatchStatuses]
    <3>1. "queued" \in BatchStatuses
      BY DEF BatchStatuses
    <3> QED BY <3>1, RetainedTypes DEF Admits
  <2> QED BY <2>1, <2>2, <2>3, <2>4, <2>5, <1>0 DEF AdmissionInv, RowsInv, TypeOK
<1>4. OwnersApart'
  <2>1. ASSUME NEW r \in 1..MaxRuns, Live(r)'
        PROVE  runs'[r].owner <= r /\ (runs'[r].kind = "run" => runs'[r].owner = r)
    <3>1. CASE r \in (N + 1)..(N + n)
      <4>1. runs'[r].owner = N + 1 /\ runs'[r].kind = api[p].command.kind
        BY <1>1, <3>1
      <4>2. api[p].command.kind = "run" => n = 1
        BY DEF AtInsert, Sized
      <4> HIDE DEF n, N
      <4>3. n = 1 => r = N + 1
        BY <3>1, <1>0
      <4>4. N + 1 <= r /\ r \in Nat
        BY <3>1, <1>0
      <4> QED BY <4>1, <4>2, <4>3, <4>4
    <3>2. CASE r \notin (N + 1)..(N + n)
      BY <1>1, <2>1, <3>2 DEF AdmissionInv, RowsInv, OwnersApart
    <3> QED BY <3>1, <3>2
  <2>2. ASSUME NEW r \in 1..MaxRuns, NEW s \in 1..MaxRuns, Live(r)', Live(s)',
               runs'[r].owner = runs'[s].owner
        PROVE  runs'[r].kind = runs'[s].kind /\ runs'[r].gen = runs'[s].gen
    <3>1. ASSUME NEW t \in 1..MaxRuns, Live(t)'
          PROVE  IF t \in (N + 1)..(N + n) THEN runs'[t].owner = N + 1
                 ELSE Live(t) /\ runs'[t] = runs[t] /\ runs[t].owner <= N
      <4>1. CASE t \in (N + 1)..(N + n)
        BY <4>1, <1>1
      <4>2. CASE t \notin (N + 1)..(N + n)
        <5>1. Live(t) /\ runs'[t] = runs[t] /\ t \in 1..N
          BY <1>1, <3>1, <4>2
        <5>2. runs[t].owner \in 1..t
          BY <5>1 DEF AdmissionInv, RowsInv, TypeOK
        <5> QED BY <5>1, <5>2, <4>2, <1>0
      <4> QED BY <4>1, <4>2
    <3>2. CASE r \in (N + 1)..(N + n)
      <4>1. runs'[s].owner = N + 1
        BY <3>1, <3>2, <2>2
      <4>2. s \in (N + 1)..(N + n)
        BY <4>1, <3>1, <2>2, <1>0
      <4> QED BY <4>2, <3>2, <1>1
    <3>3. CASE r \notin (N + 1)..(N + n)
      <4>1. Live(r) /\ runs'[r] = runs[r] /\ runs'[r].owner <= N
        BY <3>1, <3>3, <2>2
      <4>2. s \notin (N + 1)..(N + n)
        BY <4>1, <3>1, <2>2, <1>0
      <4>3. Live(s) /\ runs'[s] = runs[s]
        BY <4>2, <3>1, <2>2
      <4> QED BY <4>1, <4>3, <2>2 DEF AdmissionInv, RowsInv, OwnersApart
    <3> QED BY <3>2, <3>3
  <2> QED BY <2>1, <2>2 DEF OwnersApart
<1>5. AcceptedPinned'
  <2>1. ASSUME NEW r \in DOMAIN ownership', Live(r)', runs'[r].status \notin Terminal,
               ~Interrupted(r)'
        PROVE  runs'[r].gen \in gens' /\ <<runs'[r].owner, runs'[r].gen>> \in retained'
    <3>1. r \in 1..MaxRuns
      BY <1>0
    <3>2. CASE r \in (N + 1)..(N + n)
      BY <3>1, <3>2, <1>1 DEF Admits, PreparedGen
    <3>3. CASE r \notin (N + 1)..(N + n)
      <4>1. runs'[r] = runs[r] /\ Live(r) /\ ownership'[r] = ownership[r]
        BY <3>1, <3>3, <1>1, <2>1 DEF Grown
      <4> QED BY <4>1, <3>1, <2>1, Pinned DEF Admits, Interrupted
    <3> QED BY <3>2, <3>3
  <2> QED BY <2>1 DEF AcceptedPinned
<1>6. RunsFit'
  BY <1>1 DEF RunsFit, AdmissionInv, RowsInv
<1>7. ReaderHolds'
  <2>1. reader # Idle => reader.items \in SUBSET (1..MaxRuns) /\ \A r \in reader.items : Live(r)
    BY DEF AdmissionInv, RowsInv, ReaderHolds, Readers, Idle
  <2>2. \A r \in 1..MaxRuns : Live(r) => Live(r)'
    BY <1>1
  <2> QED BY <2>1, <2>2, <1>0 DEF AdmissionInv, RowsInv, ReaderHolds
<1>8. BatchesHold'
  BY AdmitsKeepsBatches
<1>9. StartedRuns'
  <2>1. ASSUME NEW r \in 1..MaxRuns, Live(r)', runs'[r].status \in {"running", "cancelling"}
        PROVE  ownership'[r].started
    <3>1. r \notin (N + 1)..(N + n)
      BY <1>1, <2>1
    <3>2. runs'[r] = runs[r] /\ Live(r) /\ ownership'[r] = ownership[r]
      BY <1>1, <2>1, <3>1 DEF Grown
    <3> QED BY <2>1, <3>2 DEF AdmissionInv, RowsInv, StartedRuns
  <2> QED BY <2>1 DEF StartedRuns
<1>10. BatchesAgree'
  <2>1. ASSUME NEW r \in 1..MaxRuns, Live(r)', runs'[r].kind = "batch",
               runs'[r].status \notin Terminal
        PROVE  Together(r)'
    <3>1. N + 1 \in 1..MaxRuns
      BY <1>0
    <3>2. CASE r \in (N + 1)..(N + n)
      <4>1. runs'[r].status = "queued" /\ runs'[r].owner = N + 1 /\ api[p].command.kind = "batch"
        BY <1>1, <2>1, <3>2
      <4>2. batchStatus'[N + 1] = "queued"
        BY <3>1, <4>1, RetainedTypes DEF Admits
      <4> QED BY <4>1, <4>2 DEF Together
    <3>3. CASE r \notin (N + 1)..(N + n)
      <4>1. runs'[r] = runs[r] /\ Live(r) /\ r \in 1..N
        BY <1>1, <2>1, <3>3
      <4>2. runs[r].owner \in 1..N
        <5>1. runs[r].owner \in 1..r
          BY <4>1 DEF AdmissionInv, RowsInv, TypeOK
        <5> QED BY <5>1, <4>1, <1>0
      <4>3. batchStatus'[runs[r].owner] = batchStatus[runs[r].owner]
        <5>1. runs[r].owner # N + 1 /\ runs[r].owner \in 1..MaxRuns
          BY <4>2, <1>0
        <5> QED BY <5>1, RetainedTypes DEF Admits
      <4> QED BY <2>1, <4>1, <4>3 DEF AdmissionInv, RowsInv, BatchesAgree, Together
    <3> QED BY <3>2, <3>3
  <2> QED BY <2>1 DEF BatchesAgree
<1> QED BY <1>2, <1>3, <1>4, <1>5, <1>6, <1>7, <1>8, <1>9, <1>10

LEMMA AdmitsKeepsCounts ==
    ASSUME AdmissionInv, NEW p \in Api, AtInsert(p), Admits(p), Grown(p)
    PROVE  CountsKept'
<1> DEFINE n == Len(api[p].specs)
           N == Len(ownership)
           new == (N + 1)..(N + n)
<1>0. /\ n \in Nat \ {0} /\ N \in Nat /\ DOMAIN ownership = 1..N
      /\ DOMAIN ownership' = 1..(N + n) /\ N + n <= MaxRuns
      /\ \A r \in 1..N : ownership'[r] = ownership[r]
      /\ \A r \in new : ownership'[r].day = api[p].day /\ ownership'[r].quota = "reserved"
  <2>1. N + n <= MaxRuns
    BY DEF Admits
  <2> QED BY <2>1 DEF Grown, AtInsert
<1>1. IsFiniteSet(new) /\ Cardinality(new) = n
  <2>1. N + 1 \in Int /\ N + n \in Int /\ ~(N + 1 > N + n)
        /\ (N + n) - (N + 1) + 1 = n
    BY <1>0
  <2> QED BY <2>1, FS_Interval
<1>2. ASSUME NEW d \in 1..MaxDay PROVE DailyRunCount(d)' <= Limit
  <2>1. DailyRunCount(d)' = Cardinality(Counted(d)')
    BY DEF DailyRunCount, Counted
  <2>2. DailyRunCount(d) <= Limit /\ DailyRunCount(d) \in Nat
        /\ IsFiniteSet(Counted(d)) /\ DailyRunCount(d) = Cardinality(Counted(d))
    BY CountedFinite DEF AdmissionInv, RowsInv, CountsKept
  <2>3. CASE d = api[p].day
    <3>1. Counted(d)' \in SUBSET (Counted(d) \cup new)
      BY <1>0 DEF Counted
    <3>2. /\ IsFiniteSet(Counted(d) \cup new) /\ IsFiniteSet(Counted(d) \cap new)
          /\ Cardinality(Counted(d) \cup new) =
               Cardinality(Counted(d)) + Cardinality(new) - Cardinality(Counted(d) \cap new)
      <4>1. Counted(d) \cap new \in SUBSET new
        OBVIOUS
      <4> HIDE DEF new
      <4> QED BY <4>1, <1>1, <2>2, FS_Union, FS_Subset
    <3>3. Cardinality(Counted(d) \cap new) \in Nat
      BY <3>2, FS_CardinalityType
    <3>4. Cardinality(Counted(d)') <= Cardinality(Counted(d) \cup new)
          /\ IsFiniteSet(Counted(d)')
      BY <3>1, <3>2, FS_Subset
    <3>5. Cardinality(Counted(d)') \in Nat /\ Cardinality(Counted(d) \cup new) \in Nat
      BY <3>2, <3>4, FS_CardinalityType
    <3>6. DailyRunCount(d) + n <= Limit
      BY <2>3 DEF AtInsert
    <3> HIDE DEF new, n, N
    <3> QED BY <2>1, <2>2, <3>2, <3>3, <3>4, <3>5, <3>6, <1>0, <1>1
  <2>4. CASE d # api[p].day
    <3>1. Counted(d)' = Counted(d)
      BY <1>0, <2>4 DEF Counted
    <3> QED BY <2>1, <2>2, <3>1
  <2> QED BY <2>3, <2>4
<1>3. ASSUME NEW r \in DOMAIN ownership', Occupies(r)'
      PROVE  ownership'[r].quota # "released"
  <2>1. CASE r \in new
    BY <2>1, <1>0
  <2>2. CASE r \notin new
    <3>1. r \in 1..N /\ ownership'[r] = ownership[r] /\ r \in 1..MaxRuns
      BY <2>2, <1>0
    <3>2. runs'[r] = runs[r]
      BY <2>2, <3>1 DEF Grown
    <3>3. Occupies(r)
      BY <1>3, <3>1, <3>2 DEF Occupies, Live
    <3> QED BY <3>1, <3>3, <1>0 DEF AdmissionInv, RowsInv, CountsKept
  <2> QED BY <2>1, <2>2
<1> QED BY <1>2, <1>3 DEF CountsKept

LEMMA InsertKeeps ==
    ASSUME AdmissionInv, NEW p \in Api, Insert(p)
    PROVE  AdmissionInv'
<1>1. CASE ~Retainable(p)
  <2>1. Quiet /\ UNCHANGED receipts /\ Fail(p)
    BY <1>1 DEF Insert, Quiet, RowVars
  <2> QED BY <2>1, FailKeeps
<1>2. CASE Retainable(p)
  <2> DEFINE n == Len(api[p].specs)
             N == Len(ownership)
             ids == FreshIds(n)
             k == <<api[p].command.kind, api[p].req>>
             x == [outcome |-> "accepted", command |-> api[p].command, runs |-> ids]
  <2>1. AtInsert(p) /\ Admits(p) /\ Grown(p)
    BY <1>2, InsertState, InsertAdmits, AdmitsGrown DEF Insert
  <2>2. RowsInv'
    BY <2>1, AdmitsKeepsRows, AdmitsKeepsCounts DEF RowsInv
  <2>3. /\ receipts' = [receipts EXCEPT ![k] = x]
        /\ Answer(p, "accepted", ids) \/ Fail(p)
        /\ UNCHANGED <<day, cancels>>
    BY <2>1 DEF Admits
  <2>4. /\ n \in Nat \ {0} /\ N \in Nat /\ N + n <= MaxRuns /\ Len(ownership') = N + n
        /\ k \in Kinds \X Requests /\ receipts[k] = NoReceipt
        /\ (k[1] = "batch" => k[2] \notin cancels)
        /\ api \in [Api -> ApiRows] /\ api[p].command \in Commands
        /\ api[p].command.kind \in Kinds /\ api[p].req \in Requests
    BY <2>1 DEF AtInsert, Admits, Grown, Receipt, NamesCancel
  <2>5. receipts \in [Kinds \X Requests -> ReceiptRows \cup {NoReceipt}]
    BY DEF AdmissionInv, RecordsInv, RecordShapes
  <2>6. api' = [api EXCEPT ![p] = Idle]
    BY <2>3 DEF Answer, Fail
  <2>7. ApiInv'
    <3>1. /\ api' \in [Api -> ApiRows] /\ api'[p] = Idle /\ Idle.step = "idle"
          /\ \A q \in Api \ {p} : api'[q] = api[q]
      BY <2>4, <2>6 DEF ApiRows, Idle
    <3>2. ASSUME NEW q \in Api, api'[q].step \in {"begin", "count", "insert"}
          PROVE  q # p /\ api'[q] = api[q]
      BY <3>1, <3>2
    <3>3. ApiShapes'
      BY <2>3, <3>1, <3>2 DEF AdmissionInv, ApiInv, ApiShapes
    <3>4. \A q \in Api : api'[q].step # "insert"
      BY <2>1, <3>2 DEF AtInsert, AdmissionInv, ApiInv, InsertsCounted
    <3>5. InsertsCounted'
      BY <3>4 DEF InsertsCounted
    <3>6. ASSUME NEW q \in Api, api'[q].step \in {"count", "insert"}
          PROVE  Receipt(q)' = NoReceipt /\ ~NamesCancel(q)'
      <4>1. q # p /\ api'[q] = api[q]
        BY <3>2, <3>6
      <4>2. Receipt(q) = NoReceipt /\ ~NamesCancel(q)
        BY <3>6, <4>1 DEF AdmissionInv, ApiInv, RequestHeld
      <4>3. <<api[q].command.kind, api[q].req>> # k
        BY <2>1, <3>6, <4>1 DEF AtInsert, AdmissionInv, ApiInv, RequestHeld
      <4>4. <<api[q].command.kind, api[q].req>> \in Kinds \X Requests
        BY <3>6, <4>1, KeyOf DEF AdmissionInv, ApiInv
      <4> HIDE DEF x, k
      <4> QED BY <4>1, <4>2, <4>3, <4>4, <2>3, <2>5 DEF Receipt, NamesCancel
    <3>7. RequestHeld'
      BY <3>2, <3>6 DEF AdmissionInv, ApiInv, RequestHeld
    <3>8. PreparedFit'
      BY <3>2 DEF AdmissionInv, ApiInv, PreparedFit
    <3> QED BY <3>3, <3>5, <3>7, <3>8 DEF ApiInv
  <2>8. /\ ids \in Seq(1..MaxRuns) /\ ids # <<>> /\ ids[1] = N + 1
    <3>1. ids = [i \in 1..n |-> N + i] /\ \A i \in 1..n : N + i \in 1..MaxRuns
      BY <2>4 DEF FreshIds
    <3> QED BY <3>1, <2>4
  <2>9. x \in ReceiptRows /\ x.outcome = "accepted" /\ x.runs = ids /\ x.command = api[p].command
    BY <2>4, <2>8 DEF ReceiptRows, Outcomes
  <2>10. answers' \subseteq answers \cup Told(k, x)
    <3> DEFINE a == [kind |-> api[p].command.kind, req |-> api[p].req,
                     command |-> api[p].command, outcome |-> "accepted", runs |-> ids]
    <3>1. answers' \subseteq answers \cup {a}
      BY <2>3 DEF Answer, Fail
    <3>2. a \in AnswerRows /\ <<a.kind, a.req>> = k /\ ReceiptOf(a) = x
      BY <2>4, <2>8 DEF AnswerRows, Outcomes, ReceiptOf
    <3> HIDE DEF a, x, k
    <3> QED BY <3>1, <3>2 DEF Told
  <2>11. ASSUME NEW r \in 1..Len(ownership), ~Live(r) PROVE ~Live(r)'
    <3>1. r \in 1..MaxRuns /\ r \notin (N + 1)..(N + n)
      BY <2>4
    <3> QED BY <2>1, <2>11, <3>1 DEF Grown
  <2>12. RecordsInv'
    <3>1. RecordsInv /\ Shapes /\ UNCHANGED cancels
      BY <2>3 DEF AdmissionInv, RowsInv
    <3>2. Len(ownership') \in Nat /\ Len(ownership) <= Len(ownership')
          /\ x.runs[1] <= Len(ownership')
      BY <2>4, <2>8, <2>9
    <3> HIDE DEF x, k, ids, n, N
    <3>3. x \in ReceiptRows \cup {NoReceipt}
      BY <2>9
    <3>4. IF x.outcome = "accepted" THEN x.runs # <<>> /\ x.runs[1] <= Len(ownership')
          ELSE x.runs = <<>>
      BY <2>8, <2>9, <3>2
    <3> QED BY <2>3, <2>4, <2>10, <2>11, <3>1, <3>2, <3>3, <3>4, RecordsAdvance DEF N
  <2> QED BY <2>2, <2>7, <2>12 DEF AdmissionInv
<1> QED BY <1>1, <1>2

-----------------------------------------------------------------------------
(* The theorems *)

LEMMA InitInv == Init => AdmissionInv
<1> SUFFICES ASSUME Init PROVE AdmissionInv
  OBVIOUS
<1> USE DEF Init
<1>1. /\ ownership = <<>> /\ Len(ownership) = 0 /\ DOMAIN ownership = {}
      /\ \A r \in 1..MaxRuns : ~Live(r)
      /\ <<>> \in Seq(OwnershipRows) /\ <<>> \in Seq(Seq(1..MaxRuns))
  BY DEF Live, NoRun
<1>2. \A p \in Api : api[p] = Idle /\ api[p].step = "idle"
  BY DEF Idle
<1>3. \A d : DailyRunCount(d) = 0
  <2>1. \A d : {r \in DOMAIN ownership :
                  ownership[r].day = d /\ ownership[r].quota # "released"} = {}
    BY <1>1
  <2> QED BY <2>1, FS_EmptySet DEF DailyRunCount
<1>4. TypeOK
  <2>1. Len(Generations) \in Nat
    BY GenerationsAssumption
  <2> QED BY <1>1, <2>1 DEF TypeOK, BatchStatuses
<1>5. Shapes /\ OwnersApart /\ AcceptedPinned /\ RunsFit /\ StartedRuns /\ BatchesAgree
  <2>1. Shapes
    BY <1>1 DEF Shapes
  <2>2. OwnersApart /\ RunsFit
    BY <1>1 DEF OwnersApart, RunsFit
  <2>3. AcceptedPinned /\ StartedRuns /\ BatchesAgree
    BY <1>1 DEF AcceptedPinned, StartedRuns, BatchesAgree
  <2> QED BY <2>1, <2>2, <2>3
<1>6. BatchesHold
  BY <1>1 DEF BatchesHold
<1>7. CountsKept /\ ReaderHolds
  BY <1>1, <1>3 DEF CountsKept, ReaderHolds, Readers
<1>8. ApiInv
  <2>1. api \in [Api -> ApiRows]
    BY DEF ApiRows
  <2> QED BY <1>2, <2>1 DEF ApiInv, ApiShapes, InsertsCounted, RequestHeld, PreparedFit
<1>9. RecordsInv
  BY DEF RecordsInv, RecordShapes, AnswersStand, RequestNamesOneAction
<1> QED BY <1>4, <1>5, <1>6, <1>7, <1>8, <1>9 DEF AdmissionInv, RowsInv

LEMMA NextInv == AdmissionInv /\ [Next]_vars => AdmissionInv'
<1> SUFFICES ASSUME AdmissionInv, [Next]_vars PROVE AdmissionInv'
  OBVIOUS
<1>1. CASE \E p \in Api : Step(p) \/ Unavailable(p)
  BY <1>1, FirstReceiptKeeps, PrepareKeeps, BeginAdmitKeeps, CountKeeps, InsertKeeps,
     RejectKeeps, UnavailableKeeps DEF Step
<1>2. CASE \E p \in Api, req \in Requests, c \in Commands : Submit(p, req, c)
  BY <1>2, SubmitKeeps
<1>3. CASE \E r \in 1..MaxRuns : \/ ClaimRun(r) \/ CancelRun(r) \/ DeleteRun(r)
                                  \/ \E s \in Terminal : FinishRun(r, s)
  BY <1>3, RunStepsKeep, DeleteRunKeeps
<1>4. CASE \E b \in 1..MaxRuns : \/ ClaimBatch(b) \/ CloseBatch(b) \/ StopBatch(b)
                                  \/ \E r \in 1..MaxRuns, s \in Terminal : FinishItem(b, r, s)
  BY <1>4, ClaimBatchKeeps, CloseBatchKeeps, StopBatchKeeps, FinishItemKeeps
<1>5. CASE \E r \in 1..MaxRuns, f \in UserFolders : Organize(r, f)
  BY <1>5, OrganizeKeeps
<1>6. CASE \E b \in 1..MaxRuns, req \in Requests : CancelBatch(b, req)
  BY <1>6, CancelBatchKeeps
<1>7. CASE Surroundings
  BY <1>7, SurroundingsKeep
<1>8. CASE UNCHANGED vars
  <2>1. Quiet /\ UNCHANGED <<receipts, answers, api, runs, ownership, cancels, day>>
    BY <1>8 DEF vars, Quiet, RowVars
  <2>2. day' \in Nat /\ day <= day'
    BY <2>1 DEF AdmissionInv, RowsInv, TypeOK
  <2>3. RowsInv'
    BY <2>1, RowsUnchanged DEF AdmissionInv, Quiet
  <2> QED BY <2>1, <2>2, <2>3, RunsSameKeepRest DEF AdmissionInv
<1>9. CASE Next
  BY <1>1, <1>2, <1>3, <1>4, <1>5, <1>6, <1>7, <1>9 DEF Next, Surroundings
<1> QED BY <1>8, <1>9

\* The inductive invariant of admission: the rows, what workers hold between their
\* transactions, and what receipts and answers say of them.
THEOREM AdmissionInvariant == Spec => []AdmissionInv
BY InitInv, NextInv, PTL DEF Spec

\* TypeOK: the shapes of the rows the transactions write.
THEOREM AdmissionTypes == Spec => []TypeOK
<1>1. AdmissionInv => TypeOK
  BY DEF AdmissionInv, RowsInv
<1> QED BY <1>1, AdmissionInvariant, PTL

\* retain, the claims and the collector: the Generation frozen into a run that runs, or
\* that waits and is not part of an interrupted batch, still exists and is kept for its
\* owner, whatever else is finished, closed, cancelled or collected meanwhile.
THEOREM RunsKeepTheirGeneration == Spec => []AcceptedPinned
<1>1. AdmissionInv => AcceptedPinned
  BY DEF AdmissionInv, RowsInv
<1> QED BY <1>1, AdmissionInvariant, PTL

\* daily_run_count under the quota lock and the settle_run_quota trigger: the runs that use
\* a day's quota never exceed the limit, for any number of workers and batches of any size.
THEOREM QuotaHolds == Spec => []QuotaHeld
<1>1. AdmissionInv => QuotaHeld
  <2> SUFFICES ASSUME AdmissionInv, NEW d \in 1..MaxDay
               PROVE  Cardinality({r \in DOMAIN ownership :
                                     ownership[r].day = d /\ Occupies(r)}) <= Limit
    BY DEF QuotaHeld
  <2> DEFINE S == {r \in DOMAIN ownership : ownership[r].day = d /\ Occupies(r)}
  <2>1. S \in SUBSET Counted(d)
    BY DEF Counted, AdmissionInv, RowsInv, CountsKept
  <2>2. IsFiniteSet(S) /\ Cardinality(S) <= DailyRunCount(d) /\ DailyRunCount(d) \in Nat
    BY <2>1, CountedFinite DEF AdmissionInv, RowsInv
  <2>3. DailyRunCount(d) <= Limit
    BY DEF AdmissionInv, RowsInv, CountsKept
  <2>4. Cardinality(S) \in Nat
    BY <2>2, FS_CardinalityType
  <2> HIDE DEF S
  <2>5. Cardinality(S) <= Limit
    BY <2>2, <2>3, <2>4
  <2> QED BY <2>5 DEF S
<1> QED BY <1>1, AdmissionInvariant, PTL

\* _admission_outcome: equal requests are told equal outcomes, unless the run was deleted.
THEOREM EqualRequestsEqualAnswers == Spec => []AnswersAgree
<1>1. AdmissionInv => AnswersAgree
  <2> SUFFICES ASSUME AdmissionInv, NEW a \in answers, NEW b \in answers,
                      a.kind = b.kind, a.req = b.req, a.command = b.command
               PROVE  \/ a.outcome = b.outcome /\ a.runs = b.runs
                      \/ \E x \in {a, b} : x.kind = "run" /\ x.outcome = "accepted"
                                           /\ ~Live(x.runs[1])
    BY DEF AnswersAgree
  <2>1. AnswerStands(a) /\ AnswerStands(b) /\ a \in AnswerRows /\ b \in AnswerRows
    BY DEF AdmissionInv, RecordsInv, AnswersStand, RecordShapes
  <2>2. CASE ReceiptOf(a) = ReceiptOf(b)
    BY <2>1, <2>2, NoReceiptApart
  <2>3. CASE ReceiptOf(a) # ReceiptOf(b)
    BY <2>1, <2>3 DEF AnswerStands
  <2> QED BY <2>2, <2>3
<1> QED BY <1>1, AdmissionInvariant, PTL

\* admit_with_outcome: an accepted run's specification fits the Generation frozen with it.
THEOREM AcceptedRunsFit == Spec => []FrozenGenerationFits
<1>1. AdmissionInv => FrozenGenerationFits
  <2> SUFFICES ASSUME AdmissionInv, NEW r \in DOMAIN ownership, Live(r)
               PROVE  FitsIn(runs[r].spec, Generations[runs[r].gen])
    BY DEF FrozenGenerationFits, FitsIn
  <2>1. r \in 1..MaxRuns
    BY OwnershipLength DEF AdmissionInv, RowsInv, Shapes
  <2> QED BY <2>1 DEF AdmissionInv, RowsInv, RunsFit
<1> QED BY <1>1, AdmissionInvariant, PTL

\* The batch receipts: no request id names both an admission and a cancellation.
THEOREM RequestsNameOneAction == Spec => []RequestNamesOneAction
<1>1. AdmissionInv => RequestNamesOneAction
  BY DEF AdmissionInv, RecordsInv
<1> QED BY <1>1, AdmissionInvariant, PTL

\* _detail_in_transaction: no detail finds a run gone whose item it read as not deleted.
THEOREM DetailsAreWhole == Spec => []NoTornDetail
<1>1. AdmissionInv => NoTornDetail
  BY DEF AdmissionInv, RowsInv, ReaderHolds, NoTornDetail, ProjectionIncomplete
<1> QED BY <1>1, AdmissionInvariant, PTL

\* What clients are told is true and stays true: equal requests get equal answers, a
\* request id means one thing, a detail shows whole batches.
THEOREM AnswersAreSound == Spec => []AnswersSound
BY EqualRequestsEqualAnswers, RequestsNameOneAction, DetailsAreWhole, PTL DEF AnswersSound

\* What was accepted can be run as accepted: within the quota of its day, on a Generation
\* it fits, which is kept for it until an attempt of its batch is interrupted.
THEOREM AcceptedRunsAreSound == Spec => []AcceptedSound
BY QuotaHolds, AcceptedRunsFit, RunsKeepTheirGeneration, PTL DEF AcceptedSound

=============================================================================
