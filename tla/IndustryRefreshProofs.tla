------------------------ MODULE IndustryRefreshProofs ------------------------
(***************************************************************************)
(* Proofs about IndustryRefresh, for any number of operations, Workers,    *)
(* attempts, tries and faults.                                             *)
(*                                                                         *)
(* The invariant has three parts.  WorksInv: what a Worker read earlier    *)
(* and still acts on.  RecsInv: what a receipt says by itself.  LocksInv:  *)
(* what the holder of a key's lock may rely on, as long as no lock session *)
(* is lost: nobody else writes the receipt's state, candidate, prior data  *)
(* and composed Generation, and the Head never carries the key's           *)
(* coordinate without the receipt's candidate.                             *)
(*                                                                         *)
(* A step of one Worker is checked against all others once, by a relation  *)
(* on receipts: RecStep is what every step does to a receipt, Soft what a  *)
(* step without the key's lock does.                                       *)
(***************************************************************************)
EXTENDS IndustryRefresh, TLAPS

USE BoundsAssumption, NoneAssumption

\* Where no claim is held, where no key is named, where the Worker may be a
\* reconciliation or a claim.
Unclaimed == {"idle", "pointer", "received", "reconciled", "recovered"}
Keyless == {"idle", "pointer", "reconciled", "recovered"}
AnyClaim == {"receipt", "matched"}
\* Where the receipt exists, and where a Generation is composed.
Started == Publishing \cup {"collect", "collecting", "built"}
Composing == {"composed", "recorded", "protected", "switched"}

\* What a process d knows of itself and of the receipts rs.
WorkOK(d, rs) ==
    /\ d.pc \in Unclaimed => d.att = 0
    /\ d.pc \notin Unclaimed \cup AnyClaim => d.att # 0
    /\ d.pc \notin Keyless => d.key \in Keys
    /\ d.pc \in {"pointer", "insert"} \cup Composing => d.cur # None
    /\ d.pc \in {"moving", "receipt", "matched", "unlike"} => d.gen # None
    /\ d.pc = "moving" => d.gen.coord = d.key
    /\ d.pc \in {"received", "complete"} => d.gen # None /\ rs[d.key].pub = d.gen
    /\ d.pc \in Started => rs[d.key].st # "none"
    /\ d.att # 0 /\ d.pc \in Publishing \cup {"built"} => d.cand # None
    /\ d.pc \in Composing =>
          /\ d.cur.ind = rs[d.key].prior
          /\ d.comp = [n |-> d.cur.n + 1, by |-> <<d.key, d.att, d.i>>, ind |-> d.cand,
                       coord |-> d.key]

\* What the receipt r of k says by itself.
RecOK(k, r) ==
    /\ r.st = "none" => r = NoRec
    /\ r.st # "none" => r.prior # None
    /\ r.st = "succeeded" => r.cand # None
    /\ r.pub # None => r.st = "succeeded"
    /\ r.comp # None => r.comp.coord = k

\* Where a claim holds its key's lock.
LockedPublishing == Publishing \ {"complete"}
Locked == {"enter", "insert", "collect", "collecting", "built"} \cup LockedPublishing

\* What Worker w, holding its key's lock, knows of receipts rs and Head h.
ClaimHolds(w, d, rs, h, kl) ==
    d.att # 0 =>
      /\ d.pc \in Locked => kl[d.key] = w
      /\ d.pc \in LockedPublishing => rs[d.key].st = "succeeded" /\ rs[d.key].cand = d.cand
      /\ d.pc \in {"recorded", "protected", "switched"} => rs[d.key].comp = d.comp
      /\ d.pc \in {"try", "composed", "recorded", "protected", "conflicted"} =>
            d.cand # rs[d.key].prior /\ h.coord # d.key
      /\ d.pc = "switched" => d.cand # rs[d.key].prior
      /\ d.pc = "unchanged" => d.cand = rs[d.key].prior
      /\ d.pc = "mismatch" => h.coord # d.key
      /\ d.pc = "matched" =>
            IF d.cand # rs[d.key].prior THEN d.gen.coord = d.key ELSE d.gen.ind = d.cand
      /\ d.pc # "unlike"

\* A reconciliation settles a Generation that carries the coordinate, or one
\* the receipt names already.
SettlerHolds(d, rs) ==
    d.att = 0 /\ d.pc \in {"receipt", "matched"} => d.gen.coord = d.key \/ rs[d.key].pub # None

\* A Head with the coordinate of k carries what the receipt of k says; so does
\* a publication without the coordinate.
HeadFits(k, r, h) ==
    h.coord = k => r.st = "succeeded" /\ r.cand = h.ind /\ r.cand # r.prior

PubFits(k, r) == r.pub # None => r.pub.coord = k \/ r.pub.ind = r.cand

WorksInv == \A w \in Workers : WorkOK(worker[w], rec)
RecsInv == \A k \in Keys : RecOK(k, rec[k])
LocksInv ==
    faults["lost"] = 0 =>
      /\ \A w \in Workers : ClaimHolds(w, worker[w], rec, head, keyLock)
      /\ \A w \in Workers : SettlerHolds(worker[w], rec)
      /\ \A k \in Keys : HeadFits(k, rec[k], head)
      /\ \A k \in Keys : PubFits(k, rec[k])
IndustryInv == TypeOK /\ OneRunning /\ WorksInv /\ RecsInv /\ LocksInv /\ ReceiptHonest

-----------------------------------------------------------------------------
(* Steps *)

\* What every step does to a receipt.
RecStep(r, s) ==
    /\ r.st # "none" => s.st # "none" /\ s.prior = r.prior
    /\ r.pub # None => s.pub = r.pub
    /\ r.pub # None => s.st = r.st /\ s.cand = r.cand

\* What a step does to a receipt whose lock it does not hold.
Soft(r, s) ==
    r.st = "succeeded" =>
        s.st = r.st /\ s.cand = r.cand /\ s.prior = r.prior /\ s.comp = r.comp

\* x takes the step, or the environment when x is no Worker.
StepOf(x) ==
    /\ \A v \in Workers : v # x => worker'[v] = worker[v]
    /\ \A k \in Keys : RecStep(rec[k], rec'[k]) /\ RecOK(k, rec'[k])
    /\ x \in Workers => WorkOK(worker'[x], rec')
    /\ faults'["lost"] = 0 => faults["lost"] = 0

\* No operation starts or succeeds.
Quiet ==
    /\ heads \subseteq heads'
    /\ \A k \in Keys : op'[k].st = "running" => op[k].st = "running"
    /\ \A k \in Keys : op'[k].st = "succeeded" => op[k].st = "succeeded"

\* The step respects the locks that x does not hold.
LockStep(x) ==
    /\ \A k \in Keys : Soft(rec[k], rec'[k]) \/ keyLock[k] = x
    /\ \A k \in Keys : keyLock'[k] = keyLock[k] \/ keyLock[k] \in {x, None}
    /\ head'.coord \in {head.coord, None} \/ keyLock[head'.coord] = x

\* What the Workers and the receipts know survives every step.
LEMMA WorksKept ==
    ASSUME IndustryInv, NEW x, StepOf(x), TypeOK'
    PROVE  WorksInv' /\ RecsInv'
<1>1. RecsInv'
  BY DEF StepOf, RecsInv
<1>2. ASSUME NEW v \in Workers PROVE WorkOK(worker'[v], rec')
  <2>1. CASE v = x
    BY <2>1 DEF StepOf
  <2>2. CASE v # x
    <3> DEFINE d == worker[v]
    <3>1. worker'[v] = d /\ WorkOK(d, rec) /\ d \in Processes
      BY <2>2 DEF StepOf, IndustryInv, WorksInv, TypeOK
    <3>2. d.key \in Keys => RecStep(rec[d.key], rec'[d.key])
      BY DEF StepOf
    <3> HIDE DEF d
    <3>3. d.pc \in {"received", "complete"} =>
              d.key \in Keys /\ d.gen # None /\ rec'[d.key].pub = d.gen
      BY <3>1, <3>2 DEF WorkOK, RecStep, Keyless
    <3>4. d.pc \in Started => d.key \in Keys /\ rec'[d.key].st # "none"
                              /\ rec'[d.key].prior = rec[d.key].prior
      BY <3>1, <3>2 DEF WorkOK, RecStep, Keyless, Started, Publishing
    <3>5. d.pc \in Composing => d.pc \in Started
      BY DEF Composing, Started, Publishing
    <3>6. WorkOK(d, rec')
      BY <3>1, <3>3, <3>4, <3>5 DEF WorkOK
    <3> QED BY <3>1, <3>6
  <2> QED BY <2>1, <2>2
<1> QED BY <1>1, <1>2 DEF WorksInv

\* A step that starts and finishes no operation keeps the queue's invariants.
LEMMA QueueKept ==
    ASSUME IndustryInv, NEW x, StepOf(x), Quiet, TypeOK'
    PROVE  OneRunning' /\ ReceiptHonest'
<1>1. OneRunning'
  BY DEF Quiet, IndustryInv, OneRunning
<1>2. ASSUME NEW k \in Keys, op'[k].st = "succeeded"
      PROVE  /\ rec'[k].st = "succeeded" /\ rec'[k].pub \in heads'
             /\ faults'["lost"] = 0 => rec'[k].pub.ind = rec'[k].cand
  <2>1. /\ rec[k].st = "succeeded" /\ rec[k].pub \in heads
        /\ faults["lost"] = 0 => rec[k].pub.ind = rec[k].cand
    BY <1>2 DEF Quiet, IndustryInv, ReceiptHonest
  <2>2. rec[k].pub # None
    BY <2>1 DEF IndustryInv, TypeOK
  <2>3. RecStep(rec[k], rec'[k])
    BY DEF StepOf
  <2> QED BY <2>1, <2>2, <2>3 DEF RecStep, Quiet, StepOf
<1> QED BY <1>1, <1>2 DEF ReceiptHonest

\* A step leaves what the other holders of a key's lock know.
LEMMA OthersHold ==
    ASSUME IndustryInv, NEW x, StepOf(x), LockStep(x), faults["lost"] = 0,
           NEW v \in Workers, v # x
    PROVE  ClaimHolds(v, worker'[v], rec', head', keyLock') /\ SettlerHolds(worker'[v], rec')
<1> DEFINE d == worker[v]
<1>1. /\ worker'[v] = d /\ WorkOK(d, rec) /\ d \in Processes
      /\ ClaimHolds(v, d, rec, head, keyLock) /\ SettlerHolds(d, rec)
  BY DEF StepOf, IndustryInv, WorksInv, TypeOK, LocksInv
<1>2. v # None
  BY NoneAssumption
<1> HIDE DEF d
<1>3. SettlerHolds(d, rec')
  <2> SUFFICES ASSUME d.att = 0, d.pc \in {"receipt", "matched"}
               PROVE  d.gen.coord = d.key \/ rec'[d.key].pub # None
    BY DEF SettlerHolds
  <2>1. d.key \in Keys
    BY <1>1 DEF WorkOK, Keyless
  <2>2. RecStep(rec[d.key], rec'[d.key])
    BY <2>1 DEF StepOf
  <2> QED BY <1>1, <2>2 DEF SettlerHolds, RecStep
<1>4. ClaimHolds(v, d, rec', head', keyLock')
  <2>1. CASE d.att # 0 /\ d.pc \in Locked
    <3>1. d.key \in Keys /\ keyLock[d.key] = v
      BY <1>1, <2>1 DEF WorkOK, ClaimHolds, Keyless, Locked, LockedPublishing, Publishing
    <3>2. keyLock'[d.key] = v /\ Soft(rec[d.key], rec'[d.key])
      BY <1>2, <3>1 DEF LockStep
    <3>3. head'.coord = d.key => head.coord = d.key
      BY <1>2, <3>1, NoneAssumption DEF LockStep
    <3>4. d.pc \in LockedPublishing =>
             /\ rec[d.key].st = "succeeded" /\ rec[d.key].cand = d.cand
             /\ rec'[d.key].st = "succeeded" /\ rec'[d.key].cand = d.cand
             /\ rec'[d.key].prior = rec[d.key].prior /\ rec'[d.key].comp = rec[d.key].comp
      BY <1>1, <2>1, <3>2 DEF ClaimHolds, Soft
    <3>5. \A l \in {"recorded", "protected", "switched", "try", "composed", "conflicted",
                    "unchanged", "mismatch", "moving", "matched", "unlike"} : l \in LockedPublishing
      BY DEF LockedPublishing, Publishing
    <3> QED BY <1>1, <3>2, <3>3, <3>4, <3>5 DEF ClaimHolds
  <2>2. CASE d.att # 0 /\ d.pc \notin Locked
    BY <2>2 DEF ClaimHolds, Locked, LockedPublishing, Publishing
  <2>3. CASE d.att = 0
    BY <2>3 DEF ClaimHolds
  <2> QED BY <2>1, <2>2, <2>3
<1> QED BY <1>1, <1>3, <1>4

\* What a step owes for the Worker that takes it, and for the Head.
OwnHolds(x) ==
    /\ x \in Workers => ClaimHolds(x, worker'[x], rec', head', keyLock')
    /\ x \in Workers => SettlerHolds(worker'[x], rec')
    /\ \A k \in Keys : HeadFits(k, rec'[k], head')
    /\ \A k \in Keys : PubFits(k, rec'[k])

\* What the holders of the keys' locks know survives every step.
LEMMA LocksKept ==
    ASSUME IndustryInv, NEW x, StepOf(x),
           faults'["lost"] = 0 => LockStep(x) /\ OwnHolds(x)
    PROVE  LocksInv'
<1> SUFFICES ASSUME faults'["lost"] = 0
             PROVE  /\ \A w \in Workers : ClaimHolds(w, worker'[w], rec', head', keyLock')
                    /\ \A w \in Workers : SettlerHolds(worker'[w], rec')
                    /\ \A k \in Keys : HeadFits(k, rec'[k], head')
                    /\ \A k \in Keys : PubFits(k, rec'[k])
  BY DEF LocksInv
<1>1. faults["lost"] = 0 /\ LockStep(x) /\ OwnHolds(x)
  BY DEF StepOf
<1>2. \A v \in Workers : v # x =>
         ClaimHolds(v, worker'[v], rec', head', keyLock') /\ SettlerHolds(worker'[v], rec')
  BY <1>1, OthersHold
<1> QED BY <1>1, <1>2 DEF OwnHolds

\* A Worker's step that writes neither Head nor rows.
LEMMA Moved ==
    ASSUME IndustryInv, NEW w \in Workers, TypeOK',
           UNCHANGED <<head, heads, op, rec>>,
           \A v \in Workers : v # w => worker'[v] = worker[v],
           \A k \in Keys : keyLock'[k] = keyLock[k] \/ keyLock[k] \in {w, None},
           faults'["lost"] = 0 => faults["lost"] = 0,
           WorkOK(worker'[w], rec),
           faults["lost"] = 0 => ClaimHolds(w, worker'[w], rec, head, keyLock')
                                 /\ SettlerHolds(worker'[w], rec)
    PROVE  IndustryInv'
<1>1. \A k \in Keys : RecStep(rec[k], rec'[k]) /\ Soft(rec[k], rec'[k])
  BY DEF RecStep, Soft
<1>2. StepOf(w)
  BY <1>1 DEF StepOf, IndustryInv, RecsInv
<1>3. Quiet
  BY DEF Quiet
<1>4. faults'["lost"] = 0 => LockStep(w) /\ OwnHolds(w)
  <2> SUFFICES ASSUME faults'["lost"] = 0 PROVE LockStep(w) /\ OwnHolds(w)
    OBVIOUS
  <2>1. \A k \in Keys : HeadFits(k, rec[k], head) /\ PubFits(k, rec[k])
    BY DEF IndustryInv, LocksInv
  <2> QED BY <1>1, <2>1 DEF LockStep, OwnHolds
<1> QED BY <1>2, <1>3, <1>4, WorksKept, QueueKept, LocksKept DEF IndustryInv

-----------------------------------------------------------------------------
(* Steps that write neither Head nor rows *)

\* A Worker that leaves is idle and holds no lock.
LEMMA LeaveTyped ==
    ASSUME IndustryInv, NEW w \in Workers, Leave(w)
    PROVE  /\ worker' \in [Workers -> Processes] /\ keyLock' \in [Keys -> Workers \cup {None}]
           /\ worker'[w] = Idle /\ \A v \in Workers : v # w => worker'[v] = worker[v]
           /\ \A k \in Keys : keyLock'[k] = keyLock[k] \/ keyLock[k] \in {w, None}
<1>1. Idle \in Processes
  BY DEF Idle, Processes, Places
<1> QED BY <1>1 DEF IndustryInv, TypeOK, Leave, KeyReleased

\* A Worker that raises keeps its record and holds no lock.
LEMMA RaisedTyped ==
    ASSUME IndustryInv, NEW w \in Workers, NEW retry \in BOOLEAN, Raised(w, retry)
    PROVE  /\ worker' \in [Workers -> Processes] /\ keyLock' \in [Keys -> Workers \cup {None}]
           /\ worker'[w] = [worker[w] EXCEPT !.pc = "raised", !.retry = retry]
           /\ \A v \in Workers : v # w => worker'[v] = worker[v]
           /\ \A k \in Keys : keyLock'[k] = keyLock[k] \/ keyLock[k] \in {w, None}
<1> DEFINE d == worker[w]
           e == [d EXCEPT !.pc = "raised", !.retry = retry]
<1>1. d \in Processes /\ worker \in [Workers -> Processes]
  BY DEF IndustryInv, TypeOK
<1>2. e \in Processes
  <2> HIDE DEF d
  <2>1. "raised" \in Places
    BY DEF Places
  <2> QED BY <1>1, <2>1 DEF Processes
<1>3. worker' = [worker EXCEPT ![w] = e]
  BY <1>1 DEF Raised, Processes
<1>4. worker' \in [Workers -> Processes] /\ worker'[w] = e
      /\ \A v \in Workers : v # w => worker'[v] = worker[v]
  <2> HIDE DEF e
  <2> QED BY <1>1, <1>2, <1>3
<1>5. /\ keyLock' \in [Keys -> Workers \cup {None}]
      /\ \A k \in Keys : keyLock'[k] = keyLock[k] \/ keyLock[k] \in {w, None}
  BY DEF IndustryInv, TypeOK, Raised, KeyReleased
<1> QED BY <1>4, <1>5

\* The invariant, for one Worker.
LEMMA Knows ==
    ASSUME IndustryInv, NEW w \in Workers
    PROVE  /\ worker[w] \in Processes /\ WorkOK(worker[w], rec)
           /\ faults["lost"] = 0 => ClaimHolds(w, worker[w], rec, head, keyLock)
                                    /\ SettlerHolds(worker[w], rec)
BY DEF IndustryInv, TypeOK, WorksInv, LocksInv

\* An idle Worker knows nothing.
LEMMA IdleOK ==
    ASSUME NEW w, NEW rs, NEW h, NEW kl
    PROVE  WorkOK(Idle, rs) /\ ClaimHolds(w, Idle, rs, h, kl) /\ SettlerHolds(Idle, rs)
BY DEF WorkOK, ClaimHolds, SettlerHolds, Idle, Unclaimed, AnyClaim, Keyless, Composing,
       Started, Publishing

\* A Worker leaves process_next.
LEMMA LeavesKept ==
    ASSUME IndustryInv, NEW w \in Workers, Leave(w), UNCHANGED <<data, op, rec, live>>,
           lifecycle' \in Workers \cup {None}, faults' \in [FaultKinds -> Nat],
           faults'["lost"] = 0 => faults["lost"] = 0
    PROVE  IndustryInv'
<1>1. TypeOK'
  BY LeaveTyped DEF IndustryInv, TypeOK, data
<1> QED BY <1>1, LeaveTyped, IdleOK, Moved DEF data

\* A Worker raises out of the publication.
LEMMA RaisesKept ==
    ASSUME IndustryInv, NEW w \in Workers, NEW retry \in BOOLEAN, Raised(w, retry),
           UNCHANGED <<head, heads, op, rec, faults>>, live' \subseteq Keys \X Nat \X Nat,
           lifecycle' \in Workers \cup {None},
           worker[w].att # 0, worker[w].key \in Keys
    PROVE  IndustryInv'
<1>0. /\ worker' \in [Workers -> Processes] /\ keyLock' \in [Keys -> Workers \cup {None}]
      /\ worker'[w] = [worker[w] EXCEPT !.pc = "raised", !.retry = retry]
      /\ \A v \in Workers : v # w => worker'[v] = worker[v]
      /\ \A k \in Keys : keyLock'[k] = keyLock[k] \/ keyLock[k] \in {w, None}
  BY RaisedTyped
<1>1. TypeOK'
  BY <1>0 DEF IndustryInv, TypeOK
<1> DEFINE d == worker[w]
           e == [d EXCEPT !.pc = "raised", !.retry = retry]
<1>2. d \in Processes /\ d.att # 0 /\ d.key \in Keys
  BY Knows
<1> HIDE DEF d
<1>3. /\ WorkOK(e, rec) /\ ClaimHolds(w, e, rec, head, keyLock') /\ SettlerHolds(e, rec)
  BY <1>2 DEF WorkOK, ClaimHolds, SettlerHolds, Unclaimed, AnyClaim, Keyless, Composing,
              Started, Publishing, Processes, Locked, LockedPublishing
<1>4. worker'[w] = e
  BY <1>0 DEF d
<1> HIDE DEF e
<1> QED BY <1>1, <1>3, <1>4, <1>0, Moved

\* The Worker goes from d to e.
LEMMA GoesKept ==
    ASSUME IndustryInv, NEW w \in Workers, NEW e \in Processes,
           worker' = [worker EXCEPT ![w] = e],
           UNCHANGED <<head, heads, op, rec, lifecycle, faults>>,
           live' \subseteq Keys \X Nat \X Nat,
           keyLock' \in [Keys -> Workers \cup {None}],
           \A k \in Keys : keyLock'[k] = keyLock[k] \/ keyLock[k] \in {w, None},
           WorkOK(e, rec),
           faults["lost"] = 0 => ClaimHolds(w, e, rec, head, keyLock') /\ SettlerHolds(e, rec)
    PROVE  IndustryInv'
<1>1. worker' \in [Workers -> Processes] /\ worker'[w] = e
      /\ \A v \in Workers : v # w => worker'[v] = worker[v]
  BY DEF IndustryInv, TypeOK
<1>2. TypeOK'
  BY <1>1 DEF IndustryInv, TypeOK
<1> QED BY <1>1, <1>2, Moved

-----------------------------------------------------------------------------
(* Steps that write the queue *)

\* A step of w that writes neither Head nor receipts.
LEMMA AdvancesKept ==
    ASSUME IndustryInv, NEW w \in Workers, NEW e \in Processes,
           worker' = [worker EXCEPT ![w] = e],
           UNCHANGED <<head, heads, rec, faults>>,
           op' \in [Keys -> Operations], live' \subseteq Keys \X Nat \X Nat,
           lifecycle' \in Workers \cup {None}, keyLock' \in [Keys -> Workers \cup {None}],
           \A k \in Keys : keyLock'[k] = keyLock[k] \/ keyLock[k] \in {w, None},
           OneRunning', ReceiptHonest', WorkOK(e, rec),
           faults["lost"] = 0 => ClaimHolds(w, e, rec, head, keyLock') /\ SettlerHolds(e, rec)
    PROVE  IndustryInv'
<1>1. /\ worker' \in [Workers -> Processes] /\ worker'[w] = e
      /\ \A v \in Workers : v # w => worker'[v] = worker[v]
  BY DEF IndustryInv, TypeOK
<1>2. TypeOK'
  BY <1>1 DEF IndustryInv, TypeOK
<1>3. \A k \in Keys : RecStep(rec[k], rec'[k]) /\ Soft(rec[k], rec'[k])
  BY DEF RecStep, Soft
<1>4. StepOf(w)
  BY <1>1, <1>3 DEF StepOf, IndustryInv, RecsInv
<1>5. faults'["lost"] = 0 => LockStep(w) /\ OwnHolds(w)
  <2>1. faults["lost"] = 0 => \A k \in Keys : HeadFits(k, rec[k], head) /\ PubFits(k, rec[k])
    BY DEF IndustryInv, LocksInv
  <2> QED BY <1>1, <1>3, <2>1 DEF LockStep, OwnHolds
<1> QED BY <1>2, <1>4, <1>5, WorksKept, LocksKept DEF IndustryInv

\* A step of w that writes the receipt of k.
LEMMA WritesKept ==
    ASSUME IndustryInv, NEW w \in Workers, NEW e \in Processes,
           NEW k \in Keys, NEW s \in Receipts,
           worker' = [worker EXCEPT ![w] = e], rec' = [rec EXCEPT ![k] = s],
           UNCHANGED <<head, heads, faults>>,
           op' \in [Keys -> Operations], live' \subseteq Keys \X Nat \X Nat,
           lifecycle' \in Workers \cup {None}, keyLock' \in [Keys -> Workers \cup {None}],
           \A j \in Keys : keyLock'[j] = keyLock[j] \/ keyLock[j] \in {w, None},
           \A j \in Keys : op'[j].st = "running" => op[j].st = "running",
           \A j \in Keys : op'[j].st = "succeeded" => op[j].st = "succeeded",
           RecStep(rec[k], s), RecOK(k, s), WorkOK(e, rec'),
           faults["lost"] = 0 =>
              /\ Soft(rec[k], s) \/ keyLock[k] = w
              /\ ClaimHolds(w, e, rec', head, keyLock') /\ SettlerHolds(e, rec')
              /\ HeadFits(k, s, head) /\ PubFits(k, s)
    PROVE  IndustryInv'
<1>1. /\ worker' \in [Workers -> Processes] /\ worker'[w] = e
      /\ \A v \in Workers : v # w => worker'[v] = worker[v]
  BY DEF IndustryInv, TypeOK
<1>2. /\ rec' \in [Keys -> Receipts] /\ rec'[k] = s
      /\ \A j \in Keys : j # k => rec'[j] = rec[j]
  BY DEF IndustryInv, TypeOK
<1>3. TypeOK'
  BY <1>1, <1>2 DEF IndustryInv, TypeOK
<1>4. \A j \in Keys : j # k => RecStep(rec[j], rec'[j]) /\ Soft(rec[j], rec'[j])
  BY <1>2 DEF RecStep, Soft
<1>5. \A j \in Keys : RecStep(rec[j], rec'[j]) /\ RecOK(j, rec'[j])
  BY <1>2, <1>4 DEF IndustryInv, RecsInv
<1>6. StepOf(w)
  BY <1>1, <1>5 DEF StepOf
<1>7. Quiet
  BY DEF Quiet
<1>8. faults'["lost"] = 0 => LockStep(w) /\ OwnHolds(w)
  <2>1. faults["lost"] = 0 => \A j \in Keys : HeadFits(j, rec[j], head) /\ PubFits(j, rec[j])
    BY DEF IndustryInv, LocksInv
  <2>2. faults["lost"] = 0 => \A j \in Keys : HeadFits(j, rec'[j], head) /\ PubFits(j, rec'[j])
    BY <1>2, <2>1
  <2>3. faults["lost"] = 0 => \A j \in Keys : Soft(rec[j], rec'[j]) \/ keyLock[j] = w
    BY <1>2, <1>4
  <2> QED BY <1>1, <2>2, <2>3 DEF LockStep, OwnHolds
<1> QED BY <1>3, <1>6, <1>7, <1>8, WorksKept, QueueKept, LocksKept DEF IndustryInv

\* A step of the environment writes no receipt and stops no Worker.
LEMMA EnvironmentKept ==
    ASSUME IndustryInv, TypeOK', UNCHANGED <<rec, worker>>, OneRunning', ReceiptHonest',
           faults'["lost"] = 0 =>
              /\ faults["lost"] = 0 /\ UNCHANGED keyLock
              /\ \/ UNCHANGED head
                 \/ head'.coord = head.coord /\ head'.ind = head.ind
                 \/ head'.coord = None
    PROVE  IndustryInv'
<1>1. \A k \in Keys : RecStep(rec[k], rec'[k]) /\ Soft(rec[k], rec'[k])
  BY DEF RecStep, Soft
<1>2. None \notin Workers /\ None \notin Keys
  BY NoneAssumption
<1>3. StepOf(None)
  BY <1>1, <1>2 DEF StepOf, IndustryInv, RecsInv
<1>4. faults'["lost"] = 0 => LockStep(None) /\ OwnHolds(None)
  <2> SUFFICES ASSUME faults'["lost"] = 0 PROVE LockStep(None) /\ OwnHolds(None)
    OBVIOUS
  <2>1. \A k \in Keys : HeadFits(k, rec[k], head) /\ PubFits(k, rec[k])
    BY DEF IndustryInv, LocksInv
  <2>2. \A k \in Keys : HeadFits(k, rec'[k], head')
    BY <1>2, <2>1 DEF HeadFits
  <2> QED BY <1>1, <1>2, <2>1, <2>2 DEF LockStep, OwnHolds
<1> QED BY <1>3, <1>4, WorksKept, LocksKept DEF IndustryInv

\* A reconciliation reads the pointer.
LEMMA ReadPointerKept ==
    ASSUME IndustryInv, NEW w \in Workers, ReadPointer(w)
    PROVE  IndustryInv'
<1> DEFINE d == worker[w]
           e == [d EXCEPT !.pc = "pointer", !.cur = head]
<1>1. /\ d \in Processes /\ WorkOK(d, rec)
      /\ faults["lost"] = 0 => ClaimHolds(w, d, rec, head, keyLock) /\ SettlerHolds(d, rec)
  BY Knows
<1>2. /\ d.pc = "idle"
  BY <1>1 DEF ReadPointer, At, To, Key, Rec, Changed, Candidate
<1>3. worker' = [worker EXCEPT ![w] = e]
  BY <1>1 DEF ReadPointer, To, Processes, Key, Rec, Candidate
<1>4. /\ TypeOK /\ head \in Generations /\ head # None
      /\ d.pc \notin Keyless => d.key \in Keys
      /\ \A k \in Keys : rec[k] \in Receipts /\ RecOK(k, rec[k])
  BY <1>1 DEF IndustryInv, TypeOK, WorkOK, RecsInv
<1>5. /\ d.pc \in Unclaimed /\ d.pc \in Keyless /\ d.pc \notin AnyClaim
      /\ d.pc \notin Publishing /\ d.pc \notin Started /\ d.pc \notin Composing
      /\ d.pc \notin LockedPublishing /\ d.pc \notin Locked
  BY <1>2 DEF Unclaimed, AnyClaim, Keyless, Started, Publishing, Composing, Locked,
         LockedPublishing
<1>6. /\ UNCHANGED <<head, heads, op, rec, lifecycle, faults>>
      /\ live' \subseteq Keys \X Nat \X Nat /\ keyLock' \in [Keys -> Workers \cup {None}]
      /\ \A k \in Keys : keyLock'[k] = keyLock[k] \/ keyLock[k] \in {w, None}
      /\ keyLock' = keyLock
  BY <1>1, <1>2, <1>4, <1>5 DEF ReadPointer, data, locks, TypeOK, KeyReleased, Key, Processes,
         Candidate
<1> HIDE DEF d
<1>7. "pointer" \in Places
      /\ "pointer" \in Unclaimed /\ "pointer" \in Keyless /\ "pointer" \notin AnyClaim
      /\ "pointer" \notin Publishing /\ "pointer" \notin Started
      /\ "pointer" \notin Composing /\ "pointer" \notin LockedPublishing
      /\ "pointer" \notin Locked
  BY DEF Places, Reconciliation, Working, Collecting, Unclaimed, AnyClaim, Keyless, Started,
         Publishing, Composing, Locked, LockedPublishing
<1>8. /\ e \in Processes
      /\ e.pc = "pointer" /\ e.key = d.key /\ e.att = d.att /\ e.i = d.i
      /\ e.cur = head /\ e.comp = d.comp /\ e.cand = d.cand /\ e.gen = d.gen
  BY <1>1, <1>2, <1>4, <1>5, <1>7 DEF Processes
<1> HIDE DEF e
<1>9. WorkOK(e, rec)
  BY <1>1, <1>2, <1>4, <1>5, <1>7, <1>8 DEF WorkOK
<1>10. faults["lost"] = 0 => ClaimHolds(w, e, rec, head, keyLock') /\ SettlerHolds(e, rec)
  BY <1>1, <1>2, <1>4, <1>5, <1>6, <1>7, <1>8 DEF WorkOK, ClaimHolds, SettlerHolds
<1> QED BY <1>3, <1>6, <1>8, <1>9, <1>10, GoesKept

\* The Worker reads its target.
LEMMA ReadTargetKept ==
    ASSUME IndustryInv, NEW w \in Workers, ReadTarget(w)
    PROVE  IndustryInv'
<1> DEFINE d == worker[w]
           e == [d EXCEPT !.pc = "waiting"]
<1>1. /\ d \in Processes /\ WorkOK(d, rec)
      /\ faults["lost"] = 0 => ClaimHolds(w, d, rec, head, keyLock) /\ SettlerHolds(d, rec)
  BY Knows
<1>2. /\ d.pc = "claimed"
  BY <1>1 DEF ReadTarget, At, To, Key, Rec, Changed, Candidate
<1>3. worker' = [worker EXCEPT ![w] = e]
  BY <1>1 DEF ReadTarget, To, Processes, Key, Rec, Candidate
<1>4. /\ TypeOK /\ head \in Generations /\ head # None
      /\ d.pc \notin Keyless => d.key \in Keys
      /\ \A k \in Keys : rec[k] \in Receipts /\ RecOK(k, rec[k])
  BY <1>1 DEF IndustryInv, TypeOK, WorkOK, RecsInv
<1>5. /\ d.pc \notin Unclaimed /\ d.pc \notin Keyless /\ d.pc \notin AnyClaim
      /\ d.pc \notin Publishing /\ d.pc \notin Started /\ d.pc \notin Composing
      /\ d.pc \notin LockedPublishing /\ d.pc \notin Locked
  BY <1>2 DEF Unclaimed, AnyClaim, Keyless, Started, Publishing, Composing, Locked,
         LockedPublishing
<1>6. /\ UNCHANGED <<head, heads, op, rec, lifecycle, faults>>
      /\ live' \subseteq Keys \X Nat \X Nat /\ keyLock' \in [Keys -> Workers \cup {None}]
      /\ \A k \in Keys : keyLock'[k] = keyLock[k] \/ keyLock[k] \in {w, None}
      /\ keyLock' = keyLock
  BY <1>1, <1>2, <1>4, <1>5 DEF ReadTarget, data, locks, TypeOK, KeyReleased, Key, Processes,
         Candidate
<1> HIDE DEF d
<1>7. "waiting" \in Places
      /\ "waiting" \notin Unclaimed /\ "waiting" \notin Keyless
      /\ "waiting" \notin AnyClaim /\ "waiting" \notin Publishing
      /\ "waiting" \notin Started /\ "waiting" \notin Composing
      /\ "waiting" \notin LockedPublishing /\ "waiting" \notin Locked
  BY DEF Places, Reconciliation, Working, Collecting, Unclaimed, AnyClaim, Keyless, Started,
         Publishing, Composing, Locked, LockedPublishing
<1>8. /\ e \in Processes
      /\ e.pc = "waiting" /\ e.key = d.key /\ e.att = d.att /\ e.i = d.i
      /\ e.cur = d.cur /\ e.comp = d.comp /\ e.cand = d.cand /\ e.gen = d.gen
  BY <1>1, <1>2, <1>4, <1>5, <1>7 DEF Processes
<1> HIDE DEF e
<1>9. WorkOK(e, rec)
  BY <1>1, <1>2, <1>4, <1>5, <1>7, <1>8 DEF WorkOK
<1>10. faults["lost"] = 0 => ClaimHolds(w, e, rec, head, keyLock') /\ SettlerHolds(e, rec)
  BY <1>1, <1>2, <1>4, <1>5, <1>6, <1>7, <1>8 DEF WorkOK, ClaimHolds, SettlerHolds
<1> QED BY <1>3, <1>6, <1>8, <1>9, <1>10, GoesKept

\* The Worker takes its key's lock.
LEMMA AcquireKeyKept ==
    ASSUME IndustryInv, NEW w \in Workers, AcquireKey(w)
    PROVE  IndustryInv'
<1> DEFINE d == worker[w]
           e == [d EXCEPT !.pc = "enter"]
<1>1. /\ d \in Processes /\ WorkOK(d, rec)
      /\ faults["lost"] = 0 => ClaimHolds(w, d, rec, head, keyLock) /\ SettlerHolds(d, rec)
  BY Knows
<1>2. /\ d.pc = "waiting"
      /\ keyLock[d.key] = None /\ keyLock' = [keyLock EXCEPT ![d.key] = w]
  BY <1>1 DEF AcquireKey, At, To, Key, Rec, Changed, Candidate, KeyFree
<1>3. worker' = [worker EXCEPT ![w] = e]
  BY <1>1 DEF AcquireKey, To, Processes, Key, Rec, Candidate, KeyFree
<1>4. /\ TypeOK /\ head \in Generations /\ head # None
      /\ d.pc \notin Keyless => d.key \in Keys
      /\ \A k \in Keys : rec[k] \in Receipts /\ RecOK(k, rec[k])
  BY <1>1 DEF IndustryInv, TypeOK, WorkOK, RecsInv
<1>5. /\ d.pc \notin Unclaimed /\ d.pc \notin Keyless /\ d.pc \notin AnyClaim
      /\ d.pc \notin Publishing /\ d.pc \notin Started /\ d.pc \notin Composing
      /\ d.pc \notin LockedPublishing /\ d.pc \notin Locked
  BY <1>2 DEF Unclaimed, AnyClaim, Keyless, Started, Publishing, Composing, Locked,
         LockedPublishing
<1>6. /\ UNCHANGED <<head, heads, op, rec, lifecycle, faults>>
      /\ live' \subseteq Keys \X Nat \X Nat /\ keyLock' \in [Keys -> Workers \cup {None}]
      /\ \A k \in Keys : keyLock'[k] = keyLock[k] \/ keyLock[k] \in {w, None}
      /\ keyLock'[d.key] = w
  BY <1>1, <1>2, <1>4, <1>5 DEF AcquireKey, data, locks, TypeOK, KeyReleased, Key, Processes,
         Candidate, KeyFree
<1> HIDE DEF d
<1>7. "enter" \in Places
      /\ "enter" \in Locked /\ "enter" \notin Unclaimed /\ "enter" \notin Keyless
      /\ "enter" \notin AnyClaim /\ "enter" \notin Publishing /\ "enter" \notin Started
      /\ "enter" \notin Composing /\ "enter" \notin LockedPublishing
  BY DEF Places, Reconciliation, Working, Collecting, Unclaimed, AnyClaim, Keyless, Started,
         Publishing, Composing, Locked, LockedPublishing
<1>8. /\ e \in Processes
      /\ e.pc = "enter" /\ e.key = d.key /\ e.att = d.att /\ e.i = d.i
      /\ e.cur = d.cur /\ e.comp = d.comp /\ e.cand = d.cand /\ e.gen = d.gen
  BY <1>1, <1>2, <1>4, <1>5, <1>7 DEF Processes
<1> HIDE DEF e
<1>9. WorkOK(e, rec)
  BY <1>1, <1>2, <1>4, <1>5, <1>7, <1>8 DEF WorkOK
<1>10. faults["lost"] = 0 => ClaimHolds(w, e, rec, head, keyLock') /\ SettlerHolds(e, rec)
  BY <1>1, <1>2, <1>4, <1>5, <1>6, <1>7, <1>8 DEF WorkOK, ClaimHolds, SettlerHolds
<1> QED BY <1>3, <1>6, <1>8, <1>9, <1>10, GoesKept

\* The Head is not the one the candidate was composed on.
LEMMA HeadConflictKept ==
    ASSUME IndustryInv, NEW w \in Workers, HeadConflict(w)
    PROVE  IndustryInv'
<1> DEFINE d == worker[w]
           e == [d EXCEPT !.pc = "conflicted"]
<1>1. /\ d \in Processes /\ WorkOK(d, rec)
      /\ faults["lost"] = 0 => ClaimHolds(w, d, rec, head, keyLock) /\ SettlerHolds(d, rec)
  BY Knows
<1>2. /\ d.pc = "protected"
  BY <1>1 DEF HeadConflict, At, To, Key, Rec, Changed, Candidate
<1>3. worker' = [worker EXCEPT ![w] = e]
  BY <1>1 DEF HeadConflict, To, Processes, Key, Rec, Candidate
<1>4. /\ TypeOK /\ head \in Generations /\ head # None
      /\ d.pc \notin Keyless => d.key \in Keys
      /\ \A k \in Keys : rec[k] \in Receipts /\ RecOK(k, rec[k])
  BY <1>1 DEF IndustryInv, TypeOK, WorkOK, RecsInv
<1>5. /\ d.pc \in Publishing /\ d.pc \in Started /\ d.pc \in Composing
      /\ d.pc \in LockedPublishing /\ d.pc \in Locked /\ d.pc \notin Unclaimed
      /\ d.pc \notin Keyless /\ d.pc \notin AnyClaim
  BY <1>2 DEF Unclaimed, AnyClaim, Keyless, Started, Publishing, Composing, Locked,
         LockedPublishing
<1>6. /\ UNCHANGED <<head, heads, op, rec, lifecycle, faults>>
      /\ live' \subseteq Keys \X Nat \X Nat /\ keyLock' \in [Keys -> Workers \cup {None}]
      /\ \A k \in Keys : keyLock'[k] = keyLock[k] \/ keyLock[k] \in {w, None}
      /\ keyLock' = keyLock
  BY <1>1, <1>2, <1>4, <1>5 DEF HeadConflict, data, locks, TypeOK, KeyReleased, Key,
         Processes, Candidate
<1> HIDE DEF d
<1>7. "conflicted" \in Places
      /\ "conflicted" \in Publishing /\ "conflicted" \in Started
      /\ "conflicted" \in LockedPublishing /\ "conflicted" \in Locked
      /\ "conflicted" \notin Unclaimed /\ "conflicted" \notin Keyless
      /\ "conflicted" \notin AnyClaim /\ "conflicted" \notin Composing
  BY DEF Places, Reconciliation, Working, Collecting, Unclaimed, AnyClaim, Keyless, Started,
         Publishing, Composing, Locked, LockedPublishing
<1>8. /\ e \in Processes
      /\ e.pc = "conflicted" /\ e.key = d.key /\ e.att = d.att /\ e.i = d.i
      /\ e.cur = d.cur /\ e.comp = d.comp /\ e.cand = d.cand /\ e.gen = d.gen
  BY <1>1, <1>2, <1>4, <1>5, <1>7 DEF Processes
<1> HIDE DEF e
<1>9. WorkOK(e, rec)
  BY <1>1, <1>2, <1>4, <1>5, <1>7, <1>8 DEF WorkOK
<1>10. faults["lost"] = 0 => ClaimHolds(w, e, rec, head, keyLock') /\ SettlerHolds(e, rec)
  BY <1>1, <1>2, <1>4, <1>5, <1>6, <1>7, <1>8 DEF WorkOK, ClaimHolds, SettlerHolds
<1> QED BY <1>3, <1>6, <1>8, <1>9, <1>10, GoesKept

\* The candidate is protected.
LEMMA ProtectKept ==
    ASSUME IndustryInv, NEW w \in Workers, Protect(w)
    PROVE  IndustryInv'
<1> DEFINE d == worker[w]
           e == [d EXCEPT !.pc = "protected"]
<1>1. /\ d \in Processes /\ WorkOK(d, rec)
      /\ faults["lost"] = 0 => ClaimHolds(w, d, rec, head, keyLock) /\ SettlerHolds(d, rec)
  BY Knows
<1>2. /\ d.pc = "recorded"
  BY <1>1 DEF Protect, At, To, Key, Rec, Changed, Candidate
<1>3. worker' = [worker EXCEPT ![w] = e]
  BY <1>1 DEF Protect, To, Processes, Key, Rec, Candidate
<1>4. /\ TypeOK /\ head \in Generations /\ head # None
      /\ d.pc \notin Keyless => d.key \in Keys
      /\ \A k \in Keys : rec[k] \in Receipts /\ RecOK(k, rec[k])
  BY <1>1 DEF IndustryInv, TypeOK, WorkOK, RecsInv
<1>5. /\ d.pc \in Publishing /\ d.pc \in Started /\ d.pc \in Composing
      /\ d.pc \in LockedPublishing /\ d.pc \in Locked /\ d.pc \notin Unclaimed
      /\ d.pc \notin Keyless /\ d.pc \notin AnyClaim
  BY <1>2 DEF Unclaimed, AnyClaim, Keyless, Started, Publishing, Composing, Locked,
         LockedPublishing
<1>6. /\ UNCHANGED <<head, heads, op, rec, lifecycle, faults>>
      /\ live' \subseteq Keys \X Nat \X Nat /\ keyLock' \in [Keys -> Workers \cup {None}]
      /\ \A k \in Keys : keyLock'[k] = keyLock[k] \/ keyLock[k] \in {w, None}
      /\ keyLock' = keyLock
  BY <1>1, <1>2, <1>4, <1>5 DEF Protect, data, locks, TypeOK, KeyReleased, Key, Processes,
         Candidate
<1> HIDE DEF d
<1>7. "protected" \in Places
      /\ "protected" \in Publishing /\ "protected" \in Started
      /\ "protected" \in Composing /\ "protected" \in LockedPublishing
      /\ "protected" \in Locked /\ "protected" \notin Unclaimed
      /\ "protected" \notin Keyless /\ "protected" \notin AnyClaim
  BY DEF Places, Reconciliation, Working, Collecting, Unclaimed, AnyClaim, Keyless, Started,
         Publishing, Composing, Locked, LockedPublishing
<1>8. /\ e \in Processes
      /\ e.pc = "protected" /\ e.key = d.key /\ e.att = d.att /\ e.i = d.i
      /\ e.cur = d.cur /\ e.comp = d.comp /\ e.cand = d.cand /\ e.gen = d.gen
  BY <1>1, <1>2, <1>4, <1>5, <1>7 DEF Processes
<1> HIDE DEF e
<1>9. WorkOK(e, rec)
  BY <1>1, <1>2, <1>4, <1>5, <1>7, <1>8 DEF WorkOK
<1>10. faults["lost"] = 0 => ClaimHolds(w, e, rec, head, keyLock') /\ SettlerHolds(e, rec)
  BY <1>1, <1>2, <1>4, <1>5, <1>6, <1>7, <1>8 DEF WorkOK, ClaimHolds, SettlerHolds
<1> QED BY <1>3, <1>6, <1>8, <1>9, <1>10, GoesKept

\* A reconciliation finds a receipt to settle: ReadPending, first case.
LEMMA FoundKept ==
    ASSUME IndustryInv, NEW w \in Workers,
           NEW k \in Keys, At(w, "pointer"), Pending(k, worker[w].cur),
           worker' = [worker EXCEPT ![w].pc = "receipt", ![w].key = k, ![w].gen = Receipt(k)],
           UNCHANGED <<data, op, rec, live, locks, faults>>
    PROVE  IndustryInv'
<1> DEFINE d == worker[w]
           e == [d EXCEPT !.pc = "receipt", !.key = k, !.gen = Receipt(k)]
<1>1. /\ d \in Processes /\ WorkOK(d, rec)
      /\ faults["lost"] = 0 => ClaimHolds(w, d, rec, head, keyLock) /\ SettlerHolds(d, rec)
  BY Knows
<1>2. /\ d.pc = "pointer"
      /\ Receipt(k) # None
  BY <1>1 DEF Pending, At, To, Key, Rec, Changed, Candidate
<1>3. worker' = [worker EXCEPT ![w] = e]
  BY <1>1 DEF Pending, To, Processes, Key, Rec, Candidate
<1>4. /\ TypeOK /\ head \in Generations /\ head # None
      /\ d.pc \notin Keyless => d.key \in Keys
      /\ \A j \in Keys : rec[j] \in Receipts /\ RecOK(j, rec[j])
  BY <1>1 DEF IndustryInv, TypeOK, WorkOK, RecsInv
<1>5. /\ d.pc \in Unclaimed /\ d.pc \in Keyless /\ d.pc \notin AnyClaim
      /\ d.pc \notin Publishing /\ d.pc \notin Started /\ d.pc \notin Composing
      /\ d.pc \notin LockedPublishing /\ d.pc \notin Locked
  BY <1>2 DEF Unclaimed, AnyClaim, Keyless, Started, Publishing, Composing, Locked,
         LockedPublishing
<1>6. /\ UNCHANGED <<head, heads, op, rec, lifecycle, faults>>
      /\ live' \subseteq Keys \X Nat \X Nat /\ keyLock' \in [Keys -> Workers \cup {None}]
      /\ \A j \in Keys : keyLock'[j] = keyLock[j] \/ keyLock[j] \in {w, None}
      /\ keyLock' = keyLock
  BY <1>1, <1>2, <1>4, <1>5 DEF Pending, data, locks, TypeOK, KeyReleased, Key, Processes,
         Candidate
<1> HIDE DEF d
<1>7. "receipt" \in Places
      /\ "receipt" \in AnyClaim /\ "receipt" \in Publishing /\ "receipt" \in Started
      /\ "receipt" \in LockedPublishing /\ "receipt" \in Locked
      /\ "receipt" \notin Unclaimed /\ "receipt" \notin Keyless
      /\ "receipt" \notin Composing
  BY DEF Places, Reconciliation, Working, Collecting, Unclaimed, AnyClaim, Keyless, Started,
         Publishing, Composing, Locked, LockedPublishing
<1>8. /\ Receipt(k) \in Generations /\ rec[k].st # "none"
      /\ Receipt(k).coord = k \/ rec[k].pub # None
  BY <1>1, <1>2, <1>4, <1>5 DEF Receipt, RecOK, Receipts, NoRec
<1>9. /\ e \in Processes
      /\ e.pc = "receipt" /\ e.key = k /\ e.att = d.att /\ e.i = d.i
      /\ e.cur = d.cur /\ e.comp = d.comp /\ e.cand = d.cand /\ e.gen = Receipt(k)
  BY <1>1, <1>2, <1>4, <1>5, <1>7, <1>8 DEF Processes
<1> HIDE DEF e
<1>10. WorkOK(e, rec)
  BY <1>1, <1>2, <1>4, <1>5, <1>7, <1>8, <1>9 DEF WorkOK
<1>11. faults["lost"] = 0 => ClaimHolds(w, e, rec, head, keyLock') /\ SettlerHolds(e, rec)
  BY <1>1, <1>2, <1>4, <1>5, <1>6, <1>7, <1>8, <1>9 DEF WorkOK, ClaimHolds, SettlerHolds
<1> QED BY <1>3, <1>6, <1>9, <1>10, <1>11, GoesKept

\* And finds none: ReadPending, second case.
LEMMA NothingFoundKept ==
    ASSUME IndustryInv, NEW w \in Workers, At(w, "pointer"), To(w, "reconciled"),
           UNCHANGED <<data, op, rec, live, locks, faults>>
    PROVE  IndustryInv'
<1> DEFINE d == worker[w]
           e == [d EXCEPT !.pc = "reconciled"]
<1>1. /\ d \in Processes /\ WorkOK(d, rec)
      /\ faults["lost"] = 0 => ClaimHolds(w, d, rec, head, keyLock) /\ SettlerHolds(d, rec)
  BY Knows
<1>2. /\ d.pc = "pointer"
  BY <1>1 DEF At, To, Key, Rec, Changed, Candidate
<1>3. worker' = [worker EXCEPT ![w] = e]
  BY <1>1 DEF To, Processes, Key, Rec, Candidate
<1>4. /\ TypeOK /\ head \in Generations /\ head # None
      /\ d.pc \notin Keyless => d.key \in Keys
      /\ \A k \in Keys : rec[k] \in Receipts /\ RecOK(k, rec[k])
  BY <1>1 DEF IndustryInv, TypeOK, WorkOK, RecsInv
<1>5. /\ d.pc \in Unclaimed /\ d.pc \in Keyless /\ d.pc \notin AnyClaim
      /\ d.pc \notin Publishing /\ d.pc \notin Started /\ d.pc \notin Composing
      /\ d.pc \notin LockedPublishing /\ d.pc \notin Locked
  BY <1>2 DEF Unclaimed, AnyClaim, Keyless, Started, Publishing, Composing, Locked,
         LockedPublishing
<1>6. /\ UNCHANGED <<head, heads, op, rec, lifecycle, faults>>
      /\ live' \subseteq Keys \X Nat \X Nat /\ keyLock' \in [Keys -> Workers \cup {None}]
      /\ \A k \in Keys : keyLock'[k] = keyLock[k] \/ keyLock[k] \in {w, None}
      /\ keyLock' = keyLock
  BY <1>1, <1>2, <1>4, <1>5 DEF data, locks, TypeOK, KeyReleased, Key, Processes, Candidate
<1> HIDE DEF d
<1>7. "reconciled" \in Places
      /\ "reconciled" \in Unclaimed /\ "reconciled" \in Keyless
      /\ "reconciled" \notin AnyClaim /\ "reconciled" \notin Publishing
      /\ "reconciled" \notin Started /\ "reconciled" \notin Composing
      /\ "reconciled" \notin LockedPublishing /\ "reconciled" \notin Locked
  BY DEF Places, Reconciliation, Working, Collecting, Unclaimed, AnyClaim, Keyless, Started,
         Publishing, Composing, Locked, LockedPublishing
<1>8. /\ e \in Processes
      /\ e.pc = "reconciled" /\ e.key = d.key /\ e.att = d.att /\ e.i = d.i
      /\ e.cur = d.cur /\ e.comp = d.comp /\ e.cand = d.cand /\ e.gen = d.gen
  BY <1>1, <1>2, <1>4, <1>5, <1>7 DEF Processes
<1> HIDE DEF e
<1>9. WorkOK(e, rec)
  BY <1>1, <1>2, <1>4, <1>5, <1>7, <1>8 DEF WorkOK
<1>10. faults["lost"] = 0 => ClaimHolds(w, e, rec, head, keyLock') /\ SettlerHolds(e, rec)
  BY <1>1, <1>2, <1>4, <1>5, <1>6, <1>7, <1>8 DEF WorkOK, ClaimHolds, SettlerHolds
<1> QED BY <1>3, <1>6, <1>8, <1>9, <1>10, GoesKept

\* The receipt fits: MatchReceipt, first case.
LEMMA MatchedKept ==
    ASSUME IndustryInv, NEW w \in Workers,
           At(w, "receipt"), Settleable(Key(w), worker[w].gen),
           Reconciling(w) \/ Rec(w).cand = worker[w].cand,
           To(w, "matched"),
           UNCHANGED <<data, op, rec, live, locks, faults>>
    PROVE  IndustryInv'
<1> DEFINE d == worker[w]
           e == [d EXCEPT !.pc = "matched"]
<1>1. /\ d \in Processes /\ WorkOK(d, rec)
      /\ faults["lost"] = 0 => ClaimHolds(w, d, rec, head, keyLock) /\ SettlerHolds(d, rec)
  BY Knows
<1>2. /\ d.pc = "receipt"
      /\ Settleable(d.key, d.gen) /\ (d.att = 0 \/ rec[d.key].cand = d.cand)
  BY <1>1 DEF At, To, Key, Rec, Changed, Candidate, Reconciling
<1>3. worker' = [worker EXCEPT ![w] = e]
  BY <1>1 DEF To, Processes, Key, Rec, Candidate, Reconciling
<1>4. /\ TypeOK /\ head \in Generations /\ head # None
      /\ d.pc \notin Keyless => d.key \in Keys
      /\ \A k \in Keys : rec[k] \in Receipts /\ RecOK(k, rec[k])
  BY <1>1 DEF IndustryInv, TypeOK, WorkOK, RecsInv
<1>5. /\ d.pc \in AnyClaim /\ d.pc \in Publishing /\ d.pc \in Started
      /\ d.pc \in LockedPublishing /\ d.pc \in Locked /\ d.pc \notin Unclaimed
      /\ d.pc \notin Keyless /\ d.pc \notin Composing
  BY <1>2 DEF Unclaimed, AnyClaim, Keyless, Started, Publishing, Composing, Locked,
         LockedPublishing
<1>6. /\ UNCHANGED <<head, heads, op, rec, lifecycle, faults>>
      /\ live' \subseteq Keys \X Nat \X Nat /\ keyLock' \in [Keys -> Workers \cup {None}]
      /\ \A k \in Keys : keyLock'[k] = keyLock[k] \/ keyLock[k] \in {w, None}
      /\ keyLock' = keyLock
  BY <1>1, <1>2, <1>4, <1>5 DEF data, locks, TypeOK, KeyReleased, Key, Processes, Candidate,
         Reconciling
<1> HIDE DEF d
<1>7. "matched" \in Places
      /\ "matched" \in AnyClaim /\ "matched" \in Publishing /\ "matched" \in Started
      /\ "matched" \in LockedPublishing /\ "matched" \in Locked
      /\ "matched" \notin Unclaimed /\ "matched" \notin Keyless
      /\ "matched" \notin Composing
  BY DEF Places, Reconciliation, Working, Collecting, Unclaimed, AnyClaim, Keyless, Started,
         Publishing, Composing, Locked, LockedPublishing
<1>8. /\ e \in Processes
      /\ e.pc = "matched" /\ e.key = d.key /\ e.att = d.att /\ e.i = d.i
      /\ e.cur = d.cur /\ e.comp = d.comp /\ e.cand = d.cand /\ e.gen = d.gen
  BY <1>1, <1>2, <1>4, <1>5, <1>7 DEF Processes
<1> HIDE DEF e
<1>9. WorkOK(e, rec)
  BY <1>1, <1>2, <1>4, <1>5, <1>7, <1>8 DEF WorkOK
<1>10. faults["lost"] = 0 => ClaimHolds(w, e, rec, head, keyLock') /\ SettlerHolds(e, rec)
  BY <1>1, <1>2, <1>4, <1>5, <1>6, <1>7, <1>8 DEF WorkOK, ClaimHolds, SettlerHolds,
         Settleable, Matches
<1> QED BY <1>3, <1>6, <1>8, <1>9, <1>10, GoesKept

\* The receipt fits and is not the Worker's own outcome: MatchReceipt, second case.
LEMMA UnlikeKept ==
    ASSUME IndustryInv, NEW w \in Workers,
           At(w, "receipt"), ~Reconciling(w), Rec(w).cand # worker[w].cand,
           To(w, "unlike"),
           UNCHANGED <<data, op, rec, live, locks, faults>>
    PROVE  IndustryInv'
<1> DEFINE d == worker[w]
           e == [d EXCEPT !.pc = "unlike"]
<1>1. /\ d \in Processes /\ WorkOK(d, rec)
      /\ faults["lost"] = 0 => ClaimHolds(w, d, rec, head, keyLock) /\ SettlerHolds(d, rec)
  BY Knows
<1>2. /\ d.pc = "receipt"
      /\ d.att # 0 /\ rec[d.key].cand # d.cand
  BY <1>1 DEF At, To, Key, Rec, Changed, Candidate, Reconciling
<1>3. worker' = [worker EXCEPT ![w] = e]
  BY <1>1 DEF To, Processes, Key, Rec, Candidate, Reconciling
<1>4. /\ TypeOK /\ head \in Generations /\ head # None
      /\ d.pc \notin Keyless => d.key \in Keys
      /\ \A k \in Keys : rec[k] \in Receipts /\ RecOK(k, rec[k])
  BY <1>1 DEF IndustryInv, TypeOK, WorkOK, RecsInv
<1>5. /\ d.pc \in AnyClaim /\ d.pc \in Publishing /\ d.pc \in Started
      /\ d.pc \in LockedPublishing /\ d.pc \in Locked /\ d.pc \notin Unclaimed
      /\ d.pc \notin Keyless /\ d.pc \notin Composing
  BY <1>2 DEF Unclaimed, AnyClaim, Keyless, Started, Publishing, Composing, Locked,
         LockedPublishing
<1>6. /\ UNCHANGED <<head, heads, op, rec, lifecycle, faults>>
      /\ live' \subseteq Keys \X Nat \X Nat /\ keyLock' \in [Keys -> Workers \cup {None}]
      /\ \A k \in Keys : keyLock'[k] = keyLock[k] \/ keyLock[k] \in {w, None}
      /\ keyLock' = keyLock
  BY <1>1, <1>2, <1>4, <1>5 DEF data, locks, TypeOK, KeyReleased, Key, Processes, Candidate,
         Reconciling
<1> HIDE DEF d
<1>7. "unlike" \in Places
      /\ "unlike" \in Publishing /\ "unlike" \in Started /\ "unlike" \in LockedPublishing
      /\ "unlike" \in Locked /\ "unlike" \notin Unclaimed /\ "unlike" \notin Keyless
      /\ "unlike" \notin AnyClaim /\ "unlike" \notin Composing
  BY DEF Places, Reconciliation, Working, Collecting, Unclaimed, AnyClaim, Keyless, Started,
         Publishing, Composing, Locked, LockedPublishing
<1>8. /\ e \in Processes
      /\ e.pc = "unlike" /\ e.key = d.key /\ e.att = d.att /\ e.i = d.i
      /\ e.cur = d.cur /\ e.comp = d.comp /\ e.cand = d.cand /\ e.gen = d.gen
  BY <1>1, <1>2, <1>4, <1>5, <1>7 DEF Processes
<1> HIDE DEF e
<1>9. WorkOK(e, rec)
  BY <1>1, <1>2, <1>4, <1>5, <1>7, <1>8 DEF WorkOK
<1>10. faults["lost"] = 0 => ClaimHolds(w, e, rec, head, keyLock') /\ SettlerHolds(e, rec)
  BY <1>1, <1>2, <1>4, <1>5, <1>6, <1>7, <1>8 DEF WorkOK, ClaimHolds, SettlerHolds
<1> QED BY <1>3, <1>6, <1>8, <1>9, <1>10, GoesKept

\* No outcome exists: Existing, first case.
LEMMA InsertsKept ==
    ASSUME IndustryInv, NEW w \in Workers,
           At(w, "enter"), worker' = [worker EXCEPT ![w].pc = "insert", ![w].cur = head],
           UNCHANGED <<data, op, rec, live, locks, faults>>
    PROVE  IndustryInv'
<1> DEFINE d == worker[w]
           e == [d EXCEPT !.pc = "insert", !.cur = head]
<1>1. /\ d \in Processes /\ WorkOK(d, rec)
      /\ faults["lost"] = 0 => ClaimHolds(w, d, rec, head, keyLock) /\ SettlerHolds(d, rec)
  BY Knows
<1>2. /\ d.pc = "enter"
  BY <1>1 DEF At, To, Key, Rec, Changed, Candidate
<1>3. worker' = [worker EXCEPT ![w] = e]
  BY <1>1 DEF To, Processes, Key, Rec, Candidate
<1>4. /\ TypeOK /\ head \in Generations /\ head # None
      /\ d.pc \notin Keyless => d.key \in Keys
      /\ \A k \in Keys : rec[k] \in Receipts /\ RecOK(k, rec[k])
  BY <1>1 DEF IndustryInv, TypeOK, WorkOK, RecsInv
<1>5. /\ d.pc \in Locked /\ d.pc \notin Unclaimed /\ d.pc \notin Keyless
      /\ d.pc \notin AnyClaim /\ d.pc \notin Publishing /\ d.pc \notin Started
      /\ d.pc \notin Composing /\ d.pc \notin LockedPublishing
  BY <1>2 DEF Unclaimed, AnyClaim, Keyless, Started, Publishing, Composing, Locked,
         LockedPublishing
<1>6. /\ UNCHANGED <<head, heads, op, rec, lifecycle, faults>>
      /\ live' \subseteq Keys \X Nat \X Nat /\ keyLock' \in [Keys -> Workers \cup {None}]
      /\ \A k \in Keys : keyLock'[k] = keyLock[k] \/ keyLock[k] \in {w, None}
      /\ keyLock' = keyLock
  BY <1>1, <1>2, <1>4, <1>5 DEF data, locks, TypeOK, KeyReleased, Key, Processes, Candidate
<1> HIDE DEF d
<1>7. "insert" \in Places
      /\ "insert" \in Locked /\ "insert" \notin Unclaimed /\ "insert" \notin Keyless
      /\ "insert" \notin AnyClaim /\ "insert" \notin Publishing
      /\ "insert" \notin Started /\ "insert" \notin Composing
      /\ "insert" \notin LockedPublishing
  BY DEF Places, Reconciliation, Working, Collecting, Unclaimed, AnyClaim, Keyless, Started,
         Publishing, Composing, Locked, LockedPublishing
<1>8. /\ e \in Processes
      /\ e.pc = "insert" /\ e.key = d.key /\ e.att = d.att /\ e.i = d.i
      /\ e.cur = head /\ e.comp = d.comp /\ e.cand = d.cand /\ e.gen = d.gen
  BY <1>1, <1>2, <1>4, <1>5, <1>7 DEF Processes
<1> HIDE DEF e
<1>9. WorkOK(e, rec)
  BY <1>1, <1>2, <1>4, <1>5, <1>7, <1>8 DEF WorkOK
<1>10. faults["lost"] = 0 => ClaimHolds(w, e, rec, head, keyLock') /\ SettlerHolds(e, rec)
  BY <1>1, <1>2, <1>4, <1>5, <1>6, <1>7, <1>8 DEF WorkOK, ClaimHolds, SettlerHolds
<1> QED BY <1>3, <1>6, <1>8, <1>9, <1>10, GoesKept

\* An earlier attempt has published: Existing, second case.
LEMMA CompletedKept ==
    ASSUME IndustryInv, NEW w \in Workers,
           At(w, "enter"), Rec(w).st = "succeeded", Rec(w).pub # None,
           worker' = [worker EXCEPT ![w].pc = "complete", ![w].cand = Rec(w).cand,
                                       ![w].gen = Rec(w).pub],
           KeyReleased(w), UNCHANGED <<data, op, rec, live, lifecycle, faults>>
    PROVE  IndustryInv'
<1> DEFINE d == worker[w]
           e == [d EXCEPT !.pc = "complete", !.cand = rec[d.key].cand, !.gen = rec[d.key].pub]
<1>1. /\ d \in Processes /\ WorkOK(d, rec)
      /\ faults["lost"] = 0 => ClaimHolds(w, d, rec, head, keyLock) /\ SettlerHolds(d, rec)
  BY Knows
<1>2. /\ d.pc = "enter"
      /\ rec[d.key].st = "succeeded" /\ rec[d.key].pub # None
  BY <1>1 DEF KeyReleased, At, To, Key, Rec, Changed, Candidate
<1>3. worker' = [worker EXCEPT ![w] = e]
  BY <1>1 DEF KeyReleased, To, Processes, Key, Rec, Candidate
<1>4. /\ TypeOK /\ head \in Generations /\ head # None
      /\ d.pc \notin Keyless => d.key \in Keys
      /\ \A k \in Keys : rec[k] \in Receipts /\ RecOK(k, rec[k])
  BY <1>1 DEF IndustryInv, TypeOK, WorkOK, RecsInv
<1>5. /\ d.pc \in Locked /\ d.pc \notin Unclaimed /\ d.pc \notin Keyless
      /\ d.pc \notin AnyClaim /\ d.pc \notin Publishing /\ d.pc \notin Started
      /\ d.pc \notin Composing /\ d.pc \notin LockedPublishing
  BY <1>2 DEF Unclaimed, AnyClaim, Keyless, Started, Publishing, Composing, Locked,
         LockedPublishing
<1>6. /\ UNCHANGED <<head, heads, op, rec, lifecycle, faults>>
      /\ live' \subseteq Keys \X Nat \X Nat /\ keyLock' \in [Keys -> Workers \cup {None}]
      /\ \A k \in Keys : keyLock'[k] = keyLock[k] \/ keyLock[k] \in {w, None}
      /\ TRUE
  BY <1>1, <1>2, <1>4, <1>5 DEF KeyReleased, data, locks, TypeOK, KeyReleased, Key, Processes,
         Candidate
<1> HIDE DEF d
<1>7. "complete" \in Places
      /\ "complete" \in Publishing /\ "complete" \in Started
      /\ "complete" \notin Unclaimed /\ "complete" \notin Keyless
      /\ "complete" \notin AnyClaim /\ "complete" \notin Composing
      /\ "complete" \notin LockedPublishing /\ "complete" \notin Locked
  BY DEF Places, Reconciliation, Working, Collecting, Unclaimed, AnyClaim, Keyless, Started,
         Publishing, Composing, Locked, LockedPublishing
<1>8. /\ e \in Processes
      /\ e.pc = "complete" /\ e.key = d.key /\ e.att = d.att /\ e.i = d.i
      /\ e.cur = d.cur /\ e.comp = d.comp /\ e.cand = rec[d.key].cand /\ e.gen = rec[d.key].pub
  BY <1>1, <1>2, <1>4, <1>5, <1>7 DEF Processes, Receipts
<1> HIDE DEF e
<1>9. WorkOK(e, rec)
  BY <1>1, <1>2, <1>4, <1>5, <1>7, <1>8 DEF WorkOK, RecOK
<1>10. faults["lost"] = 0 => ClaimHolds(w, e, rec, head, keyLock') /\ SettlerHolds(e, rec)
  BY <1>1, <1>2, <1>4, <1>5, <1>6, <1>7, <1>8 DEF WorkOK, ClaimHolds, SettlerHolds
<1> QED BY <1>3, <1>6, <1>8, <1>9, <1>10, GoesKept

\* An earlier attempt has built the candidate: Existing, third case.
LEMMA ResumesKept ==
    ASSUME IndustryInv, NEW w \in Workers, At(w, "enter"), Rec(w).st = "succeeded",
           worker' = [worker EXCEPT ![w].pc = "publish", ![w].cand = Rec(w).cand],
           UNCHANGED <<data, op, rec, live, locks, faults>>
    PROVE  IndustryInv'
<1> DEFINE d == worker[w]
           e == [d EXCEPT !.pc = "publish", !.cand = rec[d.key].cand]
<1>1. /\ d \in Processes /\ WorkOK(d, rec)
      /\ faults["lost"] = 0 => ClaimHolds(w, d, rec, head, keyLock) /\ SettlerHolds(d, rec)
  BY Knows
<1>2. /\ d.pc = "enter"
      /\ rec[d.key].st = "succeeded"
  BY <1>1 DEF At, To, Key, Rec, Changed, Candidate
<1>3. worker' = [worker EXCEPT ![w] = e]
  BY <1>1 DEF To, Processes, Key, Rec, Candidate
<1>4. /\ TypeOK /\ head \in Generations /\ head # None
      /\ d.pc \notin Keyless => d.key \in Keys
      /\ \A k \in Keys : rec[k] \in Receipts /\ RecOK(k, rec[k])
  BY <1>1 DEF IndustryInv, TypeOK, WorkOK, RecsInv
<1>5. /\ d.pc \in Locked /\ d.pc \notin Unclaimed /\ d.pc \notin Keyless
      /\ d.pc \notin AnyClaim /\ d.pc \notin Publishing /\ d.pc \notin Started
      /\ d.pc \notin Composing /\ d.pc \notin LockedPublishing
  BY <1>2 DEF Unclaimed, AnyClaim, Keyless, Started, Publishing, Composing, Locked,
         LockedPublishing
<1>6. /\ UNCHANGED <<head, heads, op, rec, lifecycle, faults>>
      /\ live' \subseteq Keys \X Nat \X Nat /\ keyLock' \in [Keys -> Workers \cup {None}]
      /\ \A k \in Keys : keyLock'[k] = keyLock[k] \/ keyLock[k] \in {w, None}
      /\ keyLock' = keyLock
  BY <1>1, <1>2, <1>4, <1>5 DEF data, locks, TypeOK, KeyReleased, Key, Processes, Candidate
<1> HIDE DEF d
<1>7. "publish" \in Places
      /\ "publish" \in Publishing /\ "publish" \in Started
      /\ "publish" \in LockedPublishing /\ "publish" \in Locked
      /\ "publish" \notin Unclaimed /\ "publish" \notin Keyless
      /\ "publish" \notin AnyClaim /\ "publish" \notin Composing
  BY DEF Places, Reconciliation, Working, Collecting, Unclaimed, AnyClaim, Keyless, Started,
         Publishing, Composing, Locked, LockedPublishing
<1>8. /\ e \in Processes
      /\ e.pc = "publish" /\ e.key = d.key /\ e.att = d.att /\ e.i = d.i
      /\ e.cur = d.cur /\ e.comp = d.comp /\ e.cand = rec[d.key].cand /\ e.gen = d.gen
  BY <1>1, <1>2, <1>4, <1>5, <1>7 DEF Processes, Receipts
<1> HIDE DEF e
<1>9. WorkOK(e, rec)
  BY <1>1, <1>2, <1>4, <1>5, <1>7, <1>8 DEF WorkOK, RecOK
<1>10. faults["lost"] = 0 => ClaimHolds(w, e, rec, head, keyLock') /\ SettlerHolds(e, rec)
  BY <1>1, <1>2, <1>4, <1>5, <1>6, <1>7, <1>8 DEF WorkOK, ClaimHolds, SettlerHolds
<1> QED BY <1>3, <1>6, <1>8, <1>9, <1>10, GoesKept

\* The collection begins: BeginBuild, first case.
LEMMA CollectingKept ==
    ASSUME IndustryInv, NEW w \in Workers, At(w, "collect"), To(w, "collecting"),
           UNCHANGED <<data, op, rec, live, locks, faults>>
    PROVE  IndustryInv'
<1> DEFINE d == worker[w]
           e == [d EXCEPT !.pc = "collecting"]
<1>1. /\ d \in Processes /\ WorkOK(d, rec)
      /\ faults["lost"] = 0 => ClaimHolds(w, d, rec, head, keyLock) /\ SettlerHolds(d, rec)
  BY Knows
<1>2. /\ d.pc = "collect"
  BY <1>1 DEF At, To, Key, Rec, Changed, Candidate
<1>3. worker' = [worker EXCEPT ![w] = e]
  BY <1>1 DEF To, Processes, Key, Rec, Candidate
<1>4. /\ TypeOK /\ head \in Generations /\ head # None
      /\ d.pc \notin Keyless => d.key \in Keys
      /\ \A k \in Keys : rec[k] \in Receipts /\ RecOK(k, rec[k])
  BY <1>1 DEF IndustryInv, TypeOK, WorkOK, RecsInv
<1>5. /\ d.pc \in Started /\ d.pc \in Locked /\ d.pc \notin Unclaimed
      /\ d.pc \notin Keyless /\ d.pc \notin AnyClaim /\ d.pc \notin Publishing
      /\ d.pc \notin Composing /\ d.pc \notin LockedPublishing
  BY <1>2 DEF Unclaimed, AnyClaim, Keyless, Started, Publishing, Composing, Locked,
         LockedPublishing
<1>6. /\ UNCHANGED <<head, heads, op, rec, lifecycle, faults>>
      /\ live' \subseteq Keys \X Nat \X Nat /\ keyLock' \in [Keys -> Workers \cup {None}]
      /\ \A k \in Keys : keyLock'[k] = keyLock[k] \/ keyLock[k] \in {w, None}
      /\ keyLock' = keyLock
  BY <1>1, <1>2, <1>4, <1>5 DEF data, locks, TypeOK, KeyReleased, Key, Processes, Candidate
<1> HIDE DEF d
<1>7. "collecting" \in Places
      /\ "collecting" \in Started /\ "collecting" \in Locked
      /\ "collecting" \notin Unclaimed /\ "collecting" \notin Keyless
      /\ "collecting" \notin AnyClaim /\ "collecting" \notin Publishing
      /\ "collecting" \notin Composing /\ "collecting" \notin LockedPublishing
  BY DEF Places, Reconciliation, Working, Collecting, Unclaimed, AnyClaim, Keyless, Started,
         Publishing, Composing, Locked, LockedPublishing
<1>8. /\ e \in Processes
      /\ e.pc = "collecting" /\ e.key = d.key /\ e.att = d.att /\ e.i = d.i
      /\ e.cur = d.cur /\ e.comp = d.comp /\ e.cand = d.cand /\ e.gen = d.gen
  BY <1>1, <1>2, <1>4, <1>5, <1>7 DEF Processes
<1> HIDE DEF e
<1>9. WorkOK(e, rec)
  BY <1>1, <1>2, <1>4, <1>5, <1>7, <1>8 DEF WorkOK
<1>10. faults["lost"] = 0 => ClaimHolds(w, e, rec, head, keyLock') /\ SettlerHolds(e, rec)
  BY <1>1, <1>2, <1>4, <1>5, <1>6, <1>7, <1>8 DEF WorkOK, ClaimHolds, SettlerHolds
<1> QED BY <1>3, <1>6, <1>8, <1>9, <1>10, GoesKept

\* Another attempt has the candidate: BeginBuild, second case.
LEMMA TakesCandidateKept ==
    ASSUME IndustryInv, NEW w \in Workers, At(w, "collect"), Rec(w).st = "succeeded",
           worker' = [worker EXCEPT ![w].pc = "publish", ![w].cand = Rec(w).cand],
           UNCHANGED <<data, op, rec, live, locks, faults>>
    PROVE  IndustryInv'
<1> DEFINE d == worker[w]
           e == [d EXCEPT !.pc = "publish", !.cand = rec[d.key].cand]
<1>1. /\ d \in Processes /\ WorkOK(d, rec)
      /\ faults["lost"] = 0 => ClaimHolds(w, d, rec, head, keyLock) /\ SettlerHolds(d, rec)
  BY Knows
<1>2. /\ d.pc = "collect"
      /\ rec[d.key].st = "succeeded"
  BY <1>1 DEF At, To, Key, Rec, Changed, Candidate
<1>3. worker' = [worker EXCEPT ![w] = e]
  BY <1>1 DEF To, Processes, Key, Rec, Candidate
<1>4. /\ TypeOK /\ head \in Generations /\ head # None
      /\ d.pc \notin Keyless => d.key \in Keys
      /\ \A k \in Keys : rec[k] \in Receipts /\ RecOK(k, rec[k])
  BY <1>1 DEF IndustryInv, TypeOK, WorkOK, RecsInv
<1>5. /\ d.pc \in Started /\ d.pc \in Locked /\ d.pc \notin Unclaimed
      /\ d.pc \notin Keyless /\ d.pc \notin AnyClaim /\ d.pc \notin Publishing
      /\ d.pc \notin Composing /\ d.pc \notin LockedPublishing
  BY <1>2 DEF Unclaimed, AnyClaim, Keyless, Started, Publishing, Composing, Locked,
         LockedPublishing
<1>6. /\ UNCHANGED <<head, heads, op, rec, lifecycle, faults>>
      /\ live' \subseteq Keys \X Nat \X Nat /\ keyLock' \in [Keys -> Workers \cup {None}]
      /\ \A k \in Keys : keyLock'[k] = keyLock[k] \/ keyLock[k] \in {w, None}
      /\ keyLock' = keyLock
  BY <1>1, <1>2, <1>4, <1>5 DEF data, locks, TypeOK, KeyReleased, Key, Processes, Candidate
<1> HIDE DEF d
<1>7. "publish" \in Places
      /\ "publish" \in Publishing /\ "publish" \in Started
      /\ "publish" \in LockedPublishing /\ "publish" \in Locked
      /\ "publish" \notin Unclaimed /\ "publish" \notin Keyless
      /\ "publish" \notin AnyClaim /\ "publish" \notin Composing
  BY DEF Places, Reconciliation, Working, Collecting, Unclaimed, AnyClaim, Keyless, Started,
         Publishing, Composing, Locked, LockedPublishing
<1>8. /\ e \in Processes
      /\ e.pc = "publish" /\ e.key = d.key /\ e.att = d.att /\ e.i = d.i
      /\ e.cur = d.cur /\ e.comp = d.comp /\ e.cand = rec[d.key].cand /\ e.gen = d.gen
  BY <1>1, <1>2, <1>4, <1>5, <1>7 DEF Processes, Receipts
<1> HIDE DEF e
<1>9. WorkOK(e, rec)
  BY <1>1, <1>2, <1>4, <1>5, <1>7, <1>8 DEF WorkOK, RecOK
<1>10. faults["lost"] = 0 => ClaimHolds(w, e, rec, head, keyLock') /\ SettlerHolds(e, rec)
  BY <1>1, <1>2, <1>4, <1>5, <1>6, <1>7, <1>8 DEF WorkOK, ClaimHolds, SettlerHolds
<1> QED BY <1>3, <1>6, <1>8, <1>9, <1>10, GoesKept

\* The source answers.
LEMMA CollectedKept ==
    ASSUME IndustryInv, NEW w \in Workers,
           NEW c \in Contents, At(w, "collecting"),
           worker' = [worker EXCEPT ![w].pc = "built", ![w].cand = c],
           UNCHANGED <<data, op, rec, live, locks, faults>>
    PROVE  IndustryInv'
<1> DEFINE d == worker[w]
           e == [d EXCEPT !.pc = "built", !.cand = c]
<1>1. /\ d \in Processes /\ WorkOK(d, rec)
      /\ faults["lost"] = 0 => ClaimHolds(w, d, rec, head, keyLock) /\ SettlerHolds(d, rec)
  BY Knows
<1>2. /\ d.pc = "collecting"
  BY <1>1 DEF At, To, Key, Rec, Changed, Candidate
<1>3. worker' = [worker EXCEPT ![w] = e]
  BY <1>1 DEF To, Processes, Key, Rec, Candidate
<1>4. /\ TypeOK /\ head \in Generations /\ head # None
      /\ d.pc \notin Keyless => d.key \in Keys
      /\ \A k \in Keys : rec[k] \in Receipts /\ RecOK(k, rec[k])
  BY <1>1 DEF IndustryInv, TypeOK, WorkOK, RecsInv
<1>5. /\ d.pc \in Started /\ d.pc \in Locked /\ d.pc \notin Unclaimed
      /\ d.pc \notin Keyless /\ d.pc \notin AnyClaim /\ d.pc \notin Publishing
      /\ d.pc \notin Composing /\ d.pc \notin LockedPublishing
  BY <1>2 DEF Unclaimed, AnyClaim, Keyless, Started, Publishing, Composing, Locked,
         LockedPublishing
<1>6. /\ UNCHANGED <<head, heads, op, rec, lifecycle, faults>>
      /\ live' \subseteq Keys \X Nat \X Nat /\ keyLock' \in [Keys -> Workers \cup {None}]
      /\ \A k \in Keys : keyLock'[k] = keyLock[k] \/ keyLock[k] \in {w, None}
      /\ keyLock' = keyLock
  BY <1>1, <1>2, <1>4, <1>5 DEF data, locks, TypeOK, KeyReleased, Key, Processes, Candidate
<1> HIDE DEF d
<1>7. "built" \in Places
      /\ "built" \in Started /\ "built" \in Locked /\ "built" \notin Unclaimed
      /\ "built" \notin Keyless /\ "built" \notin AnyClaim /\ "built" \notin Publishing
      /\ "built" \notin Composing /\ "built" \notin LockedPublishing
  BY DEF Places, Reconciliation, Working, Collecting, Unclaimed, AnyClaim, Keyless, Started,
         Publishing, Composing, Locked, LockedPublishing
<1>8. /\ e \in Processes
      /\ e.pc = "built" /\ e.key = d.key /\ e.att = d.att /\ e.i = d.i
      /\ e.cur = d.cur /\ e.comp = d.comp /\ e.cand = c /\ e.gen = d.gen
  BY <1>1, <1>2, <1>4, <1>5, <1>7 DEF Processes
<1> HIDE DEF e
<1>9. WorkOK(e, rec)
  BY <1>1, <1>2, <1>4, <1>5, <1>7, <1>8 DEF WorkOK
<1>10. faults["lost"] = 0 => ClaimHolds(w, e, rec, head, keyLock') /\ SettlerHolds(e, rec)
  BY <1>1, <1>2, <1>4, <1>5, <1>6, <1>7, <1>8 DEF WorkOK, ClaimHolds, SettlerHolds
<1> QED BY <1>3, <1>6, <1>8, <1>9, <1>10, GoesKept

\* The receipt has a publication: ReadReceipt, first case.
LEMMA AlreadyPublishedKept ==
    ASSUME IndustryInv, NEW w \in Workers, At(w, "publish"), Rec(w).pub # None,
           worker' = [worker EXCEPT ![w].pc = "complete", ![w].gen = Rec(w).pub],
           KeyReleased(w), UNCHANGED <<data, op, rec, live, lifecycle, faults>>
    PROVE  IndustryInv'
<1> DEFINE d == worker[w]
           e == [d EXCEPT !.pc = "complete", !.gen = rec[d.key].pub]
<1>1. /\ d \in Processes /\ WorkOK(d, rec)
      /\ faults["lost"] = 0 => ClaimHolds(w, d, rec, head, keyLock) /\ SettlerHolds(d, rec)
  BY Knows
<1>2. /\ d.pc = "publish"
      /\ rec[d.key].pub # None
  BY <1>1 DEF KeyReleased, At, To, Key, Rec, Changed, Candidate
<1>3. worker' = [worker EXCEPT ![w] = e]
  BY <1>1 DEF KeyReleased, To, Processes, Key, Rec, Candidate
<1>4. /\ TypeOK /\ head \in Generations /\ head # None
      /\ d.pc \notin Keyless => d.key \in Keys
      /\ \A k \in Keys : rec[k] \in Receipts /\ RecOK(k, rec[k])
  BY <1>1 DEF IndustryInv, TypeOK, WorkOK, RecsInv
<1>5. /\ d.pc \in Publishing /\ d.pc \in Started /\ d.pc \in LockedPublishing
      /\ d.pc \in Locked /\ d.pc \notin Unclaimed /\ d.pc \notin Keyless
      /\ d.pc \notin AnyClaim /\ d.pc \notin Composing
  BY <1>2 DEF Unclaimed, AnyClaim, Keyless, Started, Publishing, Composing, Locked,
         LockedPublishing
<1>6. /\ UNCHANGED <<head, heads, op, rec, lifecycle, faults>>
      /\ live' \subseteq Keys \X Nat \X Nat /\ keyLock' \in [Keys -> Workers \cup {None}]
      /\ \A k \in Keys : keyLock'[k] = keyLock[k] \/ keyLock[k] \in {w, None}
      /\ TRUE
  BY <1>1, <1>2, <1>4, <1>5 DEF KeyReleased, data, locks, TypeOK, KeyReleased, Key, Processes,
         Candidate
<1> HIDE DEF d
<1>7. "complete" \in Places
      /\ "complete" \in Publishing /\ "complete" \in Started
      /\ "complete" \notin Unclaimed /\ "complete" \notin Keyless
      /\ "complete" \notin AnyClaim /\ "complete" \notin Composing
      /\ "complete" \notin LockedPublishing /\ "complete" \notin Locked
  BY DEF Places, Reconciliation, Working, Collecting, Unclaimed, AnyClaim, Keyless, Started,
         Publishing, Composing, Locked, LockedPublishing
<1>8. /\ e \in Processes
      /\ e.pc = "complete" /\ e.key = d.key /\ e.att = d.att /\ e.i = d.i
      /\ e.cur = d.cur /\ e.comp = d.comp /\ e.cand = d.cand /\ e.gen = rec[d.key].pub
  BY <1>1, <1>2, <1>4, <1>5, <1>7 DEF Processes, Receipts
<1> HIDE DEF e
<1>9. WorkOK(e, rec)
  BY <1>1, <1>2, <1>4, <1>5, <1>7, <1>8 DEF WorkOK, RecOK
<1>10. faults["lost"] = 0 => ClaimHolds(w, e, rec, head, keyLock') /\ SettlerHolds(e, rec)
  BY <1>1, <1>2, <1>4, <1>5, <1>6, <1>7, <1>8 DEF WorkOK, ClaimHolds, SettlerHolds
<1> QED BY <1>3, <1>6, <1>8, <1>9, <1>10, GoesKept

\* It has none: ReadReceipt, second case.
LEMMA LooksKept ==
    ASSUME IndustryInv, NEW w \in Workers, At(w, "publish"), To(w, "look"),
           UNCHANGED <<data, op, rec, live, locks, faults>>
    PROVE  IndustryInv'
<1> DEFINE d == worker[w]
           e == [d EXCEPT !.pc = "look"]
<1>1. /\ d \in Processes /\ WorkOK(d, rec)
      /\ faults["lost"] = 0 => ClaimHolds(w, d, rec, head, keyLock) /\ SettlerHolds(d, rec)
  BY Knows
<1>2. /\ d.pc = "publish"
  BY <1>1 DEF At, To, Key, Rec, Changed, Candidate
<1>3. worker' = [worker EXCEPT ![w] = e]
  BY <1>1 DEF To, Processes, Key, Rec, Candidate
<1>4. /\ TypeOK /\ head \in Generations /\ head # None
      /\ d.pc \notin Keyless => d.key \in Keys
      /\ \A k \in Keys : rec[k] \in Receipts /\ RecOK(k, rec[k])
  BY <1>1 DEF IndustryInv, TypeOK, WorkOK, RecsInv
<1>5. /\ d.pc \in Publishing /\ d.pc \in Started /\ d.pc \in LockedPublishing
      /\ d.pc \in Locked /\ d.pc \notin Unclaimed /\ d.pc \notin Keyless
      /\ d.pc \notin AnyClaim /\ d.pc \notin Composing
  BY <1>2 DEF Unclaimed, AnyClaim, Keyless, Started, Publishing, Composing, Locked,
         LockedPublishing
<1>6. /\ UNCHANGED <<head, heads, op, rec, lifecycle, faults>>
      /\ live' \subseteq Keys \X Nat \X Nat /\ keyLock' \in [Keys -> Workers \cup {None}]
      /\ \A k \in Keys : keyLock'[k] = keyLock[k] \/ keyLock[k] \in {w, None}
      /\ keyLock' = keyLock
  BY <1>1, <1>2, <1>4, <1>5 DEF data, locks, TypeOK, KeyReleased, Key, Processes, Candidate
<1> HIDE DEF d
<1>7. "look" \in Places
      /\ "look" \in Publishing /\ "look" \in Started /\ "look" \in LockedPublishing
      /\ "look" \in Locked /\ "look" \notin Unclaimed /\ "look" \notin Keyless
      /\ "look" \notin AnyClaim /\ "look" \notin Composing
  BY DEF Places, Reconciliation, Working, Collecting, Unclaimed, AnyClaim, Keyless, Started,
         Publishing, Composing, Locked, LockedPublishing
<1>8. /\ e \in Processes
      /\ e.pc = "look" /\ e.key = d.key /\ e.att = d.att /\ e.i = d.i
      /\ e.cur = d.cur /\ e.comp = d.comp /\ e.cand = d.cand /\ e.gen = d.gen
  BY <1>1, <1>2, <1>4, <1>5, <1>7 DEF Processes
<1> HIDE DEF e
<1>9. WorkOK(e, rec)
  BY <1>1, <1>2, <1>4, <1>5, <1>7, <1>8 DEF WorkOK
<1>10. faults["lost"] = 0 => ClaimHolds(w, e, rec, head, keyLock') /\ SettlerHolds(e, rec)
  BY <1>1, <1>2, <1>4, <1>5, <1>6, <1>7, <1>8 DEF WorkOK, ClaimHolds, SettlerHolds
<1> QED BY <1>3, <1>6, <1>8, <1>9, <1>10, GoesKept

\* The Head is the operation's publication: LookAtHead, first case.
LEMMA SeesItselfKept ==
    ASSUME IndustryInv, NEW w \in Workers,
           At(w, "look"), Matches(Key(w), worker[w].cand, head), Changed(w),
           worker' = [worker EXCEPT ![w].pc = "moving", ![w].gen = head],
           UNCHANGED <<data, op, rec, live, locks, faults>>
    PROVE  IndustryInv'
<1> DEFINE d == worker[w]
           e == [d EXCEPT !.pc = "moving", !.gen = head]
<1>1. /\ d \in Processes /\ WorkOK(d, rec)
      /\ faults["lost"] = 0 => ClaimHolds(w, d, rec, head, keyLock) /\ SettlerHolds(d, rec)
  BY Knows
<1>2. /\ d.pc = "look"
      /\ Matches(d.key, d.cand, head) /\ d.cand # rec[d.key].prior
  BY <1>1 DEF At, To, Key, Rec, Changed, Candidate
<1>3. worker' = [worker EXCEPT ![w] = e]
  BY <1>1 DEF To, Processes, Key, Rec, Candidate
<1>4. /\ TypeOK /\ head \in Generations /\ head # None
      /\ d.pc \notin Keyless => d.key \in Keys
      /\ \A k \in Keys : rec[k] \in Receipts /\ RecOK(k, rec[k])
  BY <1>1 DEF IndustryInv, TypeOK, WorkOK, RecsInv
<1>5. /\ d.pc \in Publishing /\ d.pc \in Started /\ d.pc \in LockedPublishing
      /\ d.pc \in Locked /\ d.pc \notin Unclaimed /\ d.pc \notin Keyless
      /\ d.pc \notin AnyClaim /\ d.pc \notin Composing
  BY <1>2 DEF Unclaimed, AnyClaim, Keyless, Started, Publishing, Composing, Locked,
         LockedPublishing
<1>6. /\ UNCHANGED <<head, heads, op, rec, lifecycle, faults>>
      /\ live' \subseteq Keys \X Nat \X Nat /\ keyLock' \in [Keys -> Workers \cup {None}]
      /\ \A k \in Keys : keyLock'[k] = keyLock[k] \/ keyLock[k] \in {w, None}
      /\ keyLock' = keyLock
  BY <1>1, <1>2, <1>4, <1>5 DEF data, locks, TypeOK, KeyReleased, Key, Processes, Candidate
<1> HIDE DEF d
<1>7. "moving" \in Places
      /\ "moving" \in Publishing /\ "moving" \in Started /\ "moving" \in LockedPublishing
      /\ "moving" \in Locked /\ "moving" \notin Unclaimed /\ "moving" \notin Keyless
      /\ "moving" \notin AnyClaim /\ "moving" \notin Composing
  BY DEF Places, Reconciliation, Working, Collecting, Unclaimed, AnyClaim, Keyless, Started,
         Publishing, Composing, Locked, LockedPublishing
<1>8. /\ e \in Processes
      /\ e.pc = "moving" /\ e.key = d.key /\ e.att = d.att /\ e.i = d.i
      /\ e.cur = d.cur /\ e.comp = d.comp /\ e.cand = d.cand /\ e.gen = head
  BY <1>1, <1>2, <1>4, <1>5, <1>7 DEF Processes
<1> HIDE DEF e
<1>9. WorkOK(e, rec)
  BY <1>1, <1>2, <1>4, <1>5, <1>7, <1>8 DEF WorkOK, Matches
<1>10. faults["lost"] = 0 => ClaimHolds(w, e, rec, head, keyLock') /\ SettlerHolds(e, rec)
  BY <1>1, <1>2, <1>4, <1>5, <1>6, <1>7, <1>8 DEF WorkOK, ClaimHolds, SettlerHolds, Matches
<1> QED BY <1>3, <1>6, <1>8, <1>9, <1>10, GoesKept

\* The Head carries the confirmed content: LookAtHead, second case.
LEMMA SeesItsContentKept ==
    ASSUME IndustryInv, NEW w \in Workers,
           At(w, "look"), worker' = [worker EXCEPT ![w].pc = "receipt", ![w].gen = head],
           UNCHANGED <<data, op, rec, live, locks, faults>>
    PROVE  IndustryInv'
<1> DEFINE d == worker[w]
           e == [d EXCEPT !.pc = "receipt", !.gen = head]
<1>1. /\ d \in Processes /\ WorkOK(d, rec)
      /\ faults["lost"] = 0 => ClaimHolds(w, d, rec, head, keyLock) /\ SettlerHolds(d, rec)
  BY Knows
<1>2. /\ d.pc = "look"
  BY <1>1 DEF At, To, Key, Rec, Changed, Candidate
<1>3. worker' = [worker EXCEPT ![w] = e]
  BY <1>1 DEF To, Processes, Key, Rec, Candidate
<1>4. /\ TypeOK /\ head \in Generations /\ head # None
      /\ d.pc \notin Keyless => d.key \in Keys
      /\ \A k \in Keys : rec[k] \in Receipts /\ RecOK(k, rec[k])
  BY <1>1 DEF IndustryInv, TypeOK, WorkOK, RecsInv
<1>5. /\ d.pc \in Publishing /\ d.pc \in Started /\ d.pc \in LockedPublishing
      /\ d.pc \in Locked /\ d.pc \notin Unclaimed /\ d.pc \notin Keyless
      /\ d.pc \notin AnyClaim /\ d.pc \notin Composing
  BY <1>2 DEF Unclaimed, AnyClaim, Keyless, Started, Publishing, Composing, Locked,
         LockedPublishing
<1>6. /\ UNCHANGED <<head, heads, op, rec, lifecycle, faults>>
      /\ live' \subseteq Keys \X Nat \X Nat /\ keyLock' \in [Keys -> Workers \cup {None}]
      /\ \A k \in Keys : keyLock'[k] = keyLock[k] \/ keyLock[k] \in {w, None}
      /\ keyLock' = keyLock
  BY <1>1, <1>2, <1>4, <1>5 DEF data, locks, TypeOK, KeyReleased, Key, Processes, Candidate
<1> HIDE DEF d
<1>7. "receipt" \in Places
      /\ "receipt" \in AnyClaim /\ "receipt" \in Publishing /\ "receipt" \in Started
      /\ "receipt" \in LockedPublishing /\ "receipt" \in Locked
      /\ "receipt" \notin Unclaimed /\ "receipt" \notin Keyless
      /\ "receipt" \notin Composing
  BY DEF Places, Reconciliation, Working, Collecting, Unclaimed, AnyClaim, Keyless, Started,
         Publishing, Composing, Locked, LockedPublishing
<1>8. /\ e \in Processes
      /\ e.pc = "receipt" /\ e.key = d.key /\ e.att = d.att /\ e.i = d.i
      /\ e.cur = d.cur /\ e.comp = d.comp /\ e.cand = d.cand /\ e.gen = head
  BY <1>1, <1>2, <1>4, <1>5, <1>7 DEF Processes
<1> HIDE DEF e
<1>9. WorkOK(e, rec)
  BY <1>1, <1>2, <1>4, <1>5, <1>7, <1>8 DEF WorkOK
<1>10. faults["lost"] = 0 => ClaimHolds(w, e, rec, head, keyLock') /\ SettlerHolds(e, rec)
  BY <1>1, <1>2, <1>4, <1>5, <1>6, <1>7, <1>8 DEF WorkOK, ClaimHolds, SettlerHolds
<1> QED BY <1>3, <1>6, <1>8, <1>9, <1>10, GoesKept

\* A changed candidate is to be published: LookAtHead, third case.
LEMMA TriesKept ==
    ASSUME IndustryInv, NEW w \in Workers,
           At(w, "look"), ~Matches(Key(w), worker[w].cand, head), Changed(w),
           To(w, "try"),
           UNCHANGED <<data, op, rec, live, locks, faults>>
    PROVE  IndustryInv'
<1> DEFINE d == worker[w]
           e == [d EXCEPT !.pc = "try"]
<1>1. /\ d \in Processes /\ WorkOK(d, rec)
      /\ faults["lost"] = 0 => ClaimHolds(w, d, rec, head, keyLock) /\ SettlerHolds(d, rec)
  BY Knows
<1>2. /\ d.pc = "look"
      /\ ~Matches(d.key, d.cand, head) /\ d.cand # rec[d.key].prior
  BY <1>1 DEF At, To, Key, Rec, Changed, Candidate
<1>3. worker' = [worker EXCEPT ![w] = e]
  BY <1>1 DEF To, Processes, Key, Rec, Candidate
<1>4. /\ TypeOK /\ head \in Generations /\ head # None
      /\ d.pc \notin Keyless => d.key \in Keys
      /\ \A k \in Keys : rec[k] \in Receipts /\ RecOK(k, rec[k])
  BY <1>1 DEF IndustryInv, TypeOK, WorkOK, RecsInv
<1>5. /\ d.pc \in Publishing /\ d.pc \in Started /\ d.pc \in LockedPublishing
      /\ d.pc \in Locked /\ d.pc \notin Unclaimed /\ d.pc \notin Keyless
      /\ d.pc \notin AnyClaim /\ d.pc \notin Composing
  BY <1>2 DEF Unclaimed, AnyClaim, Keyless, Started, Publishing, Composing, Locked,
         LockedPublishing
<1>6. /\ UNCHANGED <<head, heads, op, rec, lifecycle, faults>>
      /\ live' \subseteq Keys \X Nat \X Nat /\ keyLock' \in [Keys -> Workers \cup {None}]
      /\ \A k \in Keys : keyLock'[k] = keyLock[k] \/ keyLock[k] \in {w, None}
      /\ keyLock' = keyLock
  BY <1>1, <1>2, <1>4, <1>5 DEF data, locks, TypeOK, KeyReleased, Key, Processes, Candidate
<1> HIDE DEF d
<1>7. "try" \in Places
      /\ "try" \in Publishing /\ "try" \in Started /\ "try" \in LockedPublishing
      /\ "try" \in Locked /\ "try" \notin Unclaimed /\ "try" \notin Keyless
      /\ "try" \notin AnyClaim /\ "try" \notin Composing
  BY DEF Places, Reconciliation, Working, Collecting, Unclaimed, AnyClaim, Keyless, Started,
         Publishing, Composing, Locked, LockedPublishing
<1>8. /\ e \in Processes
      /\ e.pc = "try" /\ e.key = d.key /\ e.att = d.att /\ e.i = d.i
      /\ e.cur = d.cur /\ e.comp = d.comp /\ e.cand = d.cand /\ e.gen = d.gen
  BY <1>1, <1>2, <1>4, <1>5, <1>7 DEF Processes
<1> HIDE DEF e
<1>9. WorkOK(e, rec)
  BY <1>1, <1>2, <1>4, <1>5, <1>7, <1>8 DEF WorkOK, Matches
<1>10. faults["lost"] = 0 => ClaimHolds(w, e, rec, head, keyLock') /\ SettlerHolds(e, rec)
  BY <1>1, <1>2, <1>4, <1>5, <1>6, <1>7, <1>8 DEF WorkOK, ClaimHolds, SettlerHolds, Matches
<1> QED BY <1>3, <1>6, <1>8, <1>9, <1>10, GoesKept

\* An unchanged one is to be confirmed: LookAtHead, fourth case.
LEMMA ConfirmsNoChangeKept ==
    ASSUME IndustryInv, NEW w \in Workers, At(w, "look"), ~Changed(w),
           To(w, "unchanged"),
           UNCHANGED <<data, op, rec, live, locks, faults>>
    PROVE  IndustryInv'
<1> DEFINE d == worker[w]
           e == [d EXCEPT !.pc = "unchanged"]
<1>1. /\ d \in Processes /\ WorkOK(d, rec)
      /\ faults["lost"] = 0 => ClaimHolds(w, d, rec, head, keyLock) /\ SettlerHolds(d, rec)
  BY Knows
<1>2. /\ d.pc = "look"
      /\ d.cand = rec[d.key].prior
  BY <1>1 DEF At, To, Key, Rec, Changed, Candidate
<1>3. worker' = [worker EXCEPT ![w] = e]
  BY <1>1 DEF To, Processes, Key, Rec, Candidate
<1>4. /\ TypeOK /\ head \in Generations /\ head # None
      /\ d.pc \notin Keyless => d.key \in Keys
      /\ \A k \in Keys : rec[k] \in Receipts /\ RecOK(k, rec[k])
  BY <1>1 DEF IndustryInv, TypeOK, WorkOK, RecsInv
<1>5. /\ d.pc \in Publishing /\ d.pc \in Started /\ d.pc \in LockedPublishing
      /\ d.pc \in Locked /\ d.pc \notin Unclaimed /\ d.pc \notin Keyless
      /\ d.pc \notin AnyClaim /\ d.pc \notin Composing
  BY <1>2 DEF Unclaimed, AnyClaim, Keyless, Started, Publishing, Composing, Locked,
         LockedPublishing
<1>6. /\ UNCHANGED <<head, heads, op, rec, lifecycle, faults>>
      /\ live' \subseteq Keys \X Nat \X Nat /\ keyLock' \in [Keys -> Workers \cup {None}]
      /\ \A k \in Keys : keyLock'[k] = keyLock[k] \/ keyLock[k] \in {w, None}
      /\ keyLock' = keyLock
  BY <1>1, <1>2, <1>4, <1>5 DEF data, locks, TypeOK, KeyReleased, Key, Processes, Candidate
<1> HIDE DEF d
<1>7. "unchanged" \in Places
      /\ "unchanged" \in Publishing /\ "unchanged" \in Started
      /\ "unchanged" \in LockedPublishing /\ "unchanged" \in Locked
      /\ "unchanged" \notin Unclaimed /\ "unchanged" \notin Keyless
      /\ "unchanged" \notin AnyClaim /\ "unchanged" \notin Composing
  BY DEF Places, Reconciliation, Working, Collecting, Unclaimed, AnyClaim, Keyless, Started,
         Publishing, Composing, Locked, LockedPublishing
<1>8. /\ e \in Processes
      /\ e.pc = "unchanged" /\ e.key = d.key /\ e.att = d.att /\ e.i = d.i
      /\ e.cur = d.cur /\ e.comp = d.comp /\ e.cand = d.cand /\ e.gen = d.gen
  BY <1>1, <1>2, <1>4, <1>5, <1>7 DEF Processes
<1> HIDE DEF e
<1>9. WorkOK(e, rec)
  BY <1>1, <1>2, <1>4, <1>5, <1>7, <1>8 DEF WorkOK
<1>10. faults["lost"] = 0 => ClaimHolds(w, e, rec, head, keyLock') /\ SettlerHolds(e, rec)
  BY <1>1, <1>2, <1>4, <1>5, <1>6, <1>7, <1>8 DEF WorkOK, ClaimHolds, SettlerHolds
<1> QED BY <1>3, <1>6, <1>8, <1>9, <1>10, GoesKept

\* The Head still carries it: Unchanged, first case.
LEMMA StillUnchangedKept ==
    ASSUME IndustryInv, NEW w \in Workers,
           At(w, "unchanged"), worker' = [worker EXCEPT ![w].pc = "receipt", ![w].gen = head],
           UNCHANGED <<data, op, rec, live, locks, faults>>
    PROVE  IndustryInv'
<1> DEFINE d == worker[w]
           e == [d EXCEPT !.pc = "receipt", !.gen = head]
<1>1. /\ d \in Processes /\ WorkOK(d, rec)
      /\ faults["lost"] = 0 => ClaimHolds(w, d, rec, head, keyLock) /\ SettlerHolds(d, rec)
  BY Knows
<1>2. /\ d.pc = "unchanged"
  BY <1>1 DEF At, To, Key, Rec, Changed, Candidate
<1>3. worker' = [worker EXCEPT ![w] = e]
  BY <1>1 DEF To, Processes, Key, Rec, Candidate
<1>4. /\ TypeOK /\ head \in Generations /\ head # None
      /\ d.pc \notin Keyless => d.key \in Keys
      /\ \A k \in Keys : rec[k] \in Receipts /\ RecOK(k, rec[k])
  BY <1>1 DEF IndustryInv, TypeOK, WorkOK, RecsInv
<1>5. /\ d.pc \in Publishing /\ d.pc \in Started /\ d.pc \in LockedPublishing
      /\ d.pc \in Locked /\ d.pc \notin Unclaimed /\ d.pc \notin Keyless
      /\ d.pc \notin AnyClaim /\ d.pc \notin Composing
  BY <1>2 DEF Unclaimed, AnyClaim, Keyless, Started, Publishing, Composing, Locked,
         LockedPublishing
<1>6. /\ UNCHANGED <<head, heads, op, rec, lifecycle, faults>>
      /\ live' \subseteq Keys \X Nat \X Nat /\ keyLock' \in [Keys -> Workers \cup {None}]
      /\ \A k \in Keys : keyLock'[k] = keyLock[k] \/ keyLock[k] \in {w, None}
      /\ keyLock' = keyLock
  BY <1>1, <1>2, <1>4, <1>5 DEF data, locks, TypeOK, KeyReleased, Key, Processes, Candidate
<1> HIDE DEF d
<1>7. "receipt" \in Places
      /\ "receipt" \in AnyClaim /\ "receipt" \in Publishing /\ "receipt" \in Started
      /\ "receipt" \in LockedPublishing /\ "receipt" \in Locked
      /\ "receipt" \notin Unclaimed /\ "receipt" \notin Keyless
      /\ "receipt" \notin Composing
  BY DEF Places, Reconciliation, Working, Collecting, Unclaimed, AnyClaim, Keyless, Started,
         Publishing, Composing, Locked, LockedPublishing
<1>8. /\ e \in Processes
      /\ e.pc = "receipt" /\ e.key = d.key /\ e.att = d.att /\ e.i = d.i
      /\ e.cur = d.cur /\ e.comp = d.comp /\ e.cand = d.cand /\ e.gen = head
  BY <1>1, <1>2, <1>4, <1>5, <1>7 DEF Processes
<1> HIDE DEF e
<1>9. WorkOK(e, rec)
  BY <1>1, <1>2, <1>4, <1>5, <1>7, <1>8 DEF WorkOK
<1>10. faults["lost"] = 0 => ClaimHolds(w, e, rec, head, keyLock') /\ SettlerHolds(e, rec)
  BY <1>1, <1>2, <1>4, <1>5, <1>6, <1>7, <1>8 DEF WorkOK, ClaimHolds, SettlerHolds
<1> QED BY <1>3, <1>6, <1>8, <1>9, <1>10, GoesKept

\* It does not: Unchanged, second case.
LEMMA UnchangedMismatchKept ==
    ASSUME IndustryInv, NEW w \in Workers, At(w, "unchanged"), head.ind # Rec(w).prior,
           To(w, "mismatch"),
           UNCHANGED <<data, op, rec, live, locks, faults>>
    PROVE  IndustryInv'
<1> DEFINE d == worker[w]
           e == [d EXCEPT !.pc = "mismatch"]
<1>1. /\ d \in Processes /\ WorkOK(d, rec)
      /\ faults["lost"] = 0 => ClaimHolds(w, d, rec, head, keyLock) /\ SettlerHolds(d, rec)
  BY Knows
<1>2. /\ d.pc = "unchanged"
      /\ head.ind # rec[d.key].prior
  BY <1>1 DEF At, To, Key, Rec, Changed, Candidate
<1>3. worker' = [worker EXCEPT ![w] = e]
  BY <1>1 DEF To, Processes, Key, Rec, Candidate
<1>4. /\ TypeOK /\ head \in Generations /\ head # None
      /\ d.pc \notin Keyless => d.key \in Keys
      /\ \A k \in Keys : rec[k] \in Receipts /\ RecOK(k, rec[k])
  BY <1>1 DEF IndustryInv, TypeOK, WorkOK, RecsInv
<1>5. /\ d.pc \in Publishing /\ d.pc \in Started /\ d.pc \in LockedPublishing
      /\ d.pc \in Locked /\ d.pc \notin Unclaimed /\ d.pc \notin Keyless
      /\ d.pc \notin AnyClaim /\ d.pc \notin Composing
  BY <1>2 DEF Unclaimed, AnyClaim, Keyless, Started, Publishing, Composing, Locked,
         LockedPublishing
<1>6. /\ UNCHANGED <<head, heads, op, rec, lifecycle, faults>>
      /\ live' \subseteq Keys \X Nat \X Nat /\ keyLock' \in [Keys -> Workers \cup {None}]
      /\ \A k \in Keys : keyLock'[k] = keyLock[k] \/ keyLock[k] \in {w, None}
      /\ keyLock' = keyLock
  BY <1>1, <1>2, <1>4, <1>5 DEF data, locks, TypeOK, KeyReleased, Key, Processes, Candidate
<1> HIDE DEF d
<1>7. "mismatch" \in Places
      /\ "mismatch" \in Publishing /\ "mismatch" \in Started
      /\ "mismatch" \in LockedPublishing /\ "mismatch" \in Locked
      /\ "mismatch" \notin Unclaimed /\ "mismatch" \notin Keyless
      /\ "mismatch" \notin AnyClaim /\ "mismatch" \notin Composing
  BY DEF Places, Reconciliation, Working, Collecting, Unclaimed, AnyClaim, Keyless, Started,
         Publishing, Composing, Locked, LockedPublishing
<1>8. faults["lost"] = 0 => HeadFits(d.key, rec[d.key], head)
  BY <1>1, <1>2, <1>4, <1>5 DEF IndustryInv, LocksInv
<1>9. /\ e \in Processes
      /\ e.pc = "mismatch" /\ e.key = d.key /\ e.att = d.att /\ e.i = d.i
      /\ e.cur = d.cur /\ e.comp = d.comp /\ e.cand = d.cand /\ e.gen = d.gen
  BY <1>1, <1>2, <1>4, <1>5, <1>7, <1>8 DEF Processes
<1> HIDE DEF e
<1>10. WorkOK(e, rec)
  BY <1>1, <1>2, <1>4, <1>5, <1>7, <1>8, <1>9 DEF WorkOK
<1>11. faults["lost"] = 0 => ClaimHolds(w, e, rec, head, keyLock') /\ SettlerHolds(e, rec)
  BY <1>1, <1>2, <1>4, <1>5, <1>6, <1>7, <1>8, <1>9 DEF WorkOK, ClaimHolds, SettlerHolds,
         HeadFits
<1> QED BY <1>3, <1>6, <1>9, <1>10, <1>11, GoesKept

\* The Head is the publication after all: Try, first case.
LEMMA FindsItselfKept ==
    ASSUME IndustryInv, NEW w \in Workers,
           At(w, "try"), worker' = [worker EXCEPT ![w].pc = "receipt", ![w].gen = head],
           UNCHANGED <<data, op, rec, live, locks, faults>>
    PROVE  IndustryInv'
<1> DEFINE d == worker[w]
           e == [d EXCEPT !.pc = "receipt", !.gen = head]
<1>1. /\ d \in Processes /\ WorkOK(d, rec)
      /\ faults["lost"] = 0 => ClaimHolds(w, d, rec, head, keyLock) /\ SettlerHolds(d, rec)
  BY Knows
<1>2. /\ d.pc = "try"
  BY <1>1 DEF At, To, Key, Rec, Changed, Candidate
<1>3. worker' = [worker EXCEPT ![w] = e]
  BY <1>1 DEF To, Processes, Key, Rec, Candidate
<1>4. /\ TypeOK /\ head \in Generations /\ head # None
      /\ d.pc \notin Keyless => d.key \in Keys
      /\ \A k \in Keys : rec[k] \in Receipts /\ RecOK(k, rec[k])
  BY <1>1 DEF IndustryInv, TypeOK, WorkOK, RecsInv
<1>5. /\ d.pc \in Publishing /\ d.pc \in Started /\ d.pc \in LockedPublishing
      /\ d.pc \in Locked /\ d.pc \notin Unclaimed /\ d.pc \notin Keyless
      /\ d.pc \notin AnyClaim /\ d.pc \notin Composing
  BY <1>2 DEF Unclaimed, AnyClaim, Keyless, Started, Publishing, Composing, Locked,
         LockedPublishing
<1>6. /\ UNCHANGED <<head, heads, op, rec, lifecycle, faults>>
      /\ live' \subseteq Keys \X Nat \X Nat /\ keyLock' \in [Keys -> Workers \cup {None}]
      /\ \A k \in Keys : keyLock'[k] = keyLock[k] \/ keyLock[k] \in {w, None}
      /\ keyLock' = keyLock
  BY <1>1, <1>2, <1>4, <1>5 DEF data, locks, TypeOK, KeyReleased, Key, Processes, Candidate
<1> HIDE DEF d
<1>7. "receipt" \in Places
      /\ "receipt" \in AnyClaim /\ "receipt" \in Publishing /\ "receipt" \in Started
      /\ "receipt" \in LockedPublishing /\ "receipt" \in Locked
      /\ "receipt" \notin Unclaimed /\ "receipt" \notin Keyless
      /\ "receipt" \notin Composing
  BY DEF Places, Reconciliation, Working, Collecting, Unclaimed, AnyClaim, Keyless, Started,
         Publishing, Composing, Locked, LockedPublishing
<1>8. /\ e \in Processes
      /\ e.pc = "receipt" /\ e.key = d.key /\ e.att = d.att /\ e.i = d.i
      /\ e.cur = d.cur /\ e.comp = d.comp /\ e.cand = d.cand /\ e.gen = head
  BY <1>1, <1>2, <1>4, <1>5, <1>7 DEF Processes
<1> HIDE DEF e
<1>9. WorkOK(e, rec)
  BY <1>1, <1>2, <1>4, <1>5, <1>7, <1>8 DEF WorkOK
<1>10. faults["lost"] = 0 => ClaimHolds(w, e, rec, head, keyLock') /\ SettlerHolds(e, rec)
  BY <1>1, <1>2, <1>4, <1>5, <1>6, <1>7, <1>8 DEF WorkOK, ClaimHolds, SettlerHolds
<1> QED BY <1>3, <1>6, <1>8, <1>9, <1>10, GoesKept

\* The industry data was replaced: Try, second case.
LEMMA TryMismatchKept ==
    ASSUME IndustryInv, NEW w \in Workers, At(w, "try"), head.coord # Key(w),
           To(w, "mismatch"),
           UNCHANGED <<data, op, rec, live, locks, faults>>
    PROVE  IndustryInv'
<1> DEFINE d == worker[w]
           e == [d EXCEPT !.pc = "mismatch"]
<1>1. /\ d \in Processes /\ WorkOK(d, rec)
      /\ faults["lost"] = 0 => ClaimHolds(w, d, rec, head, keyLock) /\ SettlerHolds(d, rec)
  BY Knows
<1>2. /\ d.pc = "try"
      /\ head.coord # d.key
  BY <1>1 DEF At, To, Key, Rec, Changed, Candidate
<1>3. worker' = [worker EXCEPT ![w] = e]
  BY <1>1 DEF To, Processes, Key, Rec, Candidate
<1>4. /\ TypeOK /\ head \in Generations /\ head # None
      /\ d.pc \notin Keyless => d.key \in Keys
      /\ \A k \in Keys : rec[k] \in Receipts /\ RecOK(k, rec[k])
  BY <1>1 DEF IndustryInv, TypeOK, WorkOK, RecsInv
<1>5. /\ d.pc \in Publishing /\ d.pc \in Started /\ d.pc \in LockedPublishing
      /\ d.pc \in Locked /\ d.pc \notin Unclaimed /\ d.pc \notin Keyless
      /\ d.pc \notin AnyClaim /\ d.pc \notin Composing
  BY <1>2 DEF Unclaimed, AnyClaim, Keyless, Started, Publishing, Composing, Locked,
         LockedPublishing
<1>6. /\ UNCHANGED <<head, heads, op, rec, lifecycle, faults>>
      /\ live' \subseteq Keys \X Nat \X Nat /\ keyLock' \in [Keys -> Workers \cup {None}]
      /\ \A k \in Keys : keyLock'[k] = keyLock[k] \/ keyLock[k] \in {w, None}
      /\ keyLock' = keyLock
  BY <1>1, <1>2, <1>4, <1>5 DEF data, locks, TypeOK, KeyReleased, Key, Processes, Candidate
<1> HIDE DEF d
<1>7. "mismatch" \in Places
      /\ "mismatch" \in Publishing /\ "mismatch" \in Started
      /\ "mismatch" \in LockedPublishing /\ "mismatch" \in Locked
      /\ "mismatch" \notin Unclaimed /\ "mismatch" \notin Keyless
      /\ "mismatch" \notin AnyClaim /\ "mismatch" \notin Composing
  BY DEF Places, Reconciliation, Working, Collecting, Unclaimed, AnyClaim, Keyless, Started,
         Publishing, Composing, Locked, LockedPublishing
<1>8. /\ e \in Processes
      /\ e.pc = "mismatch" /\ e.key = d.key /\ e.att = d.att /\ e.i = d.i
      /\ e.cur = d.cur /\ e.comp = d.comp /\ e.cand = d.cand /\ e.gen = d.gen
  BY <1>1, <1>2, <1>4, <1>5, <1>7 DEF Processes
<1> HIDE DEF e
<1>9. WorkOK(e, rec)
  BY <1>1, <1>2, <1>4, <1>5, <1>7, <1>8 DEF WorkOK
<1>10. faults["lost"] = 0 => ClaimHolds(w, e, rec, head, keyLock') /\ SettlerHolds(e, rec)
  BY <1>1, <1>2, <1>4, <1>5, <1>6, <1>7, <1>8 DEF WorkOK, ClaimHolds, SettlerHolds
<1> QED BY <1>3, <1>6, <1>8, <1>9, <1>10, GoesKept

\* The candidate is composed on the Head: Try, third case.
LEMMA ComposesKept ==
    ASSUME IndustryInv, NEW w \in Workers,
           At(w, "try"), head.coord # Key(w), head.ind = Rec(w).prior,
           worker' = [worker EXCEPT ![w].pc = "composed", ![w].cur = head,
              ![w].comp = [n |-> head.n + 1, by |-> <<Key(w), worker[w].att, worker[w].i>>,
                           ind |-> worker[w].cand, coord |-> Key(w)]],
           UNCHANGED <<data, op, rec, live, locks, faults>>
    PROVE  IndustryInv'
<1> DEFINE d == worker[w]
           e == [d EXCEPT !.pc = "composed", !.cur = head,
                          !.comp = [n |-> head.n + 1, by |-> <<d.key, d.att, d.i>>,
                                    ind |-> d.cand, coord |-> d.key]]
<1>1. /\ d \in Processes /\ WorkOK(d, rec)
      /\ faults["lost"] = 0 => ClaimHolds(w, d, rec, head, keyLock) /\ SettlerHolds(d, rec)
  BY Knows
<1>2. /\ d.pc = "try"
      /\ head.coord # d.key /\ head.ind = rec[d.key].prior
  BY <1>1 DEF At, To, Key, Rec, Changed, Candidate
<1>3. worker' = [worker EXCEPT ![w] = e]
  BY <1>1 DEF To, Processes, Key, Rec, Candidate
<1>4. /\ TypeOK /\ head \in Generations /\ head # None
      /\ d.pc \notin Keyless => d.key \in Keys
      /\ \A k \in Keys : rec[k] \in Receipts /\ RecOK(k, rec[k])
  BY <1>1 DEF IndustryInv, TypeOK, WorkOK, RecsInv
<1>5. /\ d.pc \in Publishing /\ d.pc \in Started /\ d.pc \in LockedPublishing
      /\ d.pc \in Locked /\ d.pc \notin Unclaimed /\ d.pc \notin Keyless
      /\ d.pc \notin AnyClaim /\ d.pc \notin Composing
  BY <1>2 DEF Unclaimed, AnyClaim, Keyless, Started, Publishing, Composing, Locked,
         LockedPublishing
<1>6. /\ UNCHANGED <<head, heads, op, rec, lifecycle, faults>>
      /\ live' \subseteq Keys \X Nat \X Nat /\ keyLock' \in [Keys -> Workers \cup {None}]
      /\ \A k \in Keys : keyLock'[k] = keyLock[k] \/ keyLock[k] \in {w, None}
      /\ keyLock' = keyLock
  BY <1>1, <1>2, <1>4, <1>5 DEF data, locks, TypeOK, KeyReleased, Key, Processes, Candidate
<1> HIDE DEF d
<1>7. "composed" \in Places
      /\ "composed" \in Publishing /\ "composed" \in Started /\ "composed" \in Composing
      /\ "composed" \in LockedPublishing /\ "composed" \in Locked
      /\ "composed" \notin Unclaimed /\ "composed" \notin Keyless
      /\ "composed" \notin AnyClaim
  BY DEF Places, Reconciliation, Working, Collecting, Unclaimed, AnyClaim, Keyless, Started,
         Publishing, Composing, Locked, LockedPublishing
<1>8. [n |-> head.n + 1, by |-> <<d.key, d.att, d.i>>, ind |-> d.cand,
       coord |-> d.key] \in Generations
  BY <1>1, <1>2, <1>4, <1>5 DEF Generations, WorkOK, Processes
<1>9. /\ e \in Processes
      /\ e.pc = "composed" /\ e.key = d.key /\ e.att = d.att /\ e.i = d.i
      /\ e.cur = head /\ e.cand = d.cand /\ e.gen = d.gen
      /\ e.comp = [n |-> head.n + 1, by |-> <<d.key, d.att, d.i>>, ind |-> d.cand,
                   coord |-> d.key]
  BY <1>1, <1>2, <1>4, <1>5, <1>7, <1>8 DEF Processes
<1> HIDE DEF e
<1>10. WorkOK(e, rec)
  BY <1>1, <1>2, <1>4, <1>5, <1>7, <1>8, <1>9 DEF WorkOK
<1>11. faults["lost"] = 0 => ClaimHolds(w, e, rec, head, keyLock') /\ SettlerHolds(e, rec)
  BY <1>1, <1>2, <1>4, <1>5, <1>6, <1>7, <1>8, <1>9 DEF WorkOK, ClaimHolds, SettlerHolds
<1> QED BY <1>3, <1>6, <1>9, <1>10, <1>11, GoesKept

\* One more try: ReleaseCandidate, first case.
LEMMA TriesAgainKept ==
    ASSUME IndustryInv, NEW w \in Workers, At(w, "conflicted"), live' = live \ {Candidate(w)},
           worker' = [worker EXCEPT ![w].pc = "try", ![w].i = @ + 1],
           UNCHANGED <<data, op, rec, locks, faults>>
    PROVE  IndustryInv'
<1> DEFINE d == worker[w]
           e == [d EXCEPT !.pc = "try", !.i = @ + 1]
<1>1. /\ d \in Processes /\ WorkOK(d, rec)
      /\ faults["lost"] = 0 => ClaimHolds(w, d, rec, head, keyLock) /\ SettlerHolds(d, rec)
  BY Knows
<1>2. /\ d.pc = "conflicted"
  BY <1>1 DEF At, To, Key, Rec, Changed, Candidate, IndustryInv, TypeOK
<1>3. worker' = [worker EXCEPT ![w] = e]
  BY <1>1 DEF To, Processes, Key, Rec, Candidate, IndustryInv, TypeOK
<1>4. /\ TypeOK /\ head \in Generations /\ head # None
      /\ d.pc \notin Keyless => d.key \in Keys
      /\ \A k \in Keys : rec[k] \in Receipts /\ RecOK(k, rec[k])
  BY <1>1 DEF IndustryInv, TypeOK, WorkOK, RecsInv
<1>5. /\ d.pc \in Publishing /\ d.pc \in Started /\ d.pc \in LockedPublishing
      /\ d.pc \in Locked /\ d.pc \notin Unclaimed /\ d.pc \notin Keyless
      /\ d.pc \notin AnyClaim /\ d.pc \notin Composing
  BY <1>2 DEF Unclaimed, AnyClaim, Keyless, Started, Publishing, Composing, Locked,
         LockedPublishing
<1>6. /\ UNCHANGED <<head, heads, op, rec, lifecycle, faults>>
      /\ live' \subseteq Keys \X Nat \X Nat /\ keyLock' \in [Keys -> Workers \cup {None}]
      /\ \A k \in Keys : keyLock'[k] = keyLock[k] \/ keyLock[k] \in {w, None}
      /\ keyLock' = keyLock
  BY <1>1, <1>2, <1>4, <1>5 DEF data, locks, TypeOK, KeyReleased, Key, Processes, Candidate
<1> HIDE DEF d
<1>7. "try" \in Places
      /\ "try" \in Publishing /\ "try" \in Started /\ "try" \in LockedPublishing
      /\ "try" \in Locked /\ "try" \notin Unclaimed /\ "try" \notin Keyless
      /\ "try" \notin AnyClaim /\ "try" \notin Composing
  BY DEF Places, Reconciliation, Working, Collecting, Unclaimed, AnyClaim, Keyless, Started,
         Publishing, Composing, Locked, LockedPublishing
<1>8. d.i + 1 \in Nat
  BY <1>1, <1>2, <1>4, <1>5 DEF Processes
<1>9. /\ e \in Processes
      /\ e.pc = "try" /\ e.key = d.key /\ e.att = d.att /\ e.i = d.i + 1
      /\ e.cur = d.cur /\ e.comp = d.comp /\ e.cand = d.cand /\ e.gen = d.gen
  BY <1>1, <1>2, <1>4, <1>5, <1>7, <1>8 DEF Processes
<1> HIDE DEF e
<1>10. WorkOK(e, rec)
  BY <1>1, <1>2, <1>4, <1>5, <1>7, <1>8, <1>9 DEF WorkOK
<1>11. faults["lost"] = 0 => ClaimHolds(w, e, rec, head, keyLock') /\ SettlerHolds(e, rec)
  BY <1>1, <1>2, <1>4, <1>5, <1>6, <1>7, <1>8, <1>9 DEF WorkOK, ClaimHolds, SettlerHolds
<1> QED BY <1>3, <1>6, <1>9, <1>10, <1>11, GoesKept

\* Nothing is visible, the failure is to be recorded.
LEMMA FailingKept ==
    ASSUME IndustryInv, NEW w \in Workers, At(w, "raised"), To(w, "failing"),
           UNCHANGED <<data, op, rec, live, locks, faults>>
    PROVE  IndustryInv'
<1> DEFINE d == worker[w]
           e == [d EXCEPT !.pc = "failing"]
<1>1. /\ d \in Processes /\ WorkOK(d, rec)
      /\ faults["lost"] = 0 => ClaimHolds(w, d, rec, head, keyLock) /\ SettlerHolds(d, rec)
  BY Knows
<1>2. /\ d.pc = "raised"
  BY <1>1 DEF At, To, Key, Rec, Changed, Candidate
<1>3. worker' = [worker EXCEPT ![w] = e]
  BY <1>1 DEF To, Processes, Key, Rec, Candidate
<1>4. /\ TypeOK /\ head \in Generations /\ head # None
      /\ d.pc \notin Keyless => d.key \in Keys
      /\ \A k \in Keys : rec[k] \in Receipts /\ RecOK(k, rec[k])
  BY <1>1 DEF IndustryInv, TypeOK, WorkOK, RecsInv
<1>5. /\ d.pc \notin Unclaimed /\ d.pc \notin Keyless /\ d.pc \notin AnyClaim
      /\ d.pc \notin Publishing /\ d.pc \notin Started /\ d.pc \notin Composing
      /\ d.pc \notin LockedPublishing /\ d.pc \notin Locked
  BY <1>2 DEF Unclaimed, AnyClaim, Keyless, Started, Publishing, Composing, Locked,
         LockedPublishing
<1>6. /\ UNCHANGED <<head, heads, op, rec, lifecycle, faults>>
      /\ live' \subseteq Keys \X Nat \X Nat /\ keyLock' \in [Keys -> Workers \cup {None}]
      /\ \A k \in Keys : keyLock'[k] = keyLock[k] \/ keyLock[k] \in {w, None}
      /\ keyLock' = keyLock
  BY <1>1, <1>2, <1>4, <1>5 DEF data, locks, TypeOK, KeyReleased, Key, Processes, Candidate
<1> HIDE DEF d
<1>7. "failing" \in Places
      /\ "failing" \notin Unclaimed /\ "failing" \notin Keyless
      /\ "failing" \notin AnyClaim /\ "failing" \notin Publishing
      /\ "failing" \notin Started /\ "failing" \notin Composing
      /\ "failing" \notin LockedPublishing /\ "failing" \notin Locked
  BY DEF Places, Reconciliation, Working, Collecting, Unclaimed, AnyClaim, Keyless, Started,
         Publishing, Composing, Locked, LockedPublishing
<1>8. /\ e \in Processes
      /\ e.pc = "failing" /\ e.key = d.key /\ e.att = d.att /\ e.i = d.i
      /\ e.cur = d.cur /\ e.comp = d.comp /\ e.cand = d.cand /\ e.gen = d.gen
  BY <1>1, <1>2, <1>4, <1>5, <1>7 DEF Processes
<1> HIDE DEF e
<1>9. WorkOK(e, rec)
  BY <1>1, <1>2, <1>4, <1>5, <1>7, <1>8 DEF WorkOK
<1>10. faults["lost"] = 0 => ClaimHolds(w, e, rec, head, keyLock') /\ SettlerHolds(e, rec)
  BY <1>1, <1>2, <1>4, <1>5, <1>6, <1>7, <1>8 DEF WorkOK, ClaimHolds, SettlerHolds
<1> QED BY <1>3, <1>6, <1>8, <1>9, <1>10, GoesKept

\* The receipt is inserted.
LEMMA InitializeKept ==
    ASSUME IndustryInv, NEW w \in Workers, Initialize(w)
    PROVE  IndustryInv'
<1> DEFINE d == worker[w]
           r == rec[d.key]
           e == [d EXCEPT !.pc = "collect"]
           s == IF r.st = "none" THEN [r EXCEPT !.st = "running", !.prior = d.cur.ind] ELSE r
<1>1. /\ d \in Processes /\ WorkOK(d, rec)
      /\ faults["lost"] = 0 => ClaimHolds(w, d, rec, head, keyLock) /\ SettlerHolds(d, rec)
  BY Knows
<1>2. /\ d.pc = "insert"
  BY <1>1 DEF Initialize, At, To, Key, Rec, Owned
<1>3. /\ d.pc \in Locked /\ d.pc \notin Unclaimed /\ d.pc \notin Keyless
      /\ d.pc \notin AnyClaim /\ d.pc \notin Publishing /\ d.pc \notin Started
      /\ d.pc \notin Composing /\ d.pc \notin LockedPublishing
  BY <1>2 DEF Unclaimed, AnyClaim, Keyless, Started, Publishing, Composing, Locked,
         LockedPublishing
<1>4. /\ TypeOK /\ head \in Generations /\ head # None
      /\ d.key \in Keys /\ r \in Receipts /\ RecOK(d.key, r)
      /\ faults["lost"] = 0 => HeadFits(d.key, r, head) /\ PubFits(d.key, r)
  BY <1>1, <1>3 DEF IndustryInv, TypeOK, WorkOK, RecsInv, LocksInv
<1>5. worker' = [worker EXCEPT ![w] = e]
  BY <1>1, <1>4 DEF Initialize, To, Key, Rec, Raised, Processes, TypeOK
<1>6. rec' = [rec EXCEPT ![d.key] = s]
  BY <1>1, <1>2, <1>4 DEF Initialize, Key, Rec, TypeOK, Receipts
<1>7. /\ UNCHANGED <<head, heads, faults>>
      /\ op' \in [Keys -> Operations] /\ live' \subseteq Keys \X Nat \X Nat
      /\ lifecycle' \in Workers \cup {None} /\ keyLock' \in [Keys -> Workers \cup {None}]
      /\ \A k \in Keys : keyLock'[k] = keyLock[k] \/ keyLock[k] \in {w, None}
      /\ \A k \in Keys : op'[k].st = "running" => op[k].st = "running"
      /\ \A k \in Keys : op'[k].st = "succeeded" => op[k].st = "succeeded"
      /\ keyLock' = keyLock
  BY <1>1, <1>2, <1>4 DEF Initialize, data, locks, TypeOK, Raised, KeyReleased, Key
<1>8. /\ "collect" \in Places
      /\ "collect" \in Started /\ "collect" \in Locked /\ "collect" \notin Unclaimed
      /\ "collect" \notin Keyless /\ "collect" \notin AnyClaim
      /\ "collect" \notin Publishing /\ "collect" \notin Composing
      /\ "collect" \notin LockedPublishing
  BY DEF Places, Reconciliation, Working, Collecting, Unclaimed, AnyClaim, Keyless, Started,
         Publishing, Composing, Locked, LockedPublishing
<1>9. rec[d.key] = r /\ rec'[d.key] = s
  BY <1>4, <1>6 DEF TypeOK
<1> HIDE DEF d, r
<1>10. /\ d.att # 0 /\ d.cur # None /\ d.cur.ind # None /\ d.cur.ind \in Contents
       /\ faults["lost"] = 0 => keyLock[d.key] = w
  BY <1>1, <1>2, <1>3, <1>4, <1>9 DEF WorkOK, ClaimHolds, SettlerHolds, Processes, Generations
<1>11. /\ e \in Processes
       /\ e.pc = "collect" /\ e.key = d.key /\ e.att = d.att /\ e.i = d.i
       /\ e.cur = d.cur /\ e.comp = d.comp /\ e.cand = d.cand /\ e.gen = d.gen
  BY <1>1, <1>2, <1>3, <1>4, <1>8, <1>10 DEF Processes
<1> HIDE DEF e
<1>12. /\ s \in Receipts
       /\ s.st # "none" /\ s.pub = r.pub /\ s.comp = r.comp /\ s.cand = r.cand
       /\ r.st # "none" => s = r
       /\ r.st = "none" => s.st = "running" /\ s.prior # None
  BY <1>1, <1>2, <1>4, <1>10 DEF RecOK, Receipts, Processes, NoRec
<1> HIDE DEF s
<1>13. RecStep(r, s) /\ RecOK(d.key, s)
  BY <1>2, <1>4, <1>10, <1>12 DEF RecStep, RecOK, NoRec
<1>14. WorkOK(e, rec')
  BY <1>1, <1>2, <1>3, <1>4, <1>8, <1>9, <1>10, <1>11, <1>12 DEF WorkOK
<1>15. faults["lost"] = 0 => (Soft(r, s) \/ keyLock[d.key] = w)
  BY <1>2, <1>4, <1>10, <1>12 DEF Soft
<1>16. faults["lost"] = 0 => ClaimHolds(w, e, rec', head, keyLock') /\ SettlerHolds(e, rec')
  BY <1>1, <1>2, <1>3, <1>4, <1>7, <1>8, <1>9, <1>10, <1>11, <1>12 DEF WorkOK, ClaimHolds,
         SettlerHolds
<1>17. faults["lost"] = 0 => HeadFits(d.key, s, head) /\ PubFits(d.key, s)
  BY <1>2, <1>4, <1>10, <1>12 DEF RecOK, HeadFits, PubFits
<1>18. RecStep(rec[d.key], s)
  BY <1>9, <1>13
<1>19. faults["lost"] = 0 =>
         /\ Soft(rec[d.key], s) \/ keyLock[d.key] = w
         /\ ClaimHolds(w, e, rec', head, keyLock') /\ SettlerHolds(e, rec')
         /\ HeadFits(d.key, s, head) /\ PubFits(d.key, s)
  BY <1>9, <1>15, <1>16, <1>17
<1> QED BY <1>4, <1>5, <1>6, <1>7, <1>11, <1>12, <1>13, <1>14, <1>18, <1>19, WritesKept

\* The candidate is written in the receipt.
LEMMA MaterializedKept ==
    ASSUME IndustryInv, NEW w \in Workers, Materialized(w)
    PROVE  IndustryInv'
<1> DEFINE d == worker[w]
           r == rec[d.key]
           e == [d EXCEPT !.pc = "publish"]
           s == [r EXCEPT !.st = "succeeded", !.cand = d.cand]
<1>1. /\ d \in Processes /\ WorkOK(d, rec)
      /\ faults["lost"] = 0 => ClaimHolds(w, d, rec, head, keyLock) /\ SettlerHolds(d, rec)
  BY Knows
<1>2. /\ d.pc = "built"
      /\ r.st = "running"
  BY <1>1 DEF Materialized, At, To, Key, Rec, Owned
<1>3. /\ d.pc \in Started /\ d.pc \in Locked /\ d.pc \notin Unclaimed
      /\ d.pc \notin Keyless /\ d.pc \notin AnyClaim /\ d.pc \notin Publishing
      /\ d.pc \notin Composing /\ d.pc \notin LockedPublishing
  BY <1>2 DEF Unclaimed, AnyClaim, Keyless, Started, Publishing, Composing, Locked,
         LockedPublishing
<1>4. /\ TypeOK /\ head \in Generations /\ head # None
      /\ d.key \in Keys /\ r \in Receipts /\ RecOK(d.key, r)
      /\ faults["lost"] = 0 => HeadFits(d.key, r, head) /\ PubFits(d.key, r)
  BY <1>1, <1>3 DEF IndustryInv, TypeOK, WorkOK, RecsInv, LocksInv
<1>5. worker' = [worker EXCEPT ![w] = e]
  BY <1>1, <1>4 DEF Materialized, To, Key, Rec, Raised, Processes, TypeOK
<1>6. rec' = [rec EXCEPT ![d.key] = s]
  BY <1>1, <1>2, <1>4 DEF Materialized, Key, Rec, TypeOK, Receipts
<1>7. /\ UNCHANGED <<head, heads, faults>>
      /\ op' \in [Keys -> Operations] /\ live' \subseteq Keys \X Nat \X Nat
      /\ lifecycle' \in Workers \cup {None} /\ keyLock' \in [Keys -> Workers \cup {None}]
      /\ \A k \in Keys : keyLock'[k] = keyLock[k] \/ keyLock[k] \in {w, None}
      /\ \A k \in Keys : op'[k].st = "running" => op[k].st = "running"
      /\ \A k \in Keys : op'[k].st = "succeeded" => op[k].st = "succeeded"
      /\ keyLock' = keyLock
  BY <1>1, <1>2, <1>4 DEF Materialized, data, locks, TypeOK, Raised, KeyReleased, Key
<1>8. /\ "publish" \in Places
      /\ "publish" \in Publishing /\ "publish" \in Started
      /\ "publish" \in LockedPublishing /\ "publish" \in Locked
      /\ "publish" \notin Unclaimed /\ "publish" \notin Keyless
      /\ "publish" \notin AnyClaim /\ "publish" \notin Composing
  BY DEF Places, Reconciliation, Working, Collecting, Unclaimed, AnyClaim, Keyless, Started,
         Publishing, Composing, Locked, LockedPublishing
<1>9. rec[d.key] = r /\ rec'[d.key] = s
  BY <1>4, <1>6 DEF TypeOK
<1> HIDE DEF d, r
<1>10. /\ d.att # 0 /\ d.cand # None
       /\ faults["lost"] = 0 => keyLock[d.key] = w
  BY <1>1, <1>2, <1>3, <1>4, <1>9 DEF WorkOK, ClaimHolds, SettlerHolds
<1>11. /\ e \in Processes
       /\ e.pc = "publish" /\ e.key = d.key /\ e.att = d.att /\ e.i = d.i
       /\ e.cur = d.cur /\ e.comp = d.comp /\ e.cand = d.cand /\ e.gen = d.gen
  BY <1>1, <1>2, <1>3, <1>4, <1>8, <1>10 DEF Processes
<1> HIDE DEF e
<1>12. /\ s \in Receipts
       /\ s.st = "succeeded" /\ s.cand = d.cand /\ s.cand # None /\ s.prior = r.prior
       /\ s.comp = r.comp /\ s.pub = r.pub /\ r.st = "running" /\ r.pub = None
  BY <1>1, <1>2, <1>4, <1>10 DEF RecOK, Receipts, Processes, NoRec
<1> HIDE DEF s
<1>13. RecStep(r, s) /\ RecOK(d.key, s)
  BY <1>2, <1>4, <1>10, <1>12 DEF RecStep, RecOK, NoRec
<1>14. WorkOK(e, rec')
  BY <1>1, <1>2, <1>3, <1>4, <1>8, <1>9, <1>10, <1>11, <1>12 DEF WorkOK
<1>15. faults["lost"] = 0 => (Soft(r, s) \/ keyLock[d.key] = w)
  BY <1>2, <1>4, <1>10, <1>12 DEF Soft
<1>16. faults["lost"] = 0 => ClaimHolds(w, e, rec', head, keyLock') /\ SettlerHolds(e, rec')
  BY <1>1, <1>2, <1>3, <1>4, <1>7, <1>8, <1>9, <1>10, <1>11, <1>12 DEF WorkOK, ClaimHolds,
         SettlerHolds
<1>17. faults["lost"] = 0 => HeadFits(d.key, s, head) /\ PubFits(d.key, s)
  BY <1>2, <1>4, <1>10, <1>12 DEF RecOK, HeadFits, PubFits
<1>18. RecStep(rec[d.key], s)
  BY <1>9, <1>13
<1>19. faults["lost"] = 0 =>
         /\ Soft(rec[d.key], s) \/ keyLock[d.key] = w
         /\ ClaimHolds(w, e, rec', head, keyLock') /\ SettlerHolds(e, rec')
         /\ HeadFits(d.key, s, head) /\ PubFits(d.key, s)
  BY <1>9, <1>15, <1>16, <1>17
<1> QED BY <1>4, <1>5, <1>6, <1>7, <1>11, <1>12, <1>13, <1>14, <1>18, <1>19, WritesKept

\* The receipt learns that the Head was switched.
LEMMA RecordHeadMovedKept ==
    ASSUME IndustryInv, NEW w \in Workers, RecordHeadMoved(w)
    PROVE  IndustryInv'
<1> DEFINE d == worker[w]
           r == rec[d.key]
           e == [d EXCEPT !.pc = "receipt"]
           s == IF r.st = "succeeded"
                THEN [r EXCEPT !.moved = TRUE, !.comp = IF r.comp = None THEN d.gen ELSE r.comp]
                ELSE r
<1>1. /\ d \in Processes /\ WorkOK(d, rec)
      /\ faults["lost"] = 0 => ClaimHolds(w, d, rec, head, keyLock) /\ SettlerHolds(d, rec)
  BY Knows
<1>2. /\ d.pc = "moving"
  BY <1>1 DEF RecordHeadMoved, At, To, Key, Rec, Owned
<1>3. /\ d.pc \in Publishing /\ d.pc \in Started /\ d.pc \in LockedPublishing
      /\ d.pc \in Locked /\ d.pc \notin Unclaimed /\ d.pc \notin Keyless
      /\ d.pc \notin AnyClaim /\ d.pc \notin Composing
  BY <1>2 DEF Unclaimed, AnyClaim, Keyless, Started, Publishing, Composing, Locked,
         LockedPublishing
<1>4. /\ TypeOK /\ head \in Generations /\ head # None
      /\ d.key \in Keys /\ r \in Receipts /\ RecOK(d.key, r)
      /\ faults["lost"] = 0 => HeadFits(d.key, r, head) /\ PubFits(d.key, r)
  BY <1>1, <1>3 DEF IndustryInv, TypeOK, WorkOK, RecsInv, LocksInv
<1>5. worker' = [worker EXCEPT ![w] = e]
  BY <1>1, <1>4 DEF RecordHeadMoved, To, Key, Rec, Raised, Processes, TypeOK
<1>6. rec' = [rec EXCEPT ![d.key] = s]
  BY <1>1, <1>2, <1>4 DEF RecordHeadMoved, Key, Rec, TypeOK, Receipts
<1>7. /\ UNCHANGED <<head, heads, faults>>
      /\ op' \in [Keys -> Operations] /\ live' \subseteq Keys \X Nat \X Nat
      /\ lifecycle' \in Workers \cup {None} /\ keyLock' \in [Keys -> Workers \cup {None}]
      /\ \A k \in Keys : keyLock'[k] = keyLock[k] \/ keyLock[k] \in {w, None}
      /\ \A k \in Keys : op'[k].st = "running" => op[k].st = "running"
      /\ \A k \in Keys : op'[k].st = "succeeded" => op[k].st = "succeeded"
      /\ keyLock' = keyLock
  BY <1>1, <1>2, <1>4 DEF RecordHeadMoved, data, locks, TypeOK, Raised, KeyReleased, Key
<1>8. /\ "receipt" \in Places
      /\ "receipt" \in AnyClaim /\ "receipt" \in Publishing /\ "receipt" \in Started
      /\ "receipt" \in LockedPublishing /\ "receipt" \in Locked
      /\ "receipt" \notin Unclaimed /\ "receipt" \notin Keyless
      /\ "receipt" \notin Composing
  BY DEF Places, Reconciliation, Working, Collecting, Unclaimed, AnyClaim, Keyless, Started,
         Publishing, Composing, Locked, LockedPublishing
<1>9. rec[d.key] = r /\ rec'[d.key] = s
  BY <1>4, <1>6 DEF TypeOK
<1> HIDE DEF d, r
<1>10. /\ d.att # 0 /\ d.gen # None /\ d.gen \in Generations /\ d.gen.coord = d.key /\ r.st # "none"
       /\ faults["lost"] = 0 => keyLock[d.key] = w
  BY <1>1, <1>2, <1>3, <1>4, <1>9 DEF WorkOK, ClaimHolds, SettlerHolds, Processes
<1>11. /\ e \in Processes
       /\ e.pc = "receipt" /\ e.key = d.key /\ e.att = d.att /\ e.i = d.i
       /\ e.cur = d.cur /\ e.comp = d.comp /\ e.cand = d.cand /\ e.gen = d.gen
  BY <1>1, <1>2, <1>3, <1>4, <1>8, <1>10 DEF Processes
<1> HIDE DEF e
<1>12. /\ s \in Receipts
       /\ s.st = r.st /\ s.cand = r.cand /\ s.prior = r.prior /\ s.pub = r.pub
       /\ r.st = "none" \/ s.comp \in {r.comp, d.gen}
       /\ r.st = "none" => s = r
  <2>1. CASE r.st # "succeeded"
    <3>1. s = r
      BY <2>1
    <3> HIDE DEF s
    <3> QED BY <1>4, <2>1, <3>1
  <2>2. CASE r.st = "succeeded" /\ r.comp = None
    <3>1. s = [r EXCEPT !.moved = TRUE, !.comp = d.gen]
      BY <2>2
    <3> HIDE DEF s
    <3> QED BY <1>4, <1>10, <2>2, <3>1 DEF Receipts
  <2>3. CASE r.st = "succeeded" /\ r.comp # None
    <3>1. s = [r EXCEPT !.moved = TRUE, !.comp = r.comp]
      BY <2>3
    <3> HIDE DEF s
    <3> QED BY <1>4, <2>3, <3>1 DEF Receipts
  <2> QED BY <2>1, <2>2, <2>3
<1> HIDE DEF s
<1>13. RecStep(r, s) /\ RecOK(d.key, s)
  BY <1>2, <1>4, <1>10, <1>12 DEF RecStep, RecOK, NoRec
<1>14. WorkOK(e, rec')
  BY <1>1, <1>2, <1>3, <1>4, <1>8, <1>9, <1>10, <1>11, <1>12 DEF WorkOK
<1>15. faults["lost"] = 0 => (Soft(r, s) \/ keyLock[d.key] = w)
  BY <1>2, <1>4, <1>10, <1>12 DEF Soft
<1>16. faults["lost"] = 0 => ClaimHolds(w, e, rec', head, keyLock') /\ SettlerHolds(e, rec')
  BY <1>1, <1>2, <1>3, <1>4, <1>7, <1>8, <1>9, <1>10, <1>11, <1>12 DEF WorkOK, ClaimHolds,
         SettlerHolds
<1>17. faults["lost"] = 0 => HeadFits(d.key, s, head) /\ PubFits(d.key, s)
  BY <1>2, <1>4, <1>10, <1>12 DEF RecOK, HeadFits, PubFits
<1>18. RecStep(rec[d.key], s)
  BY <1>9, <1>13
<1>19. faults["lost"] = 0 =>
         /\ Soft(rec[d.key], s) \/ keyLock[d.key] = w
         /\ ClaimHolds(w, e, rec', head, keyLock') /\ SettlerHolds(e, rec')
         /\ HeadFits(d.key, s, head) /\ PubFits(d.key, s)
  BY <1>9, <1>15, <1>16, <1>17
<1> QED BY <1>4, <1>5, <1>6, <1>7, <1>11, <1>12, <1>13, <1>14, <1>18, <1>19, WritesKept

\* The receipt fails because its target changed.
LEMMA TargetChangedKept ==
    ASSUME IndustryInv, NEW w \in Workers, TargetChanged(w)
    PROVE  IndustryInv'
<1> DEFINE d == worker[w]
           r == rec[d.key]
           e == [d EXCEPT !.pc = "raised", !.retry = FALSE]
           s == [r EXCEPT !.st = "failed", !.cand = None]
<1>1. /\ d \in Processes /\ WorkOK(d, rec)
      /\ faults["lost"] = 0 => ClaimHolds(w, d, rec, head, keyLock) /\ SettlerHolds(d, rec)
  BY Knows
<1>2. /\ d.pc = "mismatch"
      /\ r.st = "succeeded" /\ r.pub = None
  BY <1>1 DEF TargetChanged, At, To, Key, Rec, Owned
<1>3. /\ d.pc \in Publishing /\ d.pc \in Started /\ d.pc \in LockedPublishing
      /\ d.pc \in Locked /\ d.pc \notin Unclaimed /\ d.pc \notin Keyless
      /\ d.pc \notin AnyClaim /\ d.pc \notin Composing
  BY <1>2 DEF Unclaimed, AnyClaim, Keyless, Started, Publishing, Composing, Locked,
         LockedPublishing
<1>4. /\ TypeOK /\ head \in Generations /\ head # None
      /\ d.key \in Keys /\ r \in Receipts /\ RecOK(d.key, r)
      /\ faults["lost"] = 0 => HeadFits(d.key, r, head) /\ PubFits(d.key, r)
  BY <1>1, <1>3 DEF IndustryInv, TypeOK, WorkOK, RecsInv, LocksInv
<1>5. worker' = [worker EXCEPT ![w] = e]
  BY <1>1, <1>4 DEF TargetChanged, To, Key, Rec, Raised, Processes, TypeOK
<1>6. rec' = [rec EXCEPT ![d.key] = s]
  BY <1>1, <1>2, <1>4 DEF TargetChanged, Key, Rec, TypeOK, Receipts
<1>7. /\ UNCHANGED <<head, heads, faults>>
      /\ op' \in [Keys -> Operations] /\ live' \subseteq Keys \X Nat \X Nat
      /\ lifecycle' \in Workers \cup {None} /\ keyLock' \in [Keys -> Workers \cup {None}]
      /\ \A k \in Keys : keyLock'[k] = keyLock[k] \/ keyLock[k] \in {w, None}
      /\ \A k \in Keys : op'[k].st = "running" => op[k].st = "running"
      /\ \A k \in Keys : op'[k].st = "succeeded" => op[k].st = "succeeded"
  BY <1>1, <1>2, <1>4 DEF TargetChanged, data, locks, TypeOK, Raised, KeyReleased, Key
<1>8. /\ "raised" \in Places
      /\ "raised" \notin Unclaimed /\ "raised" \notin Keyless /\ "raised" \notin AnyClaim
      /\ "raised" \notin Publishing /\ "raised" \notin Started
      /\ "raised" \notin Composing /\ "raised" \notin LockedPublishing
      /\ "raised" \notin Locked
  BY DEF Places, Reconciliation, Working, Collecting, Unclaimed, AnyClaim, Keyless, Started,
         Publishing, Composing, Locked, LockedPublishing
<1>9. rec[d.key] = r /\ rec'[d.key] = s
  BY <1>4, <1>6 DEF TypeOK
<1> HIDE DEF d, r
<1>10. /\ d.att # 0 /\ d.cand # None
       /\ faults["lost"] = 0 => keyLock[d.key] = w /\ head.coord # d.key
  BY <1>1, <1>2, <1>3, <1>4, <1>9 DEF WorkOK, ClaimHolds, SettlerHolds
<1>11. /\ e \in Processes
       /\ e.pc = "raised" /\ e.key = d.key /\ e.att = d.att /\ e.i = d.i
       /\ e.cur = d.cur /\ e.comp = d.comp /\ e.cand = d.cand /\ e.gen = d.gen
  BY <1>1, <1>2, <1>3, <1>4, <1>8, <1>10 DEF Processes
<1> HIDE DEF e
<1>12. /\ s \in Receipts
       /\ s.st = "failed" /\ s.prior = r.prior /\ s.pub = None /\ s.comp = r.comp
       /\ r.st = "succeeded" /\ r.pub = None
  BY <1>1, <1>2, <1>4, <1>10 DEF RecOK, Receipts, Processes, NoRec
<1> HIDE DEF s
<1>13. RecStep(r, s) /\ RecOK(d.key, s)
  BY <1>2, <1>4, <1>10, <1>12 DEF RecStep, RecOK, NoRec
<1>14. WorkOK(e, rec')
  BY <1>1, <1>2, <1>3, <1>4, <1>8, <1>9, <1>10, <1>11, <1>12 DEF WorkOK
<1>15. faults["lost"] = 0 => (Soft(r, s) \/ keyLock[d.key] = w)
  BY <1>2, <1>4, <1>10, <1>12 DEF Soft
<1>16. faults["lost"] = 0 => ClaimHolds(w, e, rec', head, keyLock') /\ SettlerHolds(e, rec')
  BY <1>1, <1>2, <1>3, <1>4, <1>7, <1>8, <1>9, <1>10, <1>11, <1>12 DEF WorkOK, ClaimHolds,
         SettlerHolds
<1>17. faults["lost"] = 0 => HeadFits(d.key, s, head) /\ PubFits(d.key, s)
  BY <1>2, <1>4, <1>10, <1>12 DEF RecOK, HeadFits, PubFits
<1>18. RecStep(rec[d.key], s)
  BY <1>9, <1>13
<1>19. faults["lost"] = 0 =>
         /\ Soft(rec[d.key], s) \/ keyLock[d.key] = w
         /\ ClaimHolds(w, e, rec', head, keyLock') /\ SettlerHolds(e, rec')
         /\ HeadFits(d.key, s, head) /\ PubFits(d.key, s)
  BY <1>9, <1>15, <1>16, <1>17
<1> QED BY <1>4, <1>5, <1>6, <1>7, <1>11, <1>12, <1>13, <1>14, <1>18, <1>19, WritesKept

\* The receipt names the Generation to be published.
LEMMA RecordCandidateKept ==
    ASSUME IndustryInv, NEW w \in Workers, RecordCandidate(w)
    PROVE  IndustryInv'
<1> DEFINE d == worker[w]
           r == rec[d.key]
           e == [d EXCEPT !.pc = "recorded"]
           s == [r EXCEPT !.comp = d.comp, !.moved = FALSE]
<1>1. /\ d \in Processes /\ WorkOK(d, rec)
      /\ faults["lost"] = 0 => ClaimHolds(w, d, rec, head, keyLock) /\ SettlerHolds(d, rec)
  BY Knows
<1>2. /\ d.pc = "composed"
      /\ r.st = "succeeded"
  BY <1>1 DEF RecordCandidate, At, To, Key, Rec, Owned
<1>3. /\ d.pc \in Publishing /\ d.pc \in Started /\ d.pc \in Composing
      /\ d.pc \in LockedPublishing /\ d.pc \in Locked /\ d.pc \notin Unclaimed
      /\ d.pc \notin Keyless /\ d.pc \notin AnyClaim
  BY <1>2 DEF Unclaimed, AnyClaim, Keyless, Started, Publishing, Composing, Locked,
         LockedPublishing
<1>4. /\ TypeOK /\ head \in Generations /\ head # None
      /\ d.key \in Keys /\ r \in Receipts /\ RecOK(d.key, r)
      /\ faults["lost"] = 0 => HeadFits(d.key, r, head) /\ PubFits(d.key, r)
  BY <1>1, <1>3 DEF IndustryInv, TypeOK, WorkOK, RecsInv, LocksInv
<1>5. worker' = [worker EXCEPT ![w] = e]
  BY <1>1, <1>4 DEF RecordCandidate, To, Key, Rec, Raised, Processes, TypeOK
<1>6. rec' = [rec EXCEPT ![d.key] = s]
  BY <1>1, <1>2, <1>4 DEF RecordCandidate, Key, Rec, TypeOK, Receipts
<1>7. /\ UNCHANGED <<head, heads, faults>>
      /\ op' \in [Keys -> Operations] /\ live' \subseteq Keys \X Nat \X Nat
      /\ lifecycle' \in Workers \cup {None} /\ keyLock' \in [Keys -> Workers \cup {None}]
      /\ \A k \in Keys : keyLock'[k] = keyLock[k] \/ keyLock[k] \in {w, None}
      /\ \A k \in Keys : op'[k].st = "running" => op[k].st = "running"
      /\ \A k \in Keys : op'[k].st = "succeeded" => op[k].st = "succeeded"
      /\ keyLock' = keyLock
  BY <1>1, <1>2, <1>4 DEF RecordCandidate, data, locks, TypeOK, Raised, KeyReleased, Key
<1>8. /\ "recorded" \in Places
      /\ "recorded" \in Publishing /\ "recorded" \in Started /\ "recorded" \in Composing
      /\ "recorded" \in LockedPublishing /\ "recorded" \in Locked
      /\ "recorded" \notin Unclaimed /\ "recorded" \notin Keyless
      /\ "recorded" \notin AnyClaim
  BY DEF Places, Reconciliation, Working, Collecting, Unclaimed, AnyClaim, Keyless, Started,
         Publishing, Composing, Locked, LockedPublishing
<1>9. rec[d.key] = r /\ rec'[d.key] = s
  BY <1>4, <1>6 DEF TypeOK
<1> HIDE DEF d, r
<1>10. /\ d.att # 0 /\ d.comp.coord = d.key
       /\ faults["lost"] = 0 => keyLock[d.key] = w
  BY <1>1, <1>2, <1>3, <1>4, <1>9 DEF WorkOK, ClaimHolds, SettlerHolds
<1>11. /\ e \in Processes
       /\ e.pc = "recorded" /\ e.key = d.key /\ e.att = d.att /\ e.i = d.i
       /\ e.cur = d.cur /\ e.comp = d.comp /\ e.cand = d.cand /\ e.gen = d.gen
  BY <1>1, <1>2, <1>3, <1>4, <1>8, <1>10 DEF Processes
<1> HIDE DEF e
<1>12. /\ s \in Receipts
       /\ s.st = r.st /\ s.cand = r.cand /\ s.prior = r.prior /\ s.pub = r.pub
       /\ s.comp = d.comp /\ r.st = "succeeded" /\ d.comp.coord = d.key
  BY <1>1, <1>2, <1>4, <1>10 DEF RecOK, Receipts, Processes, NoRec
<1> HIDE DEF s
<1>13. RecStep(r, s) /\ RecOK(d.key, s)
  BY <1>2, <1>4, <1>10, <1>12 DEF RecStep, RecOK, NoRec
<1>14. WorkOK(e, rec')
  BY <1>1, <1>2, <1>3, <1>4, <1>8, <1>9, <1>10, <1>11, <1>12 DEF WorkOK
<1>15. faults["lost"] = 0 => (Soft(r, s) \/ keyLock[d.key] = w)
  BY <1>2, <1>4, <1>10, <1>12 DEF Soft
<1>16. faults["lost"] = 0 => ClaimHolds(w, e, rec', head, keyLock') /\ SettlerHolds(e, rec')
  BY <1>1, <1>2, <1>3, <1>4, <1>7, <1>8, <1>9, <1>10, <1>11, <1>12 DEF WorkOK, ClaimHolds,
         SettlerHolds
<1>17. faults["lost"] = 0 => HeadFits(d.key, s, head) /\ PubFits(d.key, s)
  BY <1>2, <1>4, <1>10, <1>12 DEF RecOK, HeadFits, PubFits
<1>18. RecStep(rec[d.key], s)
  BY <1>9, <1>13
<1>19. faults["lost"] = 0 =>
         /\ Soft(rec[d.key], s) \/ keyLock[d.key] = w
         /\ ClaimHolds(w, e, rec', head, keyLock') /\ SettlerHolds(e, rec')
         /\ HeadFits(d.key, s, head) /\ PubFits(d.key, s)
  BY <1>9, <1>15, <1>16, <1>17
<1> QED BY <1>4, <1>5, <1>6, <1>7, <1>11, <1>12, <1>13, <1>14, <1>18, <1>19, WritesKept

\* The receipt fails with the collection.
LEMMA CollectFailedKept ==
    ASSUME IndustryInv, NEW w \in Workers, NEW retry \in BOOLEAN, At(w, "collecting"),
           rec' = [rec EXCEPT ![Key(w)].st = IF @ = "running" THEN "failed" ELSE @],
           Raised(w, retry), UNCHANGED <<data, op, live, lifecycle, faults>>
    PROVE  IndustryInv'
<1> DEFINE d == worker[w]
           r == rec[d.key]
           e == [d EXCEPT !.pc = "raised", !.retry = retry]
           s == [r EXCEPT !.st = IF @ = "running" THEN "failed" ELSE @]
<1>1. /\ d \in Processes /\ WorkOK(d, rec)
      /\ faults["lost"] = 0 => ClaimHolds(w, d, rec, head, keyLock) /\ SettlerHolds(d, rec)
  BY Knows
<1>2. /\ d.pc = "collecting"
  BY <1>1 DEF At, To, Key, Rec, Owned
<1>3. /\ d.pc \in Started /\ d.pc \in Locked /\ d.pc \notin Unclaimed
      /\ d.pc \notin Keyless /\ d.pc \notin AnyClaim /\ d.pc \notin Publishing
      /\ d.pc \notin Composing /\ d.pc \notin LockedPublishing
  BY <1>2 DEF Unclaimed, AnyClaim, Keyless, Started, Publishing, Composing, Locked,
         LockedPublishing
<1>4. /\ TypeOK /\ head \in Generations /\ head # None
      /\ d.key \in Keys /\ r \in Receipts /\ RecOK(d.key, r)
      /\ faults["lost"] = 0 => HeadFits(d.key, r, head) /\ PubFits(d.key, r)
  BY <1>1, <1>3 DEF IndustryInv, TypeOK, WorkOK, RecsInv, LocksInv
<1>5. worker' = [worker EXCEPT ![w] = e]
  BY <1>1, <1>4 DEF To, Key, Rec, Raised, Processes, TypeOK
<1>6. rec' = [rec EXCEPT ![d.key] = s]
  BY <1>1, <1>2, <1>4 DEF Key, Rec, TypeOK, Receipts
<1>7. /\ UNCHANGED <<head, heads, faults>>
      /\ op' \in [Keys -> Operations] /\ live' \subseteq Keys \X Nat \X Nat
      /\ lifecycle' \in Workers \cup {None} /\ keyLock' \in [Keys -> Workers \cup {None}]
      /\ \A k \in Keys : keyLock'[k] = keyLock[k] \/ keyLock[k] \in {w, None}
      /\ \A k \in Keys : op'[k].st = "running" => op[k].st = "running"
      /\ \A k \in Keys : op'[k].st = "succeeded" => op[k].st = "succeeded"
  BY <1>1, <1>2, <1>4 DEF data, locks, TypeOK, Raised, KeyReleased, Key
<1>8. /\ "raised" \in Places
      /\ "raised" \notin Unclaimed /\ "raised" \notin Keyless /\ "raised" \notin AnyClaim
      /\ "raised" \notin Publishing /\ "raised" \notin Started
      /\ "raised" \notin Composing /\ "raised" \notin LockedPublishing
      /\ "raised" \notin Locked
  BY DEF Places, Reconciliation, Working, Collecting, Unclaimed, AnyClaim, Keyless, Started,
         Publishing, Composing, Locked, LockedPublishing
<1>9. rec[d.key] = r /\ rec'[d.key] = s
  BY <1>4, <1>6 DEF TypeOK
<1> HIDE DEF d, r
<1>10. /\ d.att # 0 /\ r.st # "none"
       /\ faults["lost"] = 0 => keyLock[d.key] = w
  BY <1>1, <1>2, <1>3, <1>4, <1>9 DEF WorkOK, ClaimHolds, SettlerHolds
<1>11. /\ e \in Processes
       /\ e.pc = "raised" /\ e.key = d.key /\ e.att = d.att /\ e.i = d.i
       /\ e.cur = d.cur /\ e.comp = d.comp /\ e.cand = d.cand /\ e.gen = d.gen
  BY <1>1, <1>2, <1>3, <1>4, <1>8, <1>10 DEF Processes
<1> HIDE DEF e
<1>12. /\ s \in Receipts
       /\ s.cand = r.cand /\ s.prior = r.prior /\ s.comp = r.comp /\ s.pub = r.pub
       /\ s.st # "none"
       /\ r.st # "running" => s.st = r.st
       /\ r.st = "running" => s.st = "failed"
  BY <1>1, <1>2, <1>4, <1>10 DEF RecOK, Receipts, Processes, NoRec
<1> HIDE DEF s
<1>13. RecStep(r, s) /\ RecOK(d.key, s)
  BY <1>2, <1>4, <1>10, <1>12 DEF RecStep, RecOK, NoRec
<1>14. WorkOK(e, rec')
  BY <1>1, <1>2, <1>3, <1>4, <1>8, <1>9, <1>10, <1>11, <1>12 DEF WorkOK
<1>15. faults["lost"] = 0 => (Soft(r, s) \/ keyLock[d.key] = w)
  BY <1>2, <1>4, <1>10, <1>12 DEF Soft
<1>16. faults["lost"] = 0 => ClaimHolds(w, e, rec', head, keyLock') /\ SettlerHolds(e, rec')
  BY <1>1, <1>2, <1>3, <1>4, <1>7, <1>8, <1>9, <1>10, <1>11, <1>12 DEF WorkOK, ClaimHolds,
         SettlerHolds
<1>17. faults["lost"] = 0 => HeadFits(d.key, s, head) /\ PubFits(d.key, s)
  BY <1>2, <1>4, <1>10, <1>12 DEF RecOK, HeadFits, PubFits
<1>18. RecStep(rec[d.key], s)
  BY <1>9, <1>13
<1>19. faults["lost"] = 0 =>
         /\ Soft(rec[d.key], s) \/ keyLock[d.key] = w
         /\ ClaimHolds(w, e, rec', head, keyLock') /\ SettlerHolds(e, rec')
         /\ HeadFits(d.key, s, head) /\ PubFits(d.key, s)
  BY <1>9, <1>15, <1>16, <1>17
<1> QED BY <1>4, <1>5, <1>6, <1>7, <1>11, <1>12, <1>13, <1>14, <1>18, <1>19, WritesKept

\* The transaction of the Head switch commits.
LEMMA CommitSwitchKept ==
    ASSUME IndustryInv, NEW w \in Workers, CommitSwitch(w)
    PROVE  IndustryInv'
<1> DEFINE d == worker[w]
           r == rec[d.key]
           e == [d EXCEPT !.pc = "receipt", !.gen = d.comp]
           s == [r EXCEPT !.moved = TRUE]
<1>1. /\ d \in Processes /\ WorkOK(d, rec)
      /\ faults["lost"] = 0 => ClaimHolds(w, d, rec, head, keyLock) /\ SettlerHolds(d, rec)
  BY Knows
<1>2. /\ d.pc = "switched"
      /\ r.st = "succeeded"
  BY <1>1 DEF CommitSwitch, At, To, Key, Rec, Owned
<1>3. /\ d.pc \in Publishing /\ d.pc \in Started /\ d.pc \in Composing
      /\ d.pc \in LockedPublishing /\ d.pc \in Locked /\ d.pc \notin Unclaimed
      /\ d.pc \notin Keyless /\ d.pc \notin AnyClaim
  BY <1>2 DEF Unclaimed, AnyClaim, Keyless, Started, Publishing, Composing, Locked,
         LockedPublishing
<1>4. /\ TypeOK /\ head \in Generations /\ head # None
      /\ d.key \in Keys /\ r \in Receipts /\ RecOK(d.key, r)
      /\ faults["lost"] = 0 => HeadFits(d.key, r, head) /\ PubFits(d.key, r)
  BY <1>1, <1>3 DEF IndustryInv, TypeOK, WorkOK, RecsInv, LocksInv
<1>5. worker' = [worker EXCEPT ![w] = e]
  BY <1>1, <1>4 DEF CommitSwitch, To, Key, Rec, Raised, Processes, TypeOK
<1>6. rec' = [rec EXCEPT ![d.key] = s]
  BY <1>1, <1>2, <1>4 DEF CommitSwitch, Key, Rec, TypeOK, Receipts
<1>7. /\ UNCHANGED <<head, heads, faults>>
      /\ op' \in [Keys -> Operations] /\ live' \subseteq Keys \X Nat \X Nat
      /\ lifecycle' \in Workers \cup {None} /\ keyLock' \in [Keys -> Workers \cup {None}]
      /\ \A k \in Keys : keyLock'[k] = keyLock[k] \/ keyLock[k] \in {w, None}
      /\ \A k \in Keys : op'[k].st = "running" => op[k].st = "running"
      /\ \A k \in Keys : op'[k].st = "succeeded" => op[k].st = "succeeded"
      /\ keyLock' = keyLock
  <2> DEFINE o == [op[d.key] EXCEPT !.live = TRUE]
  <2>0. op[d.key] \in Operations
    BY <1>4 DEF TypeOK
  <2>1. o \in Operations /\ o.st = op[d.key].st
    BY <2>0 DEF Operations
  <2>2. op' = [op EXCEPT ![d.key] = o]
    BY DEF CommitSwitch, Key
  <2> HIDE DEF o
  <2>3. /\ op' \in [Keys -> Operations]
        /\ \A k \in Keys : op'[k].st = op[k].st
    BY <1>4, <2>1, <2>2 DEF TypeOK
  <2> QED BY <1>1, <1>2, <1>4, <2>3 DEF CommitSwitch, data, locks, TypeOK
<1>8. /\ "receipt" \in Places
      /\ "receipt" \in AnyClaim /\ "receipt" \in Publishing /\ "receipt" \in Started
      /\ "receipt" \in LockedPublishing /\ "receipt" \in Locked
      /\ "receipt" \notin Unclaimed /\ "receipt" \notin Keyless
      /\ "receipt" \notin Composing
  BY DEF Places, Reconciliation, Working, Collecting, Unclaimed, AnyClaim, Keyless, Started,
         Publishing, Composing, Locked, LockedPublishing
<1>9. rec[d.key] = r /\ rec'[d.key] = s
  BY <1>4, <1>6 DEF TypeOK
<1> HIDE DEF d, r
<1>10. /\ d.att # 0 /\ d.comp \in Generations /\ d.comp # None
       /\ faults["lost"] = 0 => keyLock[d.key] = w
  BY <1>1, <1>2, <1>3, <1>4, <1>9 DEF WorkOK, ClaimHolds, SettlerHolds, Generations, Processes
<1>11. /\ e \in Processes
       /\ e.pc = "receipt" /\ e.key = d.key /\ e.att = d.att /\ e.i = d.i
       /\ e.cur = d.cur /\ e.comp = d.comp /\ e.cand = d.cand /\ e.gen = d.comp
  BY <1>1, <1>2, <1>3, <1>4, <1>8, <1>10 DEF Processes
<1> HIDE DEF e
<1>12. /\ s \in Receipts
       /\ s.st = r.st /\ s.cand = r.cand /\ s.prior = r.prior /\ s.pub = r.pub
       /\ s.comp = r.comp /\ r.st = "succeeded"
  BY <1>1, <1>2, <1>4, <1>10 DEF RecOK, Receipts, Processes, NoRec
<1> HIDE DEF s
<1>13. RecStep(r, s) /\ RecOK(d.key, s)
  BY <1>2, <1>4, <1>10, <1>12 DEF RecStep, RecOK, NoRec
<1>14. WorkOK(e, rec')
  BY <1>1, <1>2, <1>3, <1>4, <1>8, <1>9, <1>10, <1>11, <1>12 DEF WorkOK
<1>15. faults["lost"] = 0 => (Soft(r, s) \/ keyLock[d.key] = w)
  BY <1>2, <1>4, <1>10, <1>12 DEF Soft
<1>16. faults["lost"] = 0 => ClaimHolds(w, e, rec', head, keyLock') /\ SettlerHolds(e, rec')
  BY <1>1, <1>2, <1>3, <1>4, <1>7, <1>8, <1>9, <1>10, <1>11, <1>12 DEF WorkOK, ClaimHolds,
         SettlerHolds
<1>17. faults["lost"] = 0 => HeadFits(d.key, s, head) /\ PubFits(d.key, s)
  BY <1>2, <1>4, <1>10, <1>12 DEF RecOK, HeadFits, PubFits
<1>18. RecStep(rec[d.key], s)
  BY <1>9, <1>13
<1>19. faults["lost"] = 0 =>
         /\ Soft(rec[d.key], s) \/ keyLock[d.key] = w
         /\ ClaimHolds(w, e, rec', head, keyLock') /\ SettlerHolds(e, rec')
         /\ HeadFits(d.key, s, head) /\ PubFits(d.key, s)
  BY <1>9, <1>15, <1>16, <1>17
<1> QED BY <1>4, <1>5, <1>6, <1>7, <1>11, <1>12, <1>13, <1>14, <1>18, <1>19, WritesKept

\* A reconciliation writes the publication: WritePublication, first case.
LEMMA SettlesReceiptKept ==
    ASSUME IndustryInv, NEW w \in Workers, At(w, "matched"), Writable(w),
           rec' = [rec EXCEPT ![Key(w)].pub = worker[w].gen],
           Reconciling(w), To(w, "received"), UNCHANGED keyLock,
           UNCHANGED <<data, op, live, lifecycle, faults>>
    PROVE  IndustryInv'
<1> DEFINE d == worker[w]
           r == rec[d.key]
           e == [d EXCEPT !.pc = "received"]
           s == [r EXCEPT !.pub = d.gen]
<1>1. /\ d \in Processes /\ WorkOK(d, rec)
      /\ faults["lost"] = 0 => ClaimHolds(w, d, rec, head, keyLock) /\ SettlerHolds(d, rec)
  BY Knows
<1>2. /\ d.pc = "matched"
      /\ ((r.st = "succeeded" /\ r.pub = None) \/ r.pub = d.gen) /\ d.att = 0
  BY <1>1 DEF Writable, At, To, Key, Rec, Owned, Reconciling
<1>3. /\ d.pc \in AnyClaim /\ d.pc \in Publishing /\ d.pc \in Started
      /\ d.pc \in LockedPublishing /\ d.pc \in Locked /\ d.pc \notin Unclaimed
      /\ d.pc \notin Keyless /\ d.pc \notin Composing
  BY <1>2 DEF Unclaimed, AnyClaim, Keyless, Started, Publishing, Composing, Locked,
         LockedPublishing
<1>4. /\ TypeOK /\ head \in Generations /\ head # None
      /\ d.key \in Keys /\ r \in Receipts /\ RecOK(d.key, r)
      /\ faults["lost"] = 0 => HeadFits(d.key, r, head) /\ PubFits(d.key, r)
  BY <1>1, <1>3 DEF IndustryInv, TypeOK, WorkOK, RecsInv, LocksInv
<1>5. worker' = [worker EXCEPT ![w] = e]
  BY <1>1, <1>4 DEF Writable, To, Key, Rec, Raised, Processes, TypeOK, Reconciling
<1>6. rec' = [rec EXCEPT ![d.key] = s]
  BY <1>1, <1>2, <1>4 DEF Writable, Key, Rec, TypeOK, Receipts, Reconciling
<1>7. /\ UNCHANGED <<head, heads, faults>>
      /\ op' \in [Keys -> Operations] /\ live' \subseteq Keys \X Nat \X Nat
      /\ lifecycle' \in Workers \cup {None} /\ keyLock' \in [Keys -> Workers \cup {None}]
      /\ \A k \in Keys : keyLock'[k] = keyLock[k] \/ keyLock[k] \in {w, None}
      /\ \A k \in Keys : op'[k].st = "running" => op[k].st = "running"
      /\ \A k \in Keys : op'[k].st = "succeeded" => op[k].st = "succeeded"
      /\ keyLock' = keyLock
  BY <1>1, <1>2, <1>4 DEF Writable, data, locks, TypeOK, Raised, KeyReleased, Key
<1>8. /\ "received" \in Places
      /\ "received" \in Unclaimed /\ "received" \notin Keyless
      /\ "received" \notin AnyClaim /\ "received" \notin Publishing
      /\ "received" \notin Started /\ "received" \notin Composing
      /\ "received" \notin LockedPublishing /\ "received" \notin Locked
  BY DEF Places, Reconciliation, Working, Collecting, Unclaimed, AnyClaim, Keyless, Started,
         Publishing, Composing, Locked, LockedPublishing
<1>9. rec[d.key] = r /\ rec'[d.key] = s
  BY <1>4, <1>6 DEF TypeOK
<1> HIDE DEF d, r
<1>10. /\ d.gen # None
       /\ faults["lost"] = 0 => d.gen.coord = d.key \/ r.pub # None
  BY <1>1, <1>2, <1>3, <1>4, <1>9 DEF WorkOK, ClaimHolds, SettlerHolds
<1>11. /\ e \in Processes
       /\ e.pc = "received" /\ e.key = d.key /\ e.att = d.att /\ e.i = d.i
       /\ e.cur = d.cur /\ e.comp = d.comp /\ e.cand = d.cand /\ e.gen = d.gen
  BY <1>1, <1>2, <1>3, <1>4, <1>8, <1>10 DEF Processes
<1> HIDE DEF e
<1>12. /\ s \in Receipts
       /\ s.st = r.st /\ s.cand = r.cand /\ s.prior = r.prior /\ s.pub = d.gen
       /\ s.comp = r.comp /\ r.st = "succeeded" /\ r.pub \in {None, d.gen}
  BY <1>1, <1>2, <1>4, <1>10 DEF RecOK, Receipts, Processes, NoRec
<1> HIDE DEF s
<1>13. RecStep(r, s) /\ RecOK(d.key, s)
  BY <1>2, <1>4, <1>10, <1>12 DEF RecStep, RecOK, NoRec
<1>14. WorkOK(e, rec')
  BY <1>1, <1>2, <1>3, <1>4, <1>8, <1>9, <1>10, <1>11, <1>12 DEF WorkOK
<1>15. faults["lost"] = 0 => (Soft(r, s) \/ keyLock[d.key] = w)
  BY <1>2, <1>4, <1>10, <1>12 DEF Soft
<1>16. faults["lost"] = 0 => ClaimHolds(w, e, rec', head, keyLock') /\ SettlerHolds(e, rec')
  BY <1>1, <1>2, <1>3, <1>4, <1>7, <1>8, <1>9, <1>10, <1>11, <1>12 DEF WorkOK, ClaimHolds,
         SettlerHolds
<1>17. faults["lost"] = 0 => HeadFits(d.key, s, head) /\ PubFits(d.key, s)
  BY <1>2, <1>4, <1>10, <1>12 DEF RecOK, HeadFits, PubFits
<1>18. RecStep(rec[d.key], s)
  BY <1>9, <1>13
<1>19. faults["lost"] = 0 =>
         /\ Soft(rec[d.key], s) \/ keyLock[d.key] = w
         /\ ClaimHolds(w, e, rec', head, keyLock') /\ SettlerHolds(e, rec')
         /\ HeadFits(d.key, s, head) /\ PubFits(d.key, s)
  BY <1>9, <1>15, <1>16, <1>17
<1> QED BY <1>4, <1>5, <1>6, <1>7, <1>11, <1>12, <1>13, <1>14, <1>18, <1>19, WritesKept

\* The Worker writes it: WritePublication, second case.
LEMMA WritesReceiptKept ==
    ASSUME IndustryInv, NEW w \in Workers, At(w, "matched"), Writable(w),
           rec' = [rec EXCEPT ![Key(w)].pub = worker[w].gen],
           ~Reconciling(w), To(w, "complete"), KeyReleased(w),
           UNCHANGED <<data, op, live, lifecycle, faults>>
    PROVE  IndustryInv'
<1> DEFINE d == worker[w]
           r == rec[d.key]
           e == [d EXCEPT !.pc = "complete"]
           s == [r EXCEPT !.pub = d.gen]
<1>1. /\ d \in Processes /\ WorkOK(d, rec)
      /\ faults["lost"] = 0 => ClaimHolds(w, d, rec, head, keyLock) /\ SettlerHolds(d, rec)
  BY Knows
<1>2. /\ d.pc = "matched"
      /\ ((r.st = "succeeded" /\ r.pub = None) \/ r.pub = d.gen) /\ d.att # 0
  BY <1>1 DEF Writable, At, To, Key, Rec, Owned, Reconciling
<1>3. /\ d.pc \in AnyClaim /\ d.pc \in Publishing /\ d.pc \in Started
      /\ d.pc \in LockedPublishing /\ d.pc \in Locked /\ d.pc \notin Unclaimed
      /\ d.pc \notin Keyless /\ d.pc \notin Composing
  BY <1>2 DEF Unclaimed, AnyClaim, Keyless, Started, Publishing, Composing, Locked,
         LockedPublishing
<1>4. /\ TypeOK /\ head \in Generations /\ head # None
      /\ d.key \in Keys /\ r \in Receipts /\ RecOK(d.key, r)
      /\ faults["lost"] = 0 => HeadFits(d.key, r, head) /\ PubFits(d.key, r)
  BY <1>1, <1>3 DEF IndustryInv, TypeOK, WorkOK, RecsInv, LocksInv
<1>5. worker' = [worker EXCEPT ![w] = e]
  BY <1>1, <1>4 DEF Writable, To, Key, Rec, Raised, Processes, TypeOK, Reconciling
<1>6. rec' = [rec EXCEPT ![d.key] = s]
  BY <1>1, <1>2, <1>4 DEF Writable, Key, Rec, TypeOK, Receipts, Reconciling
<1>7. /\ UNCHANGED <<head, heads, faults>>
      /\ op' \in [Keys -> Operations] /\ live' \subseteq Keys \X Nat \X Nat
      /\ lifecycle' \in Workers \cup {None} /\ keyLock' \in [Keys -> Workers \cup {None}]
      /\ \A k \in Keys : keyLock'[k] = keyLock[k] \/ keyLock[k] \in {w, None}
      /\ \A k \in Keys : op'[k].st = "running" => op[k].st = "running"
      /\ \A k \in Keys : op'[k].st = "succeeded" => op[k].st = "succeeded"
  BY <1>1, <1>2, <1>4 DEF Writable, data, locks, TypeOK, Raised, KeyReleased, Key
<1>8. /\ "complete" \in Places
      /\ "complete" \in Publishing /\ "complete" \in Started
      /\ "complete" \notin Unclaimed /\ "complete" \notin Keyless
      /\ "complete" \notin AnyClaim /\ "complete" \notin Composing
      /\ "complete" \notin LockedPublishing /\ "complete" \notin Locked
  BY DEF Places, Reconciliation, Working, Collecting, Unclaimed, AnyClaim, Keyless, Started,
         Publishing, Composing, Locked, LockedPublishing
<1>9. rec[d.key] = r /\ rec'[d.key] = s
  BY <1>4, <1>6 DEF TypeOK
<1> HIDE DEF d, r
<1>10. /\ d.gen # None
       /\ faults["lost"] = 0 => d.gen.coord = d.key \/ d.gen.ind = r.cand
  BY <1>1, <1>2, <1>3, <1>4, <1>9 DEF WorkOK, ClaimHolds, SettlerHolds
<1>11. /\ e \in Processes
       /\ e.pc = "complete" /\ e.key = d.key /\ e.att = d.att /\ e.i = d.i
       /\ e.cur = d.cur /\ e.comp = d.comp /\ e.cand = d.cand /\ e.gen = d.gen
  BY <1>1, <1>2, <1>3, <1>4, <1>8, <1>10 DEF Processes
<1> HIDE DEF e
<1>12. /\ s \in Receipts
       /\ s.st = r.st /\ s.cand = r.cand /\ s.prior = r.prior /\ s.pub = d.gen
       /\ s.comp = r.comp /\ r.st = "succeeded" /\ r.pub \in {None, d.gen}
  BY <1>1, <1>2, <1>4, <1>10 DEF RecOK, Receipts, Processes, NoRec
<1> HIDE DEF s
<1>13. RecStep(r, s) /\ RecOK(d.key, s)
  BY <1>2, <1>4, <1>10, <1>12 DEF RecStep, RecOK, NoRec
<1>14. WorkOK(e, rec')
  BY <1>1, <1>2, <1>3, <1>4, <1>8, <1>9, <1>10, <1>11, <1>12 DEF WorkOK
<1>15. faults["lost"] = 0 => (Soft(r, s) \/ keyLock[d.key] = w)
  BY <1>2, <1>4, <1>10, <1>12 DEF Soft
<1>16. faults["lost"] = 0 => ClaimHolds(w, e, rec', head, keyLock') /\ SettlerHolds(e, rec')
  BY <1>1, <1>2, <1>3, <1>4, <1>7, <1>8, <1>9, <1>10, <1>11, <1>12 DEF WorkOK, ClaimHolds,
         SettlerHolds
<1>17. faults["lost"] = 0 => HeadFits(d.key, s, head) /\ PubFits(d.key, s)
  BY <1>2, <1>4, <1>10, <1>12 DEF RecOK, HeadFits, PubFits
<1>18. RecStep(rec[d.key], s)
  BY <1>9, <1>13
<1>19. faults["lost"] = 0 =>
         /\ Soft(rec[d.key], s) \/ keyLock[d.key] = w
         /\ ClaimHolds(w, e, rec', head, keyLock') /\ SettlerHolds(e, rec')
         /\ HeadFits(d.key, s, head) /\ PubFits(d.key, s)
  BY <1>9, <1>15, <1>16, <1>17
<1> QED BY <1>4, <1>5, <1>6, <1>7, <1>11, <1>12, <1>13, <1>14, <1>18, <1>19, WritesKept

\* The Worker writes it and raises: WritePublication, third case.
LEMMA WritesUnlikeKept ==
    ASSUME IndustryInv, NEW w \in Workers, At(w, "unlike"), Writable(w),
           rec' = [rec EXCEPT ![Key(w)].pub = worker[w].gen],
           ~Reconciling(w), Raised(w, TRUE), TRUE,
           UNCHANGED <<data, op, live, lifecycle, faults>>
    PROVE  IndustryInv'
<1> DEFINE d == worker[w]
           r == rec[d.key]
           e == [d EXCEPT !.pc = "raised", !.retry = TRUE]
           s == [r EXCEPT !.pub = d.gen]
<1>1. /\ d \in Processes /\ WorkOK(d, rec)
      /\ faults["lost"] = 0 => ClaimHolds(w, d, rec, head, keyLock) /\ SettlerHolds(d, rec)
  BY Knows
<1>2. /\ d.pc = "unlike"
      /\ ((r.st = "succeeded" /\ r.pub = None) \/ r.pub = d.gen) /\ d.att # 0
  BY <1>1 DEF Writable, At, To, Key, Rec, Owned, Reconciling
<1>3. /\ d.pc \in Publishing /\ d.pc \in Started /\ d.pc \in LockedPublishing
      /\ d.pc \in Locked /\ d.pc \notin Unclaimed /\ d.pc \notin Keyless
      /\ d.pc \notin AnyClaim /\ d.pc \notin Composing
  BY <1>2 DEF Unclaimed, AnyClaim, Keyless, Started, Publishing, Composing, Locked,
         LockedPublishing
<1>4. /\ TypeOK /\ head \in Generations /\ head # None
      /\ d.key \in Keys /\ r \in Receipts /\ RecOK(d.key, r)
      /\ faults["lost"] = 0 => HeadFits(d.key, r, head) /\ PubFits(d.key, r)
  BY <1>1, <1>3 DEF IndustryInv, TypeOK, WorkOK, RecsInv, LocksInv
<1>5. worker' = [worker EXCEPT ![w] = e]
  BY <1>1, <1>4 DEF Writable, To, Key, Rec, Raised, Processes, TypeOK, Reconciling
<1>6. rec' = [rec EXCEPT ![d.key] = s]
  BY <1>1, <1>2, <1>4 DEF Writable, Key, Rec, TypeOK, Receipts, Reconciling
<1>7. /\ UNCHANGED <<head, heads, faults>>
      /\ op' \in [Keys -> Operations] /\ live' \subseteq Keys \X Nat \X Nat
      /\ lifecycle' \in Workers \cup {None} /\ keyLock' \in [Keys -> Workers \cup {None}]
      /\ \A k \in Keys : keyLock'[k] = keyLock[k] \/ keyLock[k] \in {w, None}
      /\ \A k \in Keys : op'[k].st = "running" => op[k].st = "running"
      /\ \A k \in Keys : op'[k].st = "succeeded" => op[k].st = "succeeded"
  BY <1>1, <1>2, <1>4 DEF Writable, data, locks, TypeOK, Raised, KeyReleased, Key
<1>8. /\ "raised" \in Places
      /\ "raised" \notin Unclaimed /\ "raised" \notin Keyless /\ "raised" \notin AnyClaim
      /\ "raised" \notin Publishing /\ "raised" \notin Started
      /\ "raised" \notin Composing /\ "raised" \notin LockedPublishing
      /\ "raised" \notin Locked
  BY DEF Places, Reconciliation, Working, Collecting, Unclaimed, AnyClaim, Keyless, Started,
         Publishing, Composing, Locked, LockedPublishing
<1>9. rec[d.key] = r /\ rec'[d.key] = s
  BY <1>4, <1>6 DEF TypeOK
<1> HIDE DEF d, r
<1>10. /\ d.gen # None
       /\ faults["lost"] # 0
  BY <1>1, <1>2, <1>3, <1>4, <1>9 DEF WorkOK, ClaimHolds, SettlerHolds
<1>11. /\ e \in Processes
       /\ e.pc = "raised" /\ e.key = d.key /\ e.att = d.att /\ e.i = d.i
       /\ e.cur = d.cur /\ e.comp = d.comp /\ e.cand = d.cand /\ e.gen = d.gen
  BY <1>1, <1>2, <1>3, <1>4, <1>8, <1>10 DEF Processes
<1> HIDE DEF e
<1>12. /\ s \in Receipts
       /\ s.st = r.st /\ s.cand = r.cand /\ s.prior = r.prior /\ s.pub = d.gen
       /\ s.comp = r.comp /\ r.st = "succeeded" /\ r.pub \in {None, d.gen}
  BY <1>1, <1>2, <1>4, <1>10 DEF RecOK, Receipts, Processes, NoRec
<1> HIDE DEF s
<1>13. RecStep(r, s) /\ RecOK(d.key, s)
  BY <1>2, <1>4, <1>10, <1>12 DEF RecStep, RecOK, NoRec
<1>14. WorkOK(e, rec')
  BY <1>1, <1>2, <1>3, <1>4, <1>8, <1>9, <1>10, <1>11, <1>12 DEF WorkOK
<1>15. faults["lost"] = 0 => (Soft(r, s) \/ keyLock[d.key] = w)
  BY <1>2, <1>4, <1>10, <1>12 DEF Soft
<1>16. faults["lost"] = 0 => ClaimHolds(w, e, rec', head, keyLock') /\ SettlerHolds(e, rec')
  BY <1>1, <1>2, <1>3, <1>4, <1>7, <1>8, <1>9, <1>10, <1>11, <1>12 DEF WorkOK, ClaimHolds,
         SettlerHolds
<1>17. faults["lost"] = 0 => HeadFits(d.key, s, head) /\ PubFits(d.key, s)
  BY <1>2, <1>4, <1>10, <1>12 DEF RecOK, HeadFits, PubFits
<1>18. RecStep(rec[d.key], s)
  BY <1>9, <1>13
<1>19. faults["lost"] = 0 =>
         /\ Soft(rec[d.key], s) \/ keyLock[d.key] = w
         /\ ClaimHolds(w, e, rec', head, keyLock') /\ SettlerHolds(e, rec')
         /\ HeadFits(d.key, s, head) /\ PubFits(d.key, s)
  BY <1>9, <1>15, <1>16, <1>17
<1> QED BY <1>4, <1>5, <1>6, <1>7, <1>11, <1>12, <1>13, <1>14, <1>18, <1>19, WritesKept

\* The end of an attempt writes a receipt that has no publication yet.
LEMMA ReceiptEnds ==
    ASSUME IndustryInv, NEW k \in Keys, NEW retry \in BOOLEAN
    PROVE  LET s == IF retry THEN Reopened(rec[k]) ELSE Closed(rec[k]) IN
           /\ s \in Receipts /\ RecStep(rec[k], s) /\ RecOK(k, s) /\ Soft(rec[k], s)
           /\ faults["lost"] = 0 => HeadFits(k, s, head) /\ PubFits(k, s)
<1> DEFINE r == rec[k]
           s == IF retry THEN Reopened(r) ELSE Closed(r)
<1>1. /\ r \in Receipts /\ RecOK(k, r)
      /\ faults["lost"] = 0 => HeadFits(k, r, head) /\ PubFits(k, r)
  BY DEF IndustryInv, TypeOK, RecsInv, LocksInv
<1> HIDE DEF r
<1>2. CASE s = r
  BY <1>1, <1>2 DEF RecStep, Soft, r
<1>3. CASE r.st \in {"failed", "running"} /\ r.pub = None
           /\ s = [r EXCEPT !.st = "running"]
  <2> HIDE DEF s
  <2>1. /\ s \in Receipts /\ s.st = "running" /\ s.prior = r.prior /\ s.cand = r.cand
        /\ s.comp = r.comp /\ s.pub = r.pub
    BY <1>1, <1>3 DEF Receipts
  <2>2. RecStep(r, s) /\ RecOK(k, s) /\ Soft(r, s)
    BY <1>1, <1>3, <2>1 DEF RecStep, RecOK, Soft
  <2>3. faults["lost"] = 0 => HeadFits(k, s, head) /\ PubFits(k, s)
    BY <1>1, <1>3, <2>1 DEF HeadFits, PubFits
  <2> QED BY <2>1, <2>2, <2>3 DEF r, s
<1>4. CASE r.st = "running" /\ r.pub = None
           /\ s = [r EXCEPT !.st = "failed", !.cand = None]
  <2> HIDE DEF s
  <2>1. /\ s \in Receipts /\ s.st = "failed" /\ s.prior = r.prior /\ s.cand = None
        /\ s.comp = r.comp /\ s.pub = r.pub
    BY <1>1, <1>4 DEF Receipts
  <2>2. RecStep(r, s) /\ RecOK(k, s) /\ Soft(r, s)
    BY <1>1, <1>4, <2>1 DEF RecStep, RecOK, Soft
  <2>3. faults["lost"] = 0 => HeadFits(k, s, head) /\ PubFits(k, s)
    BY <1>1, <1>4, <2>1 DEF HeadFits, PubFits
  <2> QED BY <2>1, <2>2, <2>3 DEF r, s
<1>5. s = r \/ (r.st \in {"failed", "running"} /\ r.pub = None /\ s = [r EXCEPT !.st = "running"])
      \/ (r.st = "running" /\ r.pub = None /\ s = [r EXCEPT !.st = "failed", !.cand = None])
  BY DEF Reopened, Closed
<1> QED BY <1>2, <1>3, <1>4, <1>5

\* An attempt ends without a publication.
LEMMA EndsKept ==
    ASSUME IndustryInv, NEW w \in Workers, NEW e \in Processes, NEW k \in Keys,
           NEW retry \in BOOLEAN, EndAttempt(k, retry),
           worker' = [worker EXCEPT ![w] = e], UNCHANGED <<head, heads, lifecycle, faults>>,
           keyLock' \in [Keys -> Workers \cup {None}],
           \A j \in Keys : keyLock'[j] = keyLock[j] \/ keyLock[j] \in {w, None},
           \A rs, h, kl : WorkOK(e, rs) /\ ClaimHolds(w, e, rs, h, kl) /\ SettlerHolds(e, rs)
    PROVE  IndustryInv'
<1> DEFINE s == IF retry THEN Reopened(rec[k]) ELSE Closed(rec[k])
           o == [op[k] EXCEPT !.st = IF retry THEN "accepted" ELSE "failed", !.live = FALSE]
<1>1. /\ s \in Receipts /\ RecStep(rec[k], s) /\ RecOK(k, s) /\ Soft(rec[k], s)
      /\ faults["lost"] = 0 => HeadFits(k, s, head) /\ PubFits(k, s)
  BY ReceiptEnds
<1>2. op[k] \in Operations /\ live \subseteq Keys \X Nat \X Nat /\ lifecycle \in Workers \cup {None}
  BY DEF IndustryInv, TypeOK
<1>3. o \in Operations /\ o.st \in {"accepted", "failed"}
  BY <1>2 DEF Operations
<1>4. /\ op' = [op EXCEPT ![k] = o] /\ rec' = [rec EXCEPT ![k] = s]
      /\ live' \subseteq Keys \X Nat \X Nat
  BY <1>2 DEF EndAttempt, Release
<1> HIDE DEF s, o
<1>5. /\ op' \in [Keys -> Operations]
      /\ \A j \in Keys : op'[j].st = "running" => op[j].st = "running"
      /\ \A j \in Keys : op'[j].st = "succeeded" => op[j].st = "succeeded"
  BY <1>3, <1>4 DEF IndustryInv, TypeOK
<1>6. /\ WorkOK(e, rec')
      /\ faults["lost"] = 0 =>
            /\ Soft(rec[k], s) \/ keyLock[k] = w
            /\ ClaimHolds(w, e, rec', head, keyLock') /\ SettlerHolds(e, rec')
            /\ HeadFits(k, s, head) /\ PubFits(k, s)
  BY <1>1
<1> QED BY <1>1, <1>2, <1>4, <1>5, <1>6, WritesKept

\* A Worker between two claims knows nothing.
LEMMA RestingOK ==
    ASSUME NEW w, NEW e, e.att = 0, e.pc \in {"idle", "reconciled", "recovered"}
    PROVE  \A rs, h, kl : WorkOK(e, rs) /\ ClaimHolds(w, e, rs, h, kl) /\ SettlerHolds(e, rs)
BY DEF WorkOK, ClaimHolds, SettlerHolds, Unclaimed, AnyClaim, Keyless, Composing, Started,
       Publishing

\* An expired attempt is recovered.
LEMMA RecoverExpiredKept ==
    ASSUME IndustryInv, NEW w \in Workers, RecoverExpired(w)
    PROVE  IndustryInv'
<1> DEFINE d == worker[w]
           e == [d EXCEPT !.pc = "recovered"]
<1>1. d \in Processes /\ WorkOK(d, rec) /\ d.pc = "reconciled"
  BY Knows DEF RecoverExpired, At
<1>2. d.att = 0
  BY <1>1 DEF WorkOK, Unclaimed
<1>3. worker' = [worker EXCEPT ![w] = e]
  BY <1>1 DEF RecoverExpired, To, Processes
<1>4. /\ UNCHANGED <<head, heads, lifecycle, keyLock, faults>>
      /\ keyLock' \in [Keys -> Workers \cup {None}]
      /\ lifecycle' \in Workers \cup {None}
      /\ live \subseteq Keys \X Nat \X Nat /\ op \in [Keys -> Operations]
  BY DEF RecoverExpired, data, locks, IndustryInv, TypeOK
<1> HIDE DEF d
<1>5. "recovered" \in Places
  BY DEF Places, Reconciliation
<1>6. e \in Processes /\ e.att = 0 /\ e.pc = "recovered"
  BY <1>1, <1>2, <1>5 DEF Processes
<1> HIDE DEF e
<1>7. \A rs, h, kl : WorkOK(e, rs) /\ ClaimHolds(w, e, rs, h, kl) /\ SettlerHolds(e, rs)
  BY <1>6, RestingOK
<1>8. CASE \E k \in Keys : Expired(k) /\ EndAttempt(k, op[k].att < MaxAttempts)
  <2>1. PICK k \in Keys : EndAttempt(k, op[k].att < MaxAttempts)
    BY <1>8
  <2>2. EndAttempt(k, TRUE) \/ EndAttempt(k, FALSE)
    BY <2>1 DEF EndAttempt
  <2> QED BY <1>3, <1>4, <1>6, <1>7, <2>2, EndsKept
<1>9. CASE UNCHANGED <<op, rec, live>>
  BY <1>3, <1>4, <1>6, <1>7, <1>9, GoesKept
<1> QED BY <1>8, <1>9 DEF RecoverExpired

\* A failure is recorded.
LEMMA RecordFailureKept ==
    ASSUME IndustryInv, NEW w \in Workers, RecordFailure(w)
    PROVE  IndustryInv'
<1>1. CASE Owned(w)
  <2>1. Leave(w) /\ UNCHANGED <<head, heads, lifecycle, faults>>
    BY <1>1 DEF RecordFailure, data
  <2>2. EndAttempt(Key(w), TRUE) \/ EndAttempt(Key(w), FALSE)
    BY <1>1 DEF RecordFailure, EndAttempt
  <2>3. Key(w) \in Keys
    BY Knows DEF RecordFailure, At, Key, WorkOK, Keyless
  <2>4. Idle \in Processes /\ Idle.att = 0 /\ Idle.pc = "idle"
    BY DEF Idle, Processes, Places
  <2>5. worker' = [worker EXCEPT ![w] = Idle]
    BY <2>1 DEF Leave
  <2>6. \A rs, h, kl : WorkOK(Idle, rs) /\ ClaimHolds(w, Idle, rs, h, kl) /\ SettlerHolds(Idle, rs)
    BY <2>4, RestingOK
  <2>7. /\ keyLock' \in [Keys -> Workers \cup {None}]
        /\ \A j \in Keys : keyLock'[j] = keyLock[j] \/ keyLock[j] \in {w, None}
    BY <2>1, LeaveTyped
  <2> QED BY <2>1, <2>2, <2>3, <2>4, <2>5, <2>6, <2>7, EndsKept
<1>2. CASE ~Owned(w)
  BY <1>2, LeavesKept DEF RecordFailure, IndustryInv, TypeOK
<1> QED BY <1>1, <1>2

\* An operation succeeds when its receipt names the Head.
LEMMA SuccessKept ==
    ASSUME IndustryInv, NEW k \in Keys, op' = [op EXCEPT ![k].st = "succeeded"],
           UNCHANGED <<head, heads, rec, faults>>, rec[k].pub = head
    PROVE  op' \in [Keys -> Operations] /\ OneRunning' /\ ReceiptHonest'
<1> DEFINE o == [op[k] EXCEPT !.st = "succeeded"]
<1>1. /\ op \in [Keys -> Operations] /\ op[k] \in Operations
      /\ head \in heads /\ head \in Generations /\ head # None
  BY DEF IndustryInv, TypeOK
<1>2. o \in Operations /\ o.st = "succeeded"
  BY <1>1 DEF Operations
<1>3. op' = [op EXCEPT ![k] = o]
  OBVIOUS
<1> HIDE DEF o
<1>4. /\ op' \in [Keys -> Operations] /\ op'[k].st = "succeeded"
      /\ \A j \in Keys : j # k => op'[j] = op[j]
  BY <1>1, <1>2, <1>3
<1>5. OneRunning'
  BY <1>4 DEF IndustryInv, OneRunning
<1>6. rec[k].st = "succeeded"
  BY <1>1 DEF IndustryInv, RecsInv, RecOK
<1>7. faults["lost"] = 0 => rec[k].pub.ind = rec[k].cand
  BY <1>1 DEF IndustryInv, LocksInv, HeadFits, PubFits
<1>8. ReceiptHonest'
  BY <1>1, <1>4, <1>6, <1>7 DEF IndustryInv, ReceiptHonest
<1> QED BY <1>4, <1>5, <1>8

\* A reconciliation reports success.
LEMMA ReconcileApplyKept ==
    ASSUME IndustryInv, NEW w \in Workers, ReconcileApply(w)
    PROVE  IndustryInv'
<1> DEFINE e == [Idle EXCEPT !.pc = "reconciled"]
           d == worker[w]
<1>1. d \in Processes /\ WorkOK(d, rec) /\ d.pc = "received"
  BY Knows DEF ReconcileApply, At
<1>2. d.key \in Keys /\ rec[d.key].pub = d.gen
  BY <1>1 DEF WorkOK, Keyless
<1>3. /\ worker' = [worker EXCEPT ![w] = e]
      /\ UNCHANGED <<head, heads, rec, lifecycle, keyLock, faults>>
      /\ keyLock' \in [Keys -> Workers \cup {None}] /\ lifecycle' \in Workers \cup {None}
      /\ live \subseteq Keys \X Nat \X Nat /\ op \in [Keys -> Operations]
  BY DEF ReconcileApply, data, locks, IndustryInv, TypeOK
<1>4. e \in Processes /\ e.att = 0 /\ e.pc = "reconciled"
  BY DEF Idle, Processes, Places, Reconciliation
<1> HIDE DEF e
<1>5. \A rs, h, kl : WorkOK(e, rs) /\ ClaimHolds(w, e, rs, h, kl) /\ SettlerHolds(e, rs)
  BY <1>4, RestingOK
<1>6. CASE op' = [op EXCEPT ![d.key].st = "succeeded"] /\ d.gen = head /\ live' \subseteq live
  <2>1. op' \in [Keys -> Operations] /\ OneRunning' /\ ReceiptHonest'
    BY <1>2, <1>3, <1>6, SuccessKept
  <2>2. live' \subseteq Keys \X Nat \X Nat
    BY <1>3, <1>6
  <2>3. /\ UNCHANGED <<head, heads, rec, faults>>
        /\ \A k \in Keys : keyLock'[k] = keyLock[k] \/ keyLock[k] \in {w, None}
        /\ WorkOK(e, rec) /\ ClaimHolds(w, e, rec, head, keyLock') /\ SettlerHolds(e, rec)
    BY <1>3, <1>5
  <2> HIDE DEF d
  <2> QED BY <1>3, <1>4, <2>1, <2>2, <2>3, AdvancesKept
<1>7. CASE UNCHANGED <<op, live>>
  BY <1>3, <1>4, <1>5, <1>7, GoesKept
<1>8. \/ op' = [op EXCEPT ![d.key].st = "succeeded"] /\ d.gen = head /\ live' \subseteq live
      \/ UNCHANGED <<op, live>>
  BY DEF ReconcileApply, Key, Release
<1> QED BY <1>6, <1>7, <1>8

\* A Worker reports success.
LEMMA CompleteIndustryKept ==
    ASSUME IndustryInv, NEW w \in Workers, CompleteIndustry(w)
    PROVE  IndustryInv'
<1> DEFINE d == worker[w]
<1>1. d \in Processes /\ WorkOK(d, rec) /\ d.pc = "complete"
  BY Knows DEF CompleteIndustry, At
<1>2. d.key \in Keys /\ rec[d.key].pub = d.gen
  BY <1>1 DEF WorkOK, Keyless
<1>3. /\ op' = [op EXCEPT ![d.key].st = "succeeded"] /\ d.gen = head /\ Leave(w)
      /\ UNCHANGED <<head, heads, rec, live, lifecycle, faults>>
      /\ lifecycle' \in Workers \cup {None} /\ live' \subseteq Keys \X Nat \X Nat
  BY DEF CompleteIndustry, Completes, Key, data, IndustryInv, TypeOK
<1>4. op' \in [Keys -> Operations] /\ OneRunning' /\ ReceiptHonest'
  BY <1>2, <1>3, SuccessKept
<1>5. Idle \in Processes /\ Idle.att = 0 /\ Idle.pc = "idle"
  BY DEF Idle, Processes, Places
<1>6. \A rs, h, kl : WorkOK(Idle, rs) /\ ClaimHolds(w, Idle, rs, h, kl) /\ SettlerHolds(Idle, rs)
  BY <1>5, RestingOK
<1>7. /\ worker' = [worker EXCEPT ![w] = Idle] /\ keyLock' \in [Keys -> Workers \cup {None}]
      /\ \A k \in Keys : keyLock'[k] = keyLock[k] \/ keyLock[k] \in {w, None}
  BY <1>3, LeaveTyped DEF Leave
<1>8. /\ UNCHANGED <<head, heads, rec, faults>>
      /\ WorkOK(Idle, rec) /\ ClaimHolds(w, Idle, rec, head, keyLock') /\ SettlerHolds(Idle, rec)
  BY <1>3, <1>6
<1> HIDE DEF d
<1> QED BY <1>3, <1>4, <1>5, <1>7, <1>8, AdvancesKept

\* A Worker claims the oldest operation, or finds none.
LEMMA ClaimKept ==
    ASSUME IndustryInv, NEW w \in Workers, Claim(w)
    PROVE  IndustryInv'
<1>1. CASE Leave(w) /\ UNCHANGED op
  BY <1>1, LeavesKept DEF Claim, IndustryInv, TypeOK
<1>2. CASE \E k \in Claimable :
             /\ op' = [op EXCEPT ![k].st = "running", ![k].live = TRUE, ![k].att = @ + 1]
             /\ worker' = [worker EXCEPT ![w] =
                   [Idle EXCEPT !.pc = "claimed", !.key = k, !.att = op[k].att + 1]]
             /\ UNCHANGED keyLock
  <2>1. PICK k \in Claimable :
             /\ op' = [op EXCEPT ![k].st = "running", ![k].live = TRUE, ![k].att = @ + 1]
             /\ worker' = [worker EXCEPT ![w] =
                   [Idle EXCEPT !.pc = "claimed", !.key = k, !.att = op[k].att + 1]]
             /\ UNCHANGED keyLock
    BY <1>2
  <2> DEFINE n == op[k].att + 1
             e == [Idle EXCEPT !.pc = "claimed", !.key = k, !.att = n]
             o == [op[k] EXCEPT !.st = "running", !.live = TRUE, !.att = n]
  <2>2. k \in Keys /\ \A j \in Keys : op[j].st # "running"
    BY DEF Claimable
  <2>3. op \in [Keys -> Operations] /\ op[k] \in Operations /\ n \in Nat /\ n # 0
    BY <2>2 DEF IndustryInv, TypeOK, Operations
  <2>4. op' = [op EXCEPT ![k] = o] /\ worker' = [worker EXCEPT ![w] = e]
    BY <2>1, <2>2, <2>3 DEF Operations
  <2> HIDE DEF n
  <2>5. o \in Operations /\ o.st = "running"
    BY <2>3 DEF Operations
  <2>6. "claimed" \in Places /\ "claimed" \notin Unclaimed \cup AnyClaim /\ "claimed" \notin Started
        /\ "claimed" \notin Composing /\ "claimed" \notin Publishing /\ "claimed" \notin Locked
        /\ "claimed" \notin LockedPublishing
    BY DEF Places, Working, Collecting, Unclaimed, AnyClaim, Started, Composing, Publishing,
           Locked, LockedPublishing
  <2>7. e \in Processes /\ e.pc = "claimed" /\ e.key = k /\ e.att = n
    BY <2>2, <2>3, <2>6 DEF Idle, Processes
  <2> HIDE DEF o, e
  <2>8. /\ op' \in [Keys -> Operations] /\ op'[k] = o
        /\ \A j \in Keys : j # k => op'[j] = op[j]
    BY <2>2, <2>3, <2>4, <2>5
  <2>9. OneRunning'
    BY <2>2, <2>8 DEF OneRunning
  <2>10. UNCHANGED <<head, heads, rec, live, lifecycle, faults>>
    BY DEF Claim, data
  <2>11. ReceiptHonest'
    BY <2>5, <2>8, <2>10 DEF IndustryInv, ReceiptHonest
  <2>12. \A rs, h, kl : WorkOK(e, rs) /\ ClaimHolds(w, e, rs, h, kl) /\ SettlerHolds(e, rs)
    BY <2>2, <2>3, <2>6, <2>7 DEF WorkOK, ClaimHolds, SettlerHolds
  <2>13. /\ live' \subseteq Keys \X Nat \X Nat /\ lifecycle' \in Workers \cup {None}
         /\ keyLock' \in [Keys -> Workers \cup {None}] /\ keyLock' = keyLock
    BY <2>1, <2>10 DEF IndustryInv, TypeOK
  <2> QED BY <2>4, <2>7, <2>8, <2>9, <2>10, <2>11, <2>12, <2>13, AdvancesKept
<1> QED BY <1>1, <1>2 DEF Claim

-----------------------------------------------------------------------------
(* Steps that move the Head *)

\* The Head file is replaced.
LEMMA SwitchHeadKept ==
    ASSUME IndustryInv, NEW w \in Workers, SwitchHead(w)
    PROVE  IndustryInv'
<1> DEFINE d == worker[w]
           e == [d EXCEPT !.pc = "switched"]
<1>1. /\ d \in Processes /\ WorkOK(d, rec) /\ d.pc = "protected"
      /\ faults["lost"] = 0 => ClaimHolds(w, d, rec, head, keyLock)
  BY Knows DEF SwitchHead, At
<1>2. /\ d.pc \in Composing /\ d.pc \in Publishing /\ d.pc \in Started /\ d.pc \in Locked
      /\ d.pc \in LockedPublishing /\ d.pc \notin Keyless
      /\ d.pc \notin Unclaimed \cup AnyClaim
  BY <1>1 DEF Composing, Publishing, Started, Locked, LockedPublishing, Keyless, Unclaimed,
              AnyClaim
<1>3. /\ "switched" \in Composing /\ "switched" \in Publishing /\ "switched" \in Started
      /\ "switched" \in Locked /\ "switched" \in LockedPublishing /\ "switched" \notin Keyless
      /\ "switched" \notin Unclaimed /\ "switched" \notin AnyClaim /\ "switched" \in Places
  BY DEF Composing, Publishing, Started, Locked, LockedPublishing, Keyless, Unclaimed,
         AnyClaim, Places, Working
<1>4. /\ d.att # 0 /\ d.key \in Keys /\ d.cur # None /\ d.cand # None
      /\ d.comp = [n |-> d.cur.n + 1, by |-> <<d.key, d.att, d.i>>, ind |-> d.cand,
                   coord |-> d.key]
      /\ faults["lost"] = 0 =>
            /\ keyLock[d.key] = w /\ rec[d.key].st = "succeeded" /\ rec[d.key].cand = d.cand
            /\ rec[d.key].comp = d.comp /\ d.cand # rec[d.key].prior
  BY <1>1, <1>2 DEF WorkOK, ClaimHolds
<1>5. d.comp \in Generations /\ d.comp.coord = d.key /\ d.comp.ind = d.cand
  BY <1>1, <1>4 DEF Processes, Generations
<1>6. /\ head' = d.comp /\ heads' = heads \cup {head'} /\ lifecycle' = w
      /\ UNCHANGED <<op, rec, live, keyLock, faults>>
  BY DEF SwitchHead
<1>7. worker' = [worker EXCEPT ![w] = e]
  BY <1>1 DEF SwitchHead, To, Processes
<1> HIDE DEF d
<1>8. /\ e \in Processes /\ e.pc = "switched" /\ e.key = d.key /\ e.att = d.att /\ e.i = d.i
      /\ e.cur = d.cur /\ e.comp = d.comp /\ e.cand = d.cand /\ e.gen = d.gen
  BY <1>1, <1>3 DEF Processes
<1> HIDE DEF e
<1>9. /\ worker' \in [Workers -> Processes] /\ worker'[w] = e
      /\ \A v \in Workers : v # w => worker'[v] = worker[v]
  BY <1>7, <1>8 DEF IndustryInv, TypeOK
<1>10. TypeOK'
  BY <1>5, <1>6, <1>9 DEF IndustryInv, TypeOK
<1>11. WorkOK(e, rec)
  BY <1>1, <1>2, <1>3, <1>4, <1>8 DEF WorkOK
<1>12. \A k \in Keys : RecStep(rec[k], rec'[k]) /\ Soft(rec[k], rec'[k])
  BY <1>6 DEF RecStep, Soft
<1>13. StepOf(w)
  BY <1>6, <1>9, <1>11, <1>12 DEF StepOf, IndustryInv, RecsInv
<1>14. Quiet
  BY <1>6 DEF Quiet
<1>15. faults'["lost"] = 0 => LockStep(w) /\ OwnHolds(w)
  <2> SUFFICES ASSUME faults'["lost"] = 0 PROVE LockStep(w) /\ OwnHolds(w)
    OBVIOUS
  <2>1. faults["lost"] = 0
    BY <1>6
  <2>2. LockStep(w)
    BY <1>4, <1>5, <1>6, <1>12, <2>1 DEF LockStep
  <2>3. ClaimHolds(w, e, rec, head', keyLock) /\ SettlerHolds(e, rec)
    BY <1>3, <1>4, <1>8, <2>1 DEF ClaimHolds, SettlerHolds
  <2>4. \A k \in Keys : HeadFits(k, rec[k], head')
    BY <1>4, <1>5, <1>6, <2>1 DEF HeadFits
  <2>5. \A k \in Keys : PubFits(k, rec[k])
    BY <2>1 DEF IndustryInv, LocksInv
  <2> QED BY <1>6, <1>9, <2>2, <2>3, <2>4, <2>5 DEF OwnHolds
<1> QED BY <1>10, <1>13, <1>14, <1>15, WorksKept, QueueKept, LocksKept DEF IndustryInv

\* A fault is counted.
LEMMA FaultTyped ==
    ASSUME IndustryInv, NEW f \in FaultKinds, Fault(f)
    PROVE  /\ faults' \in [FaultKinds -> Nat]
           /\ faults'["lost"] = 0 => faults["lost"] = 0 /\ f # "lost"
<1>1. faults \in [FaultKinds -> Nat] /\ faults' = [faults EXCEPT ![f] = @ + 1]
  BY DEF IndustryInv, TypeOK, Fault
<1>2. faults[f] \in Nat /\ faults["lost"] \in Nat /\ "lost" \in FaultKinds
  BY <1>1 DEF FaultKinds
<1> QED BY <1>1, <1>2

\* The Head moves from outside.
LEMMA HeadMovedKept ==
    ASSUME IndustryInv, NEW f \in {"other", "replaced"}, Fault(f), NEW c \in Contents,
           NEW q \in Keys \cup {None}, HeadMoved(c, q),
           (c = head.ind /\ q = head.coord) \/ q = None
    PROVE  IndustryInv'
<1> DEFINE g == [n |-> head.n + 1, by |-> None, ind |-> c, coord |-> q]
<1>1. /\ head' = g /\ heads' = heads \cup {head'}
      /\ UNCHANGED <<op, rec, live, keyLock, lifecycle, worker>>
  BY DEF HeadMoved, locks
<1>2. head \in Generations /\ faults' \in [FaultKinds -> Nat]
      /\ (faults'["lost"] = 0 => faults["lost"] = 0)
  BY FaultTyped DEF IndustryInv, TypeOK, FaultKinds
<1>3. g \in Generations /\ g.ind = c /\ g.coord = q
  BY <1>2 DEF Generations
<1> HIDE DEF g
<1>4. TypeOK'
  BY <1>1, <1>2, <1>3 DEF IndustryInv, TypeOK
<1>5. OneRunning'
  BY <1>1 DEF IndustryInv, OneRunning
<1>6. ReceiptHonest'
  BY <1>1, <1>2 DEF IndustryInv, ReceiptHonest
<1> QED BY <1>1, <1>2, <1>3, <1>4, <1>5, <1>6, EnvironmentKept

\* A publication of another family, or a dataset Refresh.
LEMMA HeadMovesKept ==
    ASSUME IndustryInv, OutsideMove \/ DatasetMove
    PROVE  IndustryInv'
<1>1. head \in Generations
  BY DEF IndustryInv, TypeOK
<1>2. CASE OutsideMove
  <2>1. head.ind \in Contents /\ head.coord \in Keys \cup {None}
    BY <1>1 DEF Generations
  <2> QED BY <1>2, <2>1, HeadMovedKept DEF OutsideMove
<1>3. CASE DatasetMove
  BY <1>3, HeadMovedKept DEF DatasetMove
<1> QED BY <1>2, <1>3

-----------------------------------------------------------------------------
(* The queue's other writers, and the environment *)

\* The row of k takes a state that is neither running nor succeeded, or keeps
\* its own.
LEMMA RowKept ==
    ASSUME IndustryInv, NEW k \in Keys, NEW o \in Operations, op' = [op EXCEPT ![k] = o],
           o.st \in {"accepted", "cancelled", op[k].st},
           UNCHANGED <<head, heads, rec, live, keyLock, lifecycle, worker>>,
           faults' \in [FaultKinds -> Nat], faults'["lost"] = 0 => faults["lost"] = 0
    PROVE  IndustryInv'
<1>1. /\ op \in [Keys -> Operations] /\ op' \in [Keys -> Operations] /\ op'[k] = o
      /\ \A j \in Keys : j # k => op'[j] = op[j]
  BY DEF IndustryInv, TypeOK
<1>2. TypeOK'
  BY <1>1 DEF IndustryInv, TypeOK
<1>3. \A j \in Keys : /\ op'[j].st = "running" => op[j].st = "running"
                      /\ op'[j].st = "succeeded" => op[j].st = "succeeded"
  BY <1>1
<1>4. OneRunning'
  BY <1>3 DEF IndustryInv, OneRunning
<1>5. ReceiptHonest'
  BY <1>3 DEF IndustryInv, ReceiptHonest
<1> QED BY <1>2, <1>4, <1>5, EnvironmentKept

\* An operation is submitted.
LEMMA SubmitKept ==
    ASSUME IndustryInv, NEW k \in Keys, Submit(k)
    PROVE  IndustryInv'
<1>1. PICK n \in 1..Cardinality(Keys) : op' = [op EXCEPT ![k].st = "accepted", ![k].ord = n]
  BY DEF Submit
<1> DEFINE o == [op[k] EXCEPT !.st = "accepted", !.ord = n]
<1>2. op[k] \in Operations /\ faults \in [FaultKinds -> Nat]
  BY DEF IndustryInv, TypeOK
<1>3. n \in Nat
  OBVIOUS
<1>4. o \in Operations /\ o.st = "accepted"
  BY <1>2, <1>3 DEF Operations
<1>5. op' = [op EXCEPT ![k] = o]
  BY <1>1, <1>2 DEF IndustryInv, TypeOK, Operations
<1>6. UNCHANGED <<head, heads, rec, live, keyLock, lifecycle, worker, faults>>
  BY DEF Submit, data, locks
<1> HIDE DEF o
<1> QED BY <1>2, <1>4, <1>5, <1>6, RowKept

\* An accepted operation is cancelled.
LEMMA CancelKept ==
    ASSUME IndustryInv, NEW k \in Keys, Cancel(k)
    PROVE  IndustryInv'
<1> DEFINE o == [op[k] EXCEPT !.st = "cancelled"]
<1>1. op[k] \in Operations /\ faults \in [FaultKinds -> Nat]
  BY DEF IndustryInv, TypeOK
<1>2. o \in Operations /\ o.st = "cancelled"
  BY <1>1 DEF Operations
<1>3. op' = [op EXCEPT ![k] = o]
  BY DEF Cancel
<1>4. UNCHANGED <<head, heads, rec, live, keyLock, lifecycle, worker, faults>>
  BY DEF Cancel, data, locks
<1> HIDE DEF o
<1> QED BY <1>1, <1>2, <1>3, <1>4, RowKept

\* A lease lapses.
LEMMA LeaseLapsesKept ==
    ASSUME IndustryInv, NEW k \in Keys, LeaseLapses(k)
    PROVE  IndustryInv'
<1> DEFINE o == [op[k] EXCEPT !.live = FALSE]
<1>1. op[k] \in Operations /\ faults \in [FaultKinds -> Nat]
  BY DEF IndustryInv, TypeOK
<1>2. o \in Operations /\ o.st = op[k].st
  BY <1>1 DEF Operations
<1>3. op' = [op EXCEPT ![k] = o]
  BY DEF LeaseLapses
<1>4. UNCHANGED <<head, heads, rec, live, keyLock, lifecycle, worker>>
  BY DEF LeaseLapses, data, locks
<1>5. Fault("pauses") \/ UNCHANGED faults
  BY DEF LeaseLapses
<1>6. faults' \in [FaultKinds -> Nat] /\ (faults'["lost"] = 0 => faults["lost"] = 0)
  BY <1>1, <1>5, FaultTyped DEF FaultKinds
<1> HIDE DEF o
<1> QED BY <1>1, <1>2, <1>3, <1>4, <1>6, RowKept

\* A lock session is dropped: from here on the locks exclude nobody.
LEMMA SessionLostKept ==
    ASSUME IndustryInv, NEW k \in Keys, SessionLost(k)
    PROVE  IndustryInv'
<1>1. faults' \in [FaultKinds -> Nat] /\ faults'["lost"] # 0
  BY FaultTyped DEF SessionLost, FaultKinds
<1>2. keyLock' \in [Keys -> Workers \cup {None}]
  BY DEF SessionLost, IndustryInv, TypeOK
<1>3. UNCHANGED <<head, heads, op, rec, live, lifecycle, worker>>
  BY DEF SessionLost, data
<1>4. TypeOK'
  BY <1>1, <1>2, <1>3 DEF IndustryInv, TypeOK
<1>5. OneRunning' /\ ReceiptHonest'
  BY <1>1, <1>3 DEF IndustryInv, OneRunning, ReceiptHonest
<1> QED BY <1>1, <1>3, <1>4, <1>5, EnvironmentKept

-----------------------------------------------------------------------------
(* The actions of a Worker *)

\* The actions before a claim.
LEMMA ReconciliationKept ==
    ASSUME IndustryInv, NEW w \in Workers,
           \/ ReadPointer(w) \/ ReadPending(w) \/ MatchReceipt(w) \/ WritePublication(w)
           \/ ReconcileApply(w) \/ RecoverExpired(w) \/ Claim(w)
    PROVE  IndustryInv'
<1>1. CASE ReadPointer(w)
  BY <1>1, ReadPointerKept
<1>2. CASE ReadPending(w)
  BY <1>2, FoundKept, NothingFoundKept DEF ReadPending
<1>3. CASE MatchReceipt(w)
  <2>1. CASE Reconciling(w) \/ Rec(w).cand = worker[w].cand
    BY <1>3, <2>1, MatchedKept DEF MatchReceipt
  <2>2. CASE ~(Reconciling(w) \/ Rec(w).cand = worker[w].cand)
    BY <1>3, <2>2, UnlikeKept DEF MatchReceipt
  <2> QED BY <2>1, <2>2
<1>4. CASE WritePublication(w)
  <2>1. /\ At(w, "matched") \/ At(w, "unlike")
        /\ Writable(w) /\ rec' = [rec EXCEPT ![Key(w)].pub = worker[w].gen]
        /\ UNCHANGED <<data, op, live, lifecycle, faults>>
    BY <1>4 DEF WritePublication, At
  <2>2. CASE At(w, "unlike")
    <3>1. ~Reconciling(w)
      BY <2>2, Knows DEF At, WorkOK, Reconciling, Unclaimed, AnyClaim
    <3>2. Raised(w, TRUE)
      BY <1>4, <2>2 DEF WritePublication
    <3> QED BY <2>1, <2>2, <3>1, <3>2, WritesUnlikeKept
  <2>3. CASE At(w, "matched") /\ Reconciling(w)
    <3>1. To(w, "received") /\ UNCHANGED keyLock
      BY <1>4, <2>3 DEF WritePublication, At
    <3> QED BY <2>1, <2>3, <3>1, SettlesReceiptKept
  <2>4. CASE At(w, "matched") /\ ~Reconciling(w)
    <3>1. To(w, "complete") /\ KeyReleased(w)
      BY <1>4, <2>4 DEF WritePublication, At
    <3> QED BY <2>1, <2>4, <3>1, WritesReceiptKept
  <2> QED BY <2>1, <2>2, <2>3, <2>4
<1>5. CASE ReconcileApply(w)
  BY <1>5, ReconcileApplyKept
<1>6. CASE RecoverExpired(w)
  BY <1>6, RecoverExpiredKept
<1>7. CASE Claim(w)
  BY <1>7, ClaimKept
<1> QED BY <1>1, <1>2, <1>3, <1>4, <1>5, <1>6, <1>7

\* The actions that build the candidate.
LEMMA CandidateKept ==
    ASSUME IndustryInv, NEW w \in Workers,
           \/ ReadTarget(w) \/ AcquireKey(w) \/ Existing(w) \/ Initialize(w) \/ BeginBuild(w)
           \/ Collect(w) \/ CollectFails(w) \/ Materialized(w)
    PROVE  IndustryInv'
<1>1. CASE ReadTarget(w)
  BY <1>1, ReadTargetKept
<1>2. CASE AcquireKey(w)
  BY <1>2, AcquireKeyKept
<1>3. CASE Existing(w)
  <2>1. At(w, "enter") /\ UNCHANGED <<data, op, rec, live, lifecycle, faults>>
    BY <1>3 DEF Existing
  <2>2. CASE /\ worker' = [worker EXCEPT ![w].pc = "insert", ![w].cur = head]
             /\ UNCHANGED keyLock
    BY <2>1, <2>2, InsertsKept DEF locks
  <2>3. CASE /\ Rec(w).st = "succeeded" /\ Rec(w).pub # None
             /\ worker' = [worker EXCEPT ![w].pc = "complete", ![w].cand = Rec(w).cand,
                                         ![w].gen = Rec(w).pub]
             /\ KeyReleased(w)
    BY <2>1, <2>3, CompletedKept
  <2>4. CASE /\ Rec(w).st = "succeeded"
             /\ worker' = [worker EXCEPT ![w].pc = "publish", ![w].cand = Rec(w).cand]
             /\ UNCHANGED keyLock
    BY <2>1, <2>4, ResumesKept DEF locks
  <2> QED BY <1>3, <2>2, <2>3, <2>4 DEF Existing
<1>4. CASE Initialize(w)
  BY <1>4, InitializeKept
<1>5. CASE BeginBuild(w)
  BY <1>5, CollectingKept, TakesCandidateKept DEF BeginBuild
<1>6. CASE Collect(w)
  BY <1>6, CollectedKept DEF Collect
<1>7. CASE CollectFails(w)
  BY <1>7, CollectFailedKept DEF CollectFails
<1>8. CASE Materialized(w)
  BY <1>8, MaterializedKept
<1> QED BY <1>1, <1>2, <1>3, <1>4, <1>5, <1>6, <1>7, <1>8

\* The actions that publish it.
LEMMA PublicationKept ==
    ASSUME IndustryInv, NEW w \in Workers,
           \/ ReadReceipt(w) \/ LookAtHead(w) \/ RecordHeadMoved(w) \/ Unchanged(w) \/ Try(w)
           \/ TargetChanged(w) \/ RecordCandidate(w) \/ Protect(w) \/ SwitchHead(w)
           \/ CommitSwitch(w) \/ HeadConflict(w) \/ ReleaseCandidate(w) \/ CompleteIndustry(w)
    PROVE  IndustryInv'
<1>1. CASE ReadReceipt(w)
  BY <1>1, AlreadyPublishedKept, LooksKept DEF ReadReceipt, locks
<1>2. CASE LookAtHead(w)
  <2>1. At(w, "look") /\ UNCHANGED <<data, op, rec, live, locks, faults>>
    BY <1>2 DEF LookAtHead
  <2>2. CASE Matches(Key(w), worker[w].cand, head) /\ Changed(w)
    BY <1>2, <2>1, <2>2, SeesItselfKept DEF LookAtHead
  <2>3. CASE Matches(Key(w), worker[w].cand, head) /\ ~Changed(w)
    BY <1>2, <2>1, <2>3, SeesItsContentKept DEF LookAtHead
  <2>4. CASE ~Matches(Key(w), worker[w].cand, head) /\ Changed(w)
    BY <1>2, <2>1, <2>4, TriesKept DEF LookAtHead
  <2>5. CASE ~Matches(Key(w), worker[w].cand, head) /\ ~Changed(w)
    BY <1>2, <2>1, <2>5, ConfirmsNoChangeKept DEF LookAtHead
  <2> QED BY <2>2, <2>3, <2>4, <2>5
<1>3. CASE RecordHeadMoved(w)
  BY <1>3, RecordHeadMovedKept
<1>4. CASE Unchanged(w)
  BY <1>4, StillUnchangedKept, UnchangedMismatchKept DEF Unchanged
<1>5. CASE Try(w)
  BY <1>5, FindsItselfKept, TryMismatchKept, ComposesKept DEF Try
<1>6. CASE TargetChanged(w)
  BY <1>6, TargetChangedKept
<1>7. CASE RecordCandidate(w)
  BY <1>7, RecordCandidateKept
<1>8. CASE Protect(w)
  BY <1>8, ProtectKept
<1>9. CASE SwitchHead(w)
  BY <1>9, SwitchHeadKept
<1>10. CASE CommitSwitch(w)
  BY <1>10, CommitSwitchKept
<1>11. CASE HeadConflict(w)
  BY <1>11, HeadConflictKept
<1>12. CASE ReleaseCandidate(w)
  <2>1. CASE worker[w].i < HeadTries
    BY <1>12, <2>1, TriesAgainKept DEF ReleaseCandidate, locks
  <2>2. CASE ~(worker[w].i < HeadTries)
    <3>1. /\ Raised(w, TRUE) /\ UNCHANGED <<head, heads, op, rec, lifecycle, faults>>
          /\ live' \subseteq live
      BY <1>12, <2>2 DEF ReleaseCandidate, data
    <3>2. worker[w].att # 0 /\ worker[w].key \in Keys
      BY <1>12, Knows DEF ReleaseCandidate, At, WorkOK, Unclaimed, AnyClaim, Keyless
    <3>3. live' \subseteq Keys \X Nat \X Nat /\ lifecycle' \in Workers \cup {None}
      BY <3>1 DEF IndustryInv, TypeOK
    <3> QED BY <3>1, <3>2, <3>3, RaisesKept
  <2> QED BY <2>1, <2>2
<1>13. CASE CompleteIndustry(w)
  BY <1>13, CompleteIndustryKept
<1> QED BY <1>1, <1>2, <1>3, <1>4, <1>5, <1>6, <1>7, <1>8, <1>9, <1>10, <1>11, <1>12, <1>13

\* The actions that fail.
LEMMA FailureKept ==
    ASSUME IndustryInv, NEW w \in Workers,
           \/ Fails(w) \/ ReconciliationFails(w) \/ AskPostCas(w) \/ RecordFailure(w)
           \/ GivesUp(w) \/ Fenced(w) \/ Dies(w)
    PROVE  IndustryInv'
<1>1. lifecycle \in Workers \cup {None} /\ faults \in [FaultKinds -> Nat]
      /\ live \subseteq Keys \X Nat \X Nat
  BY DEF IndustryInv, TypeOK
<1>2. CASE Fails(w)
  <2>1. PICK retry \in BOOLEAN : Raised(w, retry)
    BY <1>2 DEF Fails
  <2>2. worker[w].att # 0 /\ worker[w].key \in Keys
    BY <1>2, Knows DEF Fails, Reconciling, WorkOK, Unclaimed, AnyClaim, Keyless, Working,
                       Collecting, Publishing
  <2>3. /\ UNCHANGED <<head, heads, op, rec, faults>> /\ live' \subseteq Keys \X Nat \X Nat
        /\ lifecycle' \in Workers \cup {None}
    BY <1>1, <1>2 DEF Fails, data
  <2> QED BY <2>1, <2>2, <2>3, RaisesKept
<1>3. CASE ReconciliationFails(w)
  BY <1>1, <1>3, LeavesKept DEF ReconciliationFails
<1>4. CASE AskPostCas(w)
  <2>1. CASE PostCas(w)
    BY <1>1, <1>4, <2>1, LeavesKept DEF AskPostCas
  <2>2. CASE ~PostCas(w)
    BY <1>4, <2>2, FailingKept DEF AskPostCas, locks
  <2> QED BY <2>1, <2>2
<1>5. CASE RecordFailure(w)
  BY <1>5, RecordFailureKept
<1>6. CASE GivesUp(w)
  BY <1>1, <1>6, LeavesKept DEF GivesUp
<1>7. CASE Fenced(w)
  BY <1>1, <1>7, LeavesKept DEF Fenced
<1>8. CASE Dies(w)
  <2>1. faults' \in [FaultKinds -> Nat] /\ (faults'["lost"] = 0 => faults["lost"] = 0)
    BY <1>8, FaultTyped DEF Dies, FaultKinds
  <2>2. lifecycle' \in Workers \cup {None} /\ Leave(w) /\ UNCHANGED <<data, op, rec, live>>
    BY <1>1, <1>8 DEF Dies
  <2> QED BY <2>1, <2>2, LeavesKept
<1> QED BY <1>2, <1>3, <1>4, <1>5, <1>6, <1>7, <1>8

-----------------------------------------------------------------------------
(* The theorems *)

\* The invariant holds at first.
LEMMA InitHolds == Init => IndustryInv
<1> SUFFICES ASSUME Init PROVE IndustryInv
  OBVIOUS
<1>1. PICK c \in Contents : head = [n |-> 0, by |-> None, ind |-> c, coord |-> None]
  BY DEF Init
<1>2. head \in Generations /\ head.coord = None
  BY <1>1 DEF Generations
<1>3. Idle \in Processes /\ NoOp \in Operations /\ NoRec \in Receipts
  BY DEF Idle, Processes, Places, NoOp, Operations, NoRec, Receipts
<1>4. TypeOK
  BY <1>2, <1>3 DEF Init, TypeOK
<1>5. OneRunning /\ ReceiptHonest
  BY DEF Init, OneRunning, ReceiptHonest, NoOp
<1>6. WorksInv
  BY IdleOK DEF Init, WorksInv
<1>7. RecsInv
  BY DEF Init, RecsInv, RecOK, NoRec
<1>8. LocksInv
  <2>1. \A w \in Workers : ClaimHolds(w, worker[w], rec, head, keyLock)
    BY IdleOK DEF Init
  <2>2. \A w \in Workers : SettlerHolds(worker[w], rec)
    BY IdleOK DEF Init
  <2>3. \A k \in Keys : HeadFits(k, rec[k], head) /\ PubFits(k, rec[k])
    BY <1>2, NoneAssumption DEF Init, HeadFits, PubFits, NoRec
  <2> QED BY <2>1, <2>2, <2>3 DEF LocksInv
<1> QED BY <1>4, <1>5, <1>6, <1>7, <1>8 DEF IndustryInv

\* Every step keeps it.
LEMMA StepHolds == IndustryInv /\ [Next]_vars => IndustryInv'
<1> SUFFICES ASSUME IndustryInv, [Next]_vars PROVE IndustryInv'
  OBVIOUS
<1>1. CASE UNCHANGED vars
  BY <1>1 DEF vars, IndustryInv, TypeOK, OneRunning, WorksInv, RecsInv, LocksInv, ReceiptHonest
<1>2. ASSUME NEW k \in Keys, Submit(k) \/ Cancel(k) \/ LeaseLapses(k) \/ SessionLost(k)
      PROVE  IndustryInv'
  BY <1>2, SubmitKept, CancelKept, LeaseLapsesKept, SessionLostKept
<1>3. ASSUME NEW w \in Workers, Work(w) \/ Dies(w) PROVE IndustryInv'
  BY <1>3, ReconciliationKept, CandidateKept, PublicationKept, FailureKept DEF Work
<1>4. CASE OutsideMove \/ DatasetMove
  BY <1>4, HeadMovesKept
<1> QED BY <1>1, <1>2, <1>3, <1>4 DEF Next

\* The inductive invariant: what a Worker, a receipt and the holder of a
\* key's lock know is still true when they act on it.
THEOREM IndustryInvariant == Spec => []IndustryInv
BY InitHolds, StepHolds, PTL DEF Spec

\* Every variable keeps its type.
THEOREM IndustryTypes == Spec => []TypeOK
<1>1. IndustryInv => TypeOK
  BY DEF IndustryInv
<1> QED BY <1>1, IndustryInvariant, PTL

\* Two operations are never executed at once.
THEOREM OneRunsAtATime == Spec => []OneRunning
<1>1. IndustryInv => OneRunning
  BY DEF IndustryInv
<1> QED BY <1>1, IndustryInvariant, PTL

\* The receipt of an operation reported succeeded names a Generation that was
\* the Head and, while no lock session was lost, carries its content.
THEOREM ReceiptsAreHonest == Spec => []ReceiptHonest
<1>1. IndustryInv => ReceiptHonest
  BY DEF IndustryInv
<1> QED BY <1>1, IndustryInvariant, PTL

-----------------------------------------------------------------------------
(* What a step may do *)

\* The Head moves by a switch, or from outside.
LEMMA HeadMovers ==
    ASSUME IndustryInv, [Next]_vars, head' # head
    PROVE  OutsideMove \/ DatasetMove \/ \E w \in Workers : SwitchHead(w)
<1>1. ASSUME NEW k \in Keys, Submit(k) \/ Cancel(k) \/ LeaseLapses(k) \/ SessionLost(k)
      PROVE  FALSE
  BY <1>1 DEF Submit, Cancel, LeaseLapses, SessionLost, data
<1>2. ASSUME NEW w \in Workers,
             \/ ReadPointer(w) \/ ReadPending(w) \/ MatchReceipt(w) \/ WritePublication(w)
             \/ ReconcileApply(w) \/ RecoverExpired(w) \/ Claim(w) \/ ReadTarget(w)
             \/ AcquireKey(w) \/ Existing(w) \/ Initialize(w) \/ BeginBuild(w) \/ Collect(w)
             \/ CollectFails(w) \/ Materialized(w)
      PROVE  FALSE
  BY <1>2 DEF ReadPointer, ReadPending, MatchReceipt, WritePublication, ReconcileApply,
              RecoverExpired, Claim, ReadTarget, AcquireKey, Existing, Initialize, BeginBuild,
              Collect, CollectFails, Materialized, data
<1>3. ASSUME NEW w \in Workers,
             \/ ReadReceipt(w) \/ LookAtHead(w) \/ RecordHeadMoved(w) \/ Unchanged(w) \/ Try(w)
             \/ TargetChanged(w) \/ RecordCandidate(w) \/ Protect(w) \/ CommitSwitch(w)
             \/ HeadConflict(w) \/ ReleaseCandidate(w) \/ CompleteIndustry(w) \/ Fails(w)
             \/ ReconciliationFails(w) \/ AskPostCas(w) \/ RecordFailure(w) \/ GivesUp(w)
             \/ Fenced(w) \/ Dies(w)
      PROVE  FALSE
  BY <1>3 DEF ReadReceipt, LookAtHead, RecordHeadMoved, Unchanged, Try, TargetChanged,
              RecordCandidate, Protect, CommitSwitch, HeadConflict, ReleaseCandidate,
              CompleteIndustry, Fails, ReconciliationFails, AskPostCas, RecordFailure,
              GivesUp, Fenced, Dies, data
<1>4. Next
  BY DEF vars
<1> QED BY <1>1, <1>2, <1>3, <1>4 DEF Next, Work

\* What a switch publishes.
LEMMA Switched ==
    ASSUME IndustryInv, NEW w \in Workers, SwitchHead(w)
    PROVE  LET k == Key(w) IN
           /\ k \in Keys /\ op[k].st = "running" /\ op[k].att = worker[w].att
           /\ head' = [n |-> head.n + 1, by |-> <<k, worker[w].att, worker[w].i>>,
                       ind |-> worker[w].cand, coord |-> k]
           /\ rec[k].prior = head.ind
           /\ faults["lost"] = 0 => rec[k].comp = head'
<1>1. /\ worker[w].pc = "protected" /\ WorkOK(worker[w], rec)
      /\ faults["lost"] = 0 => ClaimHolds(w, worker[w], rec, head, keyLock)
  BY Knows DEF SwitchHead, At
<1>2. "protected" \in Composing /\ "protected" \notin Keyless
      /\ "protected" \notin Unclaimed \cup AnyClaim
  BY DEF Composing, Keyless, Unclaimed, AnyClaim
<1>3. head' = worker[w].comp /\ head = worker[w].cur /\ Owned(w)
  BY DEF SwitchHead, PublicationGuard, Compare
<1> QED BY <1>1, <1>2, <1>3 DEF WorkOK, ClaimHolds, Owned, Key

\* The Head is switched to an operation's Generation only for the attempt that
\* is running.
THEOREM OnlyRunningAttemptsPublish == Spec => PublishedByItsAttempt
<1>1. IndustryInv /\ [Next]_vars => PublishStep
  <2> SUFFICES ASSUME IndustryInv, [Next]_vars, head' # head, head'.by # None
               PROVE  op[head'.by[1]].st = "running" /\ op[head'.by[1]].att = head'.by[2]
    BY DEF PublishStep
  <2>1. ~OutsideMove /\ ~DatasetMove
    BY DEF OutsideMove, DatasetMove, HeadMoved
  <2>2. PICK w \in Workers : SwitchHead(w)
    BY <2>1, HeadMovers
  <2>3. /\ head'.by = <<Key(w), worker[w].att, worker[w].i>>
        /\ op[Key(w)].st = "running" /\ op[Key(w)].att = worker[w].att
    BY <2>2, Switched
  <2> QED BY <2>3
<1> QED BY <1>1, IndustryInvariant, PTL DEF Spec, PublishedByItsAttempt

\* A switch extends the Generation it replaces and replaces the industry data
\* its candidate was built against.
THEOREM SwitchesExtendTheHead == Spec => SwitchExtendsHead
<1>1. IndustryInv /\ [Next]_vars => SwitchStep
  <2> SUFFICES ASSUME IndustryInv, [Next]_vars, head' # head
               PROVE  /\ head'.n = head.n + 1
                      /\ head'.by # None =>
                            /\ rec[head'.by[1]].prior = head.ind
                            /\ faults["lost"] = 0 => rec[head'.by[1]].comp = head'
    BY DEF SwitchStep
  <2>1. CASE OutsideMove \/ DatasetMove
    BY <2>1 DEF OutsideMove, DatasetMove, HeadMoved
  <2>2. CASE \E w \in Workers : SwitchHead(w)
    <3>1. PICK w \in Workers : SwitchHead(w)
      BY <2>2
    <3>2. /\ head'.n = head.n + 1 /\ head'.by = <<Key(w), worker[w].att, worker[w].i>>
          /\ rec[Key(w)].prior = head.ind
          /\ faults["lost"] = 0 => rec[Key(w)].comp = head'
      BY <3>1, Switched
    <3> QED BY <3>2
  <2> QED BY <2>1, <2>2, HeadMovers
<1> QED BY <1>1, IndustryInvariant, PTL DEF Spec, SwitchExtendsHead

\* An operation is reported succeeded by its worker or by a reconciliation.
LEMMA Finishers ==
    ASSUME IndustryInv, [Next]_vars, NEW k \in Keys,
           op[k].st # "succeeded", op'[k].st = "succeeded"
    PROVE  \E w \in Workers : ReconcileApply(w) \/ CompleteIndustry(w)
<1>1. op \in [Keys -> Operations] /\ op' # op
  BY DEF IndustryInv, TypeOK
<1>2. ASSUME NEW j \in Keys, Submit(j) \/ Cancel(j) \/ LeaseLapses(j) \/ SessionLost(j)
      PROVE  FALSE
  BY <1>1, <1>2 DEF Submit, Cancel, LeaseLapses, SessionLost, Operations
<1>3. ASSUME NEW w \in Workers,
             \/ ReadPointer(w) \/ ReadPending(w) \/ MatchReceipt(w) \/ WritePublication(w)
             \/ ReadTarget(w) \/ AcquireKey(w) \/ Existing(w) \/ Initialize(w)
             \/ BeginBuild(w) \/ Collect(w) \/ CollectFails(w) \/ Materialized(w)
             \/ ReadReceipt(w) \/ LookAtHead(w) \/ RecordHeadMoved(w) \/ Unchanged(w)
             \/ Try(w) \/ TargetChanged(w) \/ RecordCandidate(w)
      PROVE  FALSE
  BY <1>1, <1>3 DEF ReadPointer, ReadPending, MatchReceipt, WritePublication, ReadTarget,
              AcquireKey, Existing, Initialize, BeginBuild, Collect, CollectFails,
              Materialized, ReadReceipt, LookAtHead, RecordHeadMoved, Unchanged, Try,
              TargetChanged, RecordCandidate
<1>4. ASSUME NEW w \in Workers,
             \/ Protect(w) \/ SwitchHead(w) \/ HeadConflict(w) \/ ReleaseCandidate(w)
             \/ Fails(w) \/ ReconciliationFails(w) \/ AskPostCas(w) \/ GivesUp(w)
             \/ Fenced(w) \/ Dies(w)
      PROVE  FALSE
  BY <1>1, <1>4 DEF Protect, SwitchHead, HeadConflict, ReleaseCandidate, Fails,
              ReconciliationFails, AskPostCas, GivesUp, Fenced, Dies
<1>5. ASSUME NEW j \in Keys, NEW b, EndAttempt(j, b) PROVE FALSE
  BY <1>1, <1>5 DEF EndAttempt, Operations
<1>6. ASSUME NEW w \in Workers, RecoverExpired(w) \/ RecordFailure(w) PROVE FALSE
  <2>1. CASE RecoverExpired(w)
    BY <1>1, <1>5, <2>1 DEF RecoverExpired
  <2>2. CASE RecordFailure(w)
    <3>1. Key(w) \in Keys
      BY <2>2, Knows DEF RecordFailure, At, Key, WorkOK, Keyless
    <3>2. EndAttempt(Key(w), TRUE) \/ EndAttempt(Key(w), FALSE) \/ op' = op
      BY <2>2 DEF RecordFailure, EndAttempt
    <3> QED BY <1>1, <1>5, <3>1, <3>2
  <2> QED BY <1>6, <2>1, <2>2
<1>7. ASSUME NEW w \in Workers, Claim(w) \/ CommitSwitch(w) PROVE FALSE
  <2>1. CASE Claim(w)
    <3>1. PICK j \in Claimable :
             op' = [op EXCEPT ![j].st = "running", ![j].live = TRUE, ![j].att = @ + 1]
      BY <1>1, <2>1 DEF Claim
    <3>2. j \in Keys /\ op[j] \in Operations
      BY <1>1 DEF Claimable
    <3>3. op'[j].st = "running" /\ (k # j => op'[k] = op[k])
      BY <1>1, <3>1, <3>2 DEF Operations
    <3> QED BY <3>3
  <2>2. CASE CommitSwitch(w)
    BY <1>1, <2>2 DEF CommitSwitch, Operations
  <2> QED BY <1>7, <2>1, <2>2
<1>8. ~OutsideMove /\ ~DatasetMove
  BY <1>1 DEF OutsideMove, DatasetMove, HeadMoved
<1>9. Next
  BY <1>1 DEF vars
<1> QED BY <1>2, <1>3, <1>4, <1>6, <1>7, <1>8, <1>9 DEF Next, Work

\* When an operation is reported succeeded the Head is the publication its
\* receipt names.
THEOREM SuccessShowsTheHead == Spec => SuccessIsVisible
<1>1. IndustryInv /\ [Next]_vars => SuccessStep
  <2> SUFFICES ASSUME IndustryInv, [Next]_vars, NEW k \in Keys,
                      op[k].st # "succeeded", op'[k].st = "succeeded"
               PROVE  rec'[k].st = "succeeded" /\ head = rec'[k].pub
    BY DEF SuccessStep
  <2>1. PICK w \in Workers : ReconcileApply(w) \/ CompleteIndustry(w)
    BY Finishers
  <2>2. /\ op' = [op EXCEPT ![Key(w)].st = "succeeded"] /\ worker[w].gen = head
        /\ rec' = rec /\ worker[w].pc \in {"received", "complete"}
    BY <2>1 DEF ReconcileApply, CompleteIndustry, Completes, At
  <2>3. Key(w) \in Keys /\ rec[Key(w)].pub = head
    BY <2>2, Knows DEF Key, WorkOK, Keyless
  <2>4. k = Key(w)
    BY <2>2, <2>3 DEF IndustryInv, TypeOK
  <2>5. head # None /\ RecOK(k, rec[k])
    BY DEF IndustryInv, TypeOK, RecsInv
  <2> QED BY <2>2, <2>3, <2>4, <2>5 DEF RecOK
<1> QED BY <1>1, IndustryInvariant, PTL DEF Spec, SuccessIsVisible

\* One operation runs at a time, and receipts tell what it did.
THEOREM OperationsAreSound == Spec => []OperationsSound
BY OneRunsAtATime, ReceiptsAreHonest, PTL DEF OperationsSound

\* A switch of the Head is the running attempt's, extends what it replaces, and is what a
\* success reports.
THEOREM SwitchesAreSound == Spec => SwitchesExtend
BY OnlyRunningAttemptsPublish, SwitchesExtendTheHead, SuccessShowsTheHead, PTL
   DEF SwitchesExtend, PublishedByItsAttempt, SwitchExtendsHead, SuccessIsVisible

=============================================================================
