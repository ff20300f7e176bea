--------------------------- MODULE DailyTrackProofs ---------------------------
(***************************************************************************)
(* The rows of a DailyTrack under commands, Workers and recoveries, for    *)
(* any tracks, Workers and bounds.  An action changes the rows of one      *)
(* track in one of a few ways; the invariant is shown for each way, and    *)
(* each action is shown to take one of them.                               *)
(***************************************************************************)
EXTENDS DailyTrack, FiniteSetTheorems, SequenceTheorems, TLAPS

USE DailyTrackConstants

Queued(t) == t \in Range(queue)
QueueSound == IsInjective(queue)

\* A target is frozen at the checkpoint it continues, and lies beyond it.
PlanOf(t) ==
    prog[t].status \in Unresolved =>
        /\ status[t] \in Alive
        /\ prog[t].pred = Len(chain[t])
        /\ Boundary(t) < prog[t].from /\ prog[t].from <= prog[t].end

\* An attempt that can be started is one the budget allows.
BudgetOf(t) ==
    /\ prog[t].status = "running" => status[t] = "active"
    /\ prog[t].status = "running" /\ attempt[t].status # "running" =>
          prog[t].used < MaxCycleAttempts

\* A running attempt is later than every attempt that published a checkpoint.
FencesOf(t) ==
    /\ attempt[t].fence <= fence[t]
    /\ \A i \in 1..Len(chain[t]) : chain[t][i].fence <= fence[t]
    /\ attempt[t].status = "running" =>
          \A i \in 1..Len(chain[t]) : chain[t][i].fence < attempt[t].fence

AdvancesOf(t) ==
    \A i, j \in 1..Len(chain[t]) : i < j =>
        chain[t][i].session < chain[t][j].session /\ chain[t][i].fence < chain[t][j].fence
HistoryOf(t) ==
    /\ AdvancesOf(t)
    /\ \A i \in 1..Len(chain[t]) : chain[t][i].covered /\ chain[t][i].base \in {0, i - 1}
    /\ status[t] \in Alive => chain[t] # <<>>

CyclesOf(t) == prog[t].cycle <= 1 + Cardinality(receipts[t])

RowAt(t) ==
    /\ RowsOf(t) /\ PlanOf(t) /\ BudgetOf(t) /\ FencesOf(t) /\ HistoryOf(t) /\ CyclesOf(t)

\* What a Worker that works on a claim knows of it.
Holding == {"claimed", "executing", "calculating", "result", "prepared", "published", "stored",
            "settle", "confirm", "record", "release"}
Calculated == {"calculating", "result", "prepared"}
ClaimAt(w) ==
    LET c == worker[w] IN
    /\ c.pc \in Holding => 1 <= c.fence /\ c.fence <= fence[c.t]
    /\ c.pc \in Holding /\ attempt[c.t].status = "running" /\ attempt[c.t].fence = c.fence =>
          prog[c.t].used = c.ord
    /\ c.pc \in Calculated => c.covered /\ c.base \in {0, c.pred}

TrackInv ==
    /\ TypeOK /\ QueueSound /\ PinsAgree
    /\ \A t \in Tracks : IsFiniteSet(receipts[t])
    /\ \A t \in Tracks : RowAt(t)
    /\ \A w \in Workers : ClaimAt(w)

-----------------------------------------------------------------------------
(* The queue *)

LEMMA AppendQueued ==
    ASSUME NEW q \in Seq(Tracks), IsInjective(q), NEW t \in Tracks, t \notin Range(q)
    PROVE  /\ Append(q, t) \in Seq(Tracks) /\ IsInjective(Append(q, t))
           /\ \A u : u \in Range(Append(q, t)) <=> u \in Range(q) \/ u = t
<1>1. /\ Append(q, t) \in Seq(Tracks) /\ Len(Append(q, t)) = Len(q) + 1
      /\ \A i \in 1..Len(q) : Append(q, t)[i] = q[i]
      /\ Append(q, t)[Len(q) + 1] = t
  BY AppendProperties
<1>2. DOMAIN q = 1..Len(q) /\ DOMAIN Append(q, t) = 1..(Len(q) + 1) /\ Len(q) \in Nat
  BY <1>1, LenProperties
<1>3. \A u : u \in Range(Append(q, t)) <=> u \in Range(q) \/ u = t
  BY <1>1, <1>2 DEF Range
<1>4. \A i \in 1..Len(q) : q[i] # t
  BY <1>2 DEF Range
<1>5. IsInjective(Append(q, t))
  BY <1>1, <1>2, <1>4 DEF IsInjective
<1> QED BY <1>1, <1>3, <1>5

LEMMA WithoutQueued ==
    ASSUME NEW q \in Seq(Tracks), IsInjective(q), NEW t \in Tracks
    PROVE  /\ Without(q, t) \in Seq(Tracks) /\ IsInjective(Without(q, t))
           /\ \A u : u \in Range(Without(q, t)) <=> u \in Range(q) /\ u # t
<1>1. DOMAIN q = 1..Len(q) /\ Len(q) \in Nat
  BY LenProperties
<1>2. CASE t \notin Range(q)
  BY <1>2 DEF Without, Range
<1>3. CASE t \in Range(q)
  <2> DEFINE i == CHOOSE j \in DOMAIN q : q[j] = t
             a == SubSeq(q, 1, i - 1)
             b == SubSeq(q, i + 1, Len(q))
             r == a \o b
  <2>1. i \in 1..Len(q) /\ q[i] = t
    BY <1>1, <1>3 DEF Range
  <2>2. Without(q, t) = r
    BY <1>3 DEF Without, RemoveAt
  <2> HIDE DEF i
  <2>3. a \in Seq(Tracks) /\ Len(a) = i - 1 /\ \A k \in 1..(i - 1) : a[k] = q[k]
    BY <1>1, <2>1, SubSeqProperties
  <2>4. b \in Seq(Tracks) /\ Len(b) = Len(q) - i /\ \A k \in 1..(Len(q) - i) : b[k] = q[i + k]
    <3>1. i + 1 \in Int /\ Len(q) \in Int /\ \A k \in (i + 1)..Len(q) : q[k] \in Tracks
      BY <1>1, <2>1
    <3>2. /\ b \in Seq(Tracks)
          /\ Len(b) = IF i + 1 <= Len(q) THEN Len(q) - (i + 1) + 1 ELSE 0
          /\ \A k \in 1..(Len(q) - (i + 1) + 1) : b[k] = q[(i + 1) + k - 1]
      BY <3>1, SubSeqProperties
    <3>3. Len(b) = Len(q) - i
      <4> HIDE DEF b
      <4>1. CASE i + 1 <= Len(q)
        BY <1>1, <2>1, <3>2, <4>1
      <4>2. CASE ~ (i + 1 <= Len(q))
        <5>1. Len(b) = 0
          BY <3>2, <4>2
        <5>2. \A n \in Nat : \A k \in 1..n : ~ (k + 1 <= n) => n - k = 0
          OBVIOUS
        <5>3. Len(q) - i = 0
          BY <1>1, <2>1, <4>2, <5>2, Zenon
        <5> QED BY <5>1, <5>3
      <4> QED BY <4>1, <4>2
    <3>4. \A k \in 1..(Len(q) - i) : b[k] = q[i + k]
      <4> HIDE DEF b
      <4> SUFFICES ASSUME NEW k \in 1..(Len(q) - i) PROVE b[k] = q[i + k]
        OBVIOUS
      <4>1. k \in 1..(Len(q) - (i + 1) + 1) /\ (i + 1) + k - 1 = i + k
        BY <1>1, <2>1
      <4> QED BY <3>2, <4>1
    <3> QED BY <3>2, <3>3, <3>4
  <2> HIDE DEF a, b
  <2>c. /\ r \in Seq(Tracks) /\ Len(r) = Len(a) + Len(b)
        /\ \A k \in 1..(Len(a) + Len(b)) : r[k] = IF k <= Len(a) THEN a[k] ELSE b[k - Len(a)]
    BY <2>3, <2>4, ConcatProperties, Zenon
  <2>5. r \in Seq(Tracks) /\ Len(r) = Len(q) - 1
    BY <1>1, <2>1, <2>3, <2>4, <2>c
  <2>6. \A k \in 1..(Len(q) - 1) : r[k] = IF k < i THEN q[k] ELSE q[k + 1]
    <3> HIDE DEF r
    <3> SUFFICES ASSUME NEW k \in 1..(Len(q) - 1)
                 PROVE  r[k] = IF k < i THEN q[k] ELSE q[k + 1]
      OBVIOUS
    <3>1. CASE k < i
      <4>1. k \in 1..(i - 1) /\ k <= Len(a) /\ k \in 1..(Len(a) + Len(b))
        BY <1>1, <2>1, <2>3, <2>4, <3>1
      <4>2. r[k] = a[k] /\ a[k] = q[k]
        BY <2>3, <2>c, <4>1
      <4> QED BY <3>1, <4>2
    <3>2. CASE ~ (k < i)
      <4>1. r[k] = b[k - (i - 1)]
        <5>1. ~ (k <= Len(a)) /\ k \in 1..(Len(a) + Len(b)) /\ Len(a) = i - 1
          BY <1>1, <2>1, <2>3, <2>4, <3>2
        <5> QED BY <2>c, <5>1
      <4>2. k - (i - 1) \in 1..(Len(q) - i) /\ i + (k - (i - 1)) = k + 1
        BY <1>1, <2>1, <3>2
      <4> QED BY <2>4, <3>2, <4>1, <4>2
    <3> QED BY <3>1, <3>2
  <2>7. DOMAIN r = 1..(Len(q) - 1)
    BY <2>5, LenProperties
  <2> HIDE DEF r
  <2>8. IsInjective(r)
    <3> SUFFICES ASSUME NEW k \in 1..(Len(q) - 1), NEW m \in 1..(Len(q) - 1), k < m
                 PROVE  r[k] # r[m]
      BY <1>1, <2>7 DEF IsInjective
    <3>1. \E c, d \in 1..Len(q) : c # d /\ r[k] = q[c] /\ r[m] = q[d]
      <4>1. CASE m < i
        BY <1>1, <2>1, <2>6, <4>1
      <4>2. CASE k < i /\ i <= m
        BY <1>1, <2>1, <2>6, <4>2
      <4>3. CASE i <= k
        BY <1>1, <2>1, <2>6, <4>3
      <4> QED BY <1>1, <2>1, <4>1, <4>2, <4>3
    <3> QED BY <1>1, <3>1 DEF IsInjective
  <2>9. ASSUME NEW u, u \in Range(r) PROVE u \in Range(q) /\ u # t
    <3>1. PICK k \in 1..(Len(q) - 1) : u = r[k]
      BY <2>7, <2>9 DEF Range
    <3>2. PICK m \in 1..Len(q) : u = q[m] /\ m # i
      BY <1>1, <2>1, <2>6, <3>1
    <3> QED BY <1>1, <2>1, <3>2 DEF Range, IsInjective
  <2>10. ASSUME NEW u, u \in Range(q), u # t PROVE u \in Range(r)
    <3>1. PICK m \in 1..Len(q) : u = q[m]
      BY <1>1, <2>10 DEF Range
    <3>2. m # i
      BY <2>1, <2>10, <3>1
    <3>3. CASE m < i
      <4>1. m \in 1..(Len(q) - 1) /\ r[m] = q[m]
        BY <1>1, <2>1, <2>6, <3>3
      <4> QED BY <2>7, <3>1, <4>1 DEF Range
    <3>4. CASE m > i
      <4>1. m - 1 \in 1..(Len(q) - 1) /\ ~ (m - 1 < i) /\ (m - 1) + 1 = m
        BY <1>1, <2>1, <3>4
      <4>2. r[m - 1] = q[m]
        BY <2>6, <4>1
      <4> QED BY <2>7, <3>1, <4>1, <4>2 DEF Range
    <3> QED BY <1>1, <2>1, <3>2, <3>3, <3>4
  <2> QED BY <2>2, <2>5, <2>8, <2>9, <2>10
<1> QED BY <1>2, <1>3

LEMMA PromotedQueue ==
    ASSUME TypeOK, QueueSound, NEW q \in Promoted
    PROVE  /\ q \in Seq(Tracks) /\ IsInjective(q)
           /\ \A u : u \in Range(q) => u \in Range(queue) \cup Promotable
<1>1. PICK s \in SetToSeqs(Promotable) : q = queue \o s
  BY DEF Promoted
<1>2. IsFiniteSet(Promotable) /\ Promotable \subseteq Tracks
  BY FS_Subset DEF Promotable
<1> DEFINE n == Cardinality(Promotable)
<1>3. n \in Nat
  BY <1>2, FS_CardinalityType
<1>4. s \in [1..n -> Promotable] /\ \A i, j \in 1..n : i # j => s[i] # s[j]
  BY <1>1 DEF SetToSeqs
<1> HIDE DEF n
<1>5. s \in Seq(Promotable) /\ s \in Seq(Tracks) /\ Len(s) = n
  BY <1>2, <1>3, <1>4
<1>6. queue \in Seq(Tracks) /\ DOMAIN queue = 1..Len(queue) /\ Len(queue) \in Nat
  BY LenProperties DEF TypeOK
<1>7. q \in Seq(Tracks) /\ Len(q) = Len(queue) + n
  BY <1>1, <1>5, <1>6, ConcatProperties
<1>8. \A k \in 1..Len(q) : q[k] = IF k <= Len(queue) THEN queue[k] ELSE s[k - Len(queue)]
  BY <1>1, <1>5, <1>6, ConcatProperties
<1>9. DOMAIN q = 1..Len(q)
  BY <1>7, LenProperties
<1>10. \A k \in 1..Len(queue), m \in 1..n : queue[k] # s[m]
  BY <1>4, <1>6 DEF Promotable, Range
<1>11. IsInjective(q)
  <2>1. ASSUME NEW k \in 1..Len(q), NEW m \in 1..Len(q), k < m PROVE q[k] # q[m]
    <3>1. CASE m <= Len(queue)
      BY <1>6, <1>7, <1>8, <2>1, <3>1, <1>3, SMTT(30) DEF QueueSound, IsInjective
    <3>2. CASE k <= Len(queue) /\ m > Len(queue)
      BY <1>3, <1>6, <1>7, <1>8, <1>10, <2>1, <3>2
    <3>3. CASE k > Len(queue)
      <4>1. k - Len(queue) \in 1..n /\ m - Len(queue) \in 1..n /\ k - Len(queue) # m - Len(queue)
        BY <1>3, <1>6, <1>7, <2>1, <3>3
      <4>2. q[k] = s[k - Len(queue)] /\ q[m] = s[m - Len(queue)]
        BY <1>3, <1>6, <1>7, <1>8, <2>1, <3>3
      <4> QED BY <1>4, <4>1, <4>2
    <3> QED BY <1>3, <1>6, <1>7, <3>1, <3>2, <3>3
  <2>2. \A k, m \in 1..Len(q) : k # m => q[k] # q[m]
    BY <1>3, <1>6, <1>7, <2>1
  <2> QED BY <1>9, <2>2 DEF IsInjective
<1>12. ASSUME NEW u, u \in Range(q) PROVE u \in Range(queue) \cup Promotable
  <2>1. PICK k \in 1..Len(q) : u = q[k]
    BY <1>9, <1>12 DEF Range
  <2>2. CASE k <= Len(queue)
    BY <1>6, <1>8, <2>1, <2>2 DEF Range
  <2>3. CASE ~ (k <= Len(queue))
    <3>1. k - Len(queue) \in 1..n
      BY <1>3, <1>6, <1>7, <2>3
    <3> QED BY <1>4, <1>8, <2>1, <2>3, <3>1
  <2> QED BY <2>2, <2>3
<1> QED BY <1>7, <1>11, <1>12

-----------------------------------------------------------------------------
(* What a step does to the rows of one track *)

QueuedFrom(u) == Queued(u)' => Queued(u) \/ u \in Promotable
Same(u) ==
    /\ status'[u] = status[u] /\ fence'[u] = fence[u] /\ chain'[u] = chain[u]
    /\ prog'[u] = prog[u] /\ attempt'[u] = attempt[u] /\ receipts'[u] = receipts[u]
    /\ QueuedFrom(u)
OthersSame(t) == \A u \in Tracks : u # t => Same(u)
ReceiptsFinite == \A u \in Tracks : IsFiniteSet(receipts[u]) /\ IsFiniteSet(receipts'[u])

SamePlan(t) ==
    prog'[t].pred = prog[t].pred /\ prog'[t].from = prog[t].from /\ prog'[t].end = prog[t].end

\* A lease renewed or lapsed, a retry that falls due, a place in the queue.
Touched(t) ==
    /\ status'[t] = status[t] /\ fence'[t] = fence[t] /\ chain'[t] = chain[t]
    /\ attempt'[t].status = attempt[t].status /\ attempt'[t].fence = attempt[t].fence
    /\ prog'[t].status = prog[t].status /\ prog'[t].cycle = prog[t].cycle
    /\ prog'[t].used = prog[t].used /\ SamePlan(t)
    /\ prog'[t].wait \in {prog[t].wait, "due"} /\ receipts[t] \subseteq receipts'[t]
    /\ QueuedFrom(t) \/ (status[t] = "active" /\ prog[t].status \notin Unresolved)

Activated(t) ==
    /\ status[t] = "none" /\ status'[t] = "active"
    /\ chain'[t] = <<[session |-> 1, fence |-> 0, base |-> 0, covered |-> TRUE]>>
    /\ fence'[t] = fence[t] /\ prog'[t] = prog[t] /\ attempt'[t] = attempt[t]
    /\ receipts'[t] = receipts[t] /\ QueuedFrom(t)

\* A Retry command starts another cycle for the target that was frozen.
Resumed(t) ==
    /\ status[t] = "blocked" /\ prog[t].status = "blocked" /\ status'[t] = "active"
    /\ prog'[t].status = "running" /\ prog'[t].used = 0 /\ prog'[t].wait = "due"
    /\ prog'[t].cycle <= prog[t].cycle + 1
    /\ Cardinality(receipts'[t]) = Cardinality(receipts[t]) + 1
    /\ SamePlan(t) /\ fence'[t] = fence[t] /\ chain'[t] = chain[t] /\ attempt'[t] = attempt[t]

\* Work is over for good: stopped at once, a stop confirmed.
Stopped(t) ==
    /\ status[t] \in {"active", "blocked", "stopping"} /\ status'[t] = "stopped"
    /\ prog'[t].status \notin Unresolved
    /\ attempt'[t].status \notin {"running", "stopping"}
    /\ attempt'[t].fence = attempt[t].fence /\ prog'[t].cycle = prog[t].cycle
    /\ chain'[t] = chain[t] /\ fence[t] <= fence'[t]
    /\ receipts'[t] = receipts[t] /\ ~ Queued(t)'

\* A stop is asked of the running attempt.
Halted(t) ==
    /\ status[t] = "active" /\ status'[t] = "stopping"
    /\ attempt[t].status = "running" /\ attempt'[t].status = "stopping"
    /\ attempt'[t].fence = attempt[t].fence /\ fence'[t] = fence[t] + 1
    /\ prog'[t].status = "stopping" /\ prog'[t].cycle = prog[t].cycle /\ SamePlan(t)
    /\ chain'[t] = chain[t] /\ receipts'[t] = receipts[t] /\ ~ Queued(t)'

Removed(t) ==
    /\ status[t] = "stopped" /\ status'[t] = "deleted" /\ chain'[t] = <<>>
    /\ prog'[t] = NoProgression /\ attempt'[t] = NoAttempt /\ fence'[t] = fence[t]
    /\ ~ Queued(t)'

\* An attempt that is due or expired fails and another one may follow.
Failed(t) ==
    /\ attempt[t].status = "running" /\ attempt'[t].status = "failed"
    /\ attempt'[t].fence = attempt[t].fence
    /\ prog'[t].status = "running" /\ prog'[t].wait = "waiting"
    /\ prog'[t].used = prog[t].used /\ prog[t].used < MaxCycleAttempts
    /\ prog'[t].cycle = prog[t].cycle /\ SamePlan(t)
    /\ status'[t] = status[t] /\ fence'[t] = fence[t] /\ chain'[t] = chain[t]
    /\ receipts'[t] = receipts[t] /\ ~ Queued(t)'

\* The plan of the progression that a claim works on: the frozen one, or a new one.
PlanKept(t) ==
    \/ prog[t].status = "running" /\ SamePlan(t) /\ prog'[t].cycle = prog[t].cycle
    \/ /\ prog[t].status # "running"
       /\ prog'[t].pred = Len(chain[t]) /\ prog'[t].from = Boundary(t) + 1
       /\ prog'[t].from <= prog'[t].end /\ prog'[t].cycle <= 1

Blocked(t) ==
    /\ status[t] = "active" /\ status'[t] = "blocked" /\ prog'[t].status = "blocked"
    /\ attempt'[t].status \notin {"running", "stopping"} /\ attempt'[t].fence = attempt[t].fence
    /\ PlanKept(t) /\ fence'[t] = fence[t] /\ chain'[t] = chain[t]
    /\ receipts'[t] = receipts[t] /\ ~ Queued(t)'

Started(t) ==
    /\ status[t] = "active" /\ status'[t] = "active" /\ attempt[t].status # "running"
    /\ attempt'[t].status = "running" /\ attempt'[t].fence = fence[t] + 1
    /\ fence'[t] = fence[t] + 1 /\ prog'[t].status = "running"
    /\ PlanKept(t) /\ chain'[t] = chain[t] /\ receipts'[t] = receipts[t] /\ ~ Queued(t)'

Published(t) ==
    /\ status[t] = "active" /\ status'[t] = "active" /\ fence'[t] = fence[t]
    /\ attempt[t].status = "running" /\ attempt'[t].status = "succeeded"
    /\ attempt'[t].fence = attempt[t].fence
    /\ prog[t].status = "running" /\ prog'[t].status = "succeeded"
    /\ prog'[t].cycle = prog[t].cycle
    /\ \E b \in {0, Len(chain[t])} :
          chain'[t] = Append(chain[t], [session |-> prog[t].end, fence |-> attempt[t].fence,
                                        base |-> b, covered |-> TRUE])
    /\ receipts'[t] = receipts[t] /\ ~ Queued(t)'

Effect(t) ==
    \/ Touched(t) \/ Activated(t) \/ Resumed(t) \/ Stopped(t) \/ Halted(t) \/ Removed(t)
    \/ Failed(t) \/ Blocked(t) \/ Started(t) \/ Published(t)

Typed == TypeOK /\ TypeOK'

LEMMA RowTypes ==
    ASSUME TypeOK, NEW t \in Tracks
    PROVE  /\ status[t] \in {"none", "stopped", "deleted"} \cup Alive
           /\ fence[t] \in Nat /\ chain[t] \in Seq(Checkpoints) /\ Len(chain[t]) \in Nat
           /\ prog[t] \in Progressions /\ prog[t].pred \in Nat /\ prog[t].cycle \in Nat
           /\ prog[t].from \in Nat /\ prog[t].end \in Nat /\ prog[t].used \in Nat
           /\ prog[t].status \in {"none", "succeeded", "cancelled"} \cup Unresolved
           /\ attempt[t] \in Attempts /\ attempt[t].fence \in Nat
           /\ \A i \in 1..Len(chain[t]) : /\ chain[t][i].session \in Nat
                                          /\ chain[t][i].fence \in Nat
<1>1. fence[t] \in Nat /\ chain[t] \in Seq(Checkpoints) /\ status[t] \in {"none", "stopped", "deleted"} \cup Alive
  BY DEF TypeOK
<1>2. prog[t] \in Progressions /\ attempt[t] \in Attempts
  BY DEF TypeOK
<1>3. Len(chain[t]) \in Nat /\ \A i \in 1..Len(chain[t]) : chain[t][i] \in Checkpoints
  BY <1>1, LenProperties, ElementOfSeq
<1>4. \A i \in 1..Len(chain[t]) : chain[t][i].session \in Nat /\ chain[t][i].fence \in Nat
  BY <1>3 DEF Checkpoints, Sessions
<1>5. /\ prog[t].pred \in Nat /\ prog[t].cycle \in Nat /\ prog[t].from \in Nat
      /\ prog[t].end \in Nat /\ prog[t].used \in Nat
      /\ prog[t].status \in {"none", "succeeded", "cancelled"} \cup Unresolved
  BY <1>2 DEF Progressions
<1>6. attempt[t].fence \in Nat
  BY <1>2 DEF Attempts
<1> QED BY <1>1, <1>2, <1>3, <1>4, <1>5, <1>6

LEMMA NextTypes ==
    ASSUME TypeOK', NEW t \in Tracks
    PROVE  fence'[t] \in Nat /\ prog'[t].cycle \in Nat
<1>1. fence'[t] \in Nat /\ prog'[t] \in Progressions
  BY DEF TypeOK
<1> QED BY <1>1 DEF Progressions

LEMMA ReceiptsCounted ==
    ASSUME ReceiptsFinite, NEW t \in Tracks
    PROVE  /\ Cardinality(receipts[t]) \in Nat /\ Cardinality(receipts'[t]) \in Nat
           /\ receipts[t] \subseteq receipts'[t] =>
                 Cardinality(receipts[t]) <= Cardinality(receipts'[t])
<1>1. IsFiniteSet(receipts[t]) /\ IsFiniteSet(receipts'[t])
  BY DEF ReceiptsFinite
<1> QED BY <1>1, FS_CardinalityType, FS_Subset

LEMMA TouchedRow ==
    ASSUME Typed, ReceiptsFinite, NEW t \in Tracks, RowAt(t), Touched(t)
    PROVE  RowAt(t)'
<1>1. RowsOf(t)'
  BY RowTypes DEF Typed, RowAt, RowsOf, BudgetOf, Touched, QueuedFrom, Queued, Promotable, Unresolved
<1>2. PlanOf(t)'
  BY DEF RowAt, PlanOf, Touched, SamePlan, Boundary
<1>3. BudgetOf(t)' /\ FencesOf(t)'
  BY DEF RowAt, BudgetOf, FencesOf, Touched
<1>4. HistoryOf(t)'
  BY DEF RowAt, HistoryOf, AdvancesOf, Touched
<1>5. CyclesOf(t)'
  BY RowTypes, ReceiptsCounted DEF Typed, RowAt, CyclesOf, Touched
<1> QED BY <1>1, <1>2, <1>3, <1>4, <1>5 DEF RowAt

LEMMA ActivatedRow ==
    ASSUME Typed, ReceiptsFinite, NEW t \in Tracks, RowAt(t), Activated(t)
    PROVE  RowAt(t)'
<1>1. RowsOf(t)'
  BY DEF RowAt, RowsOf, BudgetOf, Activated, QueuedFrom, Queued, Promotable, Unresolved
<1>2. PlanOf(t)' /\ BudgetOf(t)'
  BY DEF RowAt, RowsOf, PlanOf, BudgetOf, Activated, Unresolved, Alive
<1>3. Len(chain'[t]) = 1 /\ chain'[t][1] = [session |-> 1, fence |-> 0, base |-> 0, covered |-> TRUE]
  BY DEF Activated
<1>4. FencesOf(t)' /\ HistoryOf(t)'
  BY <1>3, RowTypes DEF Typed, RowAt, RowsOf, FencesOf, HistoryOf, AdvancesOf, Activated
<1>5. CyclesOf(t)'
  BY RowTypes, ReceiptsCounted DEF Typed, RowAt, CyclesOf, Activated
<1> QED BY <1>1, <1>2, <1>4, <1>5 DEF RowAt

LEMMA ResumedRow ==
    ASSUME Typed, ReceiptsFinite, NEW t \in Tracks, RowAt(t), Resumed(t)
    PROVE  RowAt(t)'
<1>1. RowsOf(t)'
  BY DEF RowAt, RowsOf, Resumed
<1>2. PlanOf(t)'
  BY DEF RowAt, PlanOf, Resumed, SamePlan, Boundary, Unresolved, Alive
<1>3. BudgetOf(t)' /\ FencesOf(t)'
  BY DEF RowAt, RowsOf, BudgetOf, FencesOf, Resumed
<1>4. HistoryOf(t)'
  BY DEF RowAt, HistoryOf, AdvancesOf, Resumed, Alive
<1>5. CyclesOf(t)'
  BY RowTypes, NextTypes, ReceiptsCounted DEF Typed, RowAt, CyclesOf, Resumed
<1> QED BY <1>1, <1>2, <1>3, <1>4, <1>5 DEF RowAt

LEMMA StoppedRow ==
    ASSUME Typed, ReceiptsFinite, NEW t \in Tracks, RowAt(t), Stopped(t)
    PROVE  RowAt(t)'
<1>1. RowsOf(t)' /\ PlanOf(t)' /\ BudgetOf(t)'
  BY DEF RowsOf, PlanOf, BudgetOf, Stopped, Queued, Unresolved
<1>2. FencesOf(t)'
  BY RowTypes, NextTypes DEF Typed, RowAt, FencesOf, Stopped
<1>3. HistoryOf(t)'
  BY DEF RowAt, HistoryOf, AdvancesOf, Stopped, Alive
<1>4. CyclesOf(t)'
  BY RowTypes, ReceiptsCounted DEF Typed, RowAt, CyclesOf, Stopped
<1> QED BY <1>1, <1>2, <1>3, <1>4 DEF RowAt

LEMMA HaltedRow ==
    ASSUME Typed, ReceiptsFinite, NEW t \in Tracks, RowAt(t), Halted(t)
    PROVE  RowAt(t)'
<1>1. RowsOf(t)' /\ BudgetOf(t)'
  BY DEF RowsOf, BudgetOf, Halted, Queued
<1>2. PlanOf(t)'
  BY DEF RowAt, RowsOf, PlanOf, Halted, SamePlan, Boundary, Unresolved, Alive
<1>3. FencesOf(t)'
  BY RowTypes DEF Typed, RowAt, FencesOf, Halted
<1>4. HistoryOf(t)'
  BY DEF RowAt, HistoryOf, AdvancesOf, Halted, Alive
<1>5. CyclesOf(t)'
  BY RowTypes, ReceiptsCounted DEF Typed, RowAt, CyclesOf, Halted
<1> QED BY <1>1, <1>2, <1>3, <1>4, <1>5 DEF RowAt

LEMMA RemovedRow ==
    ASSUME Typed, ReceiptsFinite, NEW t \in Tracks, RowAt(t), Removed(t)
    PROVE  RowAt(t)'
<1>1. Len(chain'[t]) = 0
  BY DEF Removed
<1>2. RowsOf(t)' /\ PlanOf(t)' /\ BudgetOf(t)'
  BY DEF RowsOf, PlanOf, BudgetOf, Removed, Queued, Unresolved, NoProgression, NoAttempt
<1>3. FencesOf(t)' /\ HistoryOf(t)'
  BY <1>1, RowTypes DEF Typed, FencesOf, HistoryOf, AdvancesOf, Removed, NoAttempt, Alive
<1>4. CyclesOf(t)'
  BY ReceiptsCounted DEF CyclesOf, Removed, NoProgression
<1> QED BY <1>2, <1>3, <1>4 DEF RowAt

LEMMA FailedRow ==
    ASSUME Typed, ReceiptsFinite, NEW t \in Tracks, RowAt(t), Failed(t)
    PROVE  RowAt(t)'
<1>1. RowsOf(t)' /\ BudgetOf(t)'
  BY DEF RowAt, RowsOf, BudgetOf, Failed, Queued
<1>2. PlanOf(t)'
  BY DEF RowAt, RowsOf, PlanOf, Failed, SamePlan, Boundary, Unresolved, Alive
<1>3. FencesOf(t)'
  BY DEF RowAt, FencesOf, Failed
<1>4. HistoryOf(t)'
  BY DEF RowAt, HistoryOf, AdvancesOf, Failed
<1>5. CyclesOf(t)'
  BY RowTypes, ReceiptsCounted DEF Typed, RowAt, CyclesOf, Failed
<1> QED BY <1>1, <1>2, <1>3, <1>4, <1>5 DEF RowAt

\* What a claim works on is frozen at the current checkpoint and lies beyond it.
LEMMA PlanFrozen ==
    ASSUME Typed, ReceiptsFinite, NEW t \in Tracks, RowAt(t), PlanKept(t), status[t] = "active",
           chain'[t] = chain[t], receipts'[t] = receipts[t]
    PROVE  /\ prog'[t].pred = Len(chain'[t])
           /\ Boundary(t)' < prog'[t].from /\ prog'[t].from <= prog'[t].end
           /\ CyclesOf(t)'
<1>1. Boundary(t)' = Boundary(t) /\ Boundary(t) \in Nat
  <2>1. chain[t] # <<>> /\ chain[t] \in Seq(Checkpoints)
    BY RowTypes DEF Typed, RowAt, HistoryOf, Alive
  <2>2. Len(chain[t]) \in 1..Len(chain[t])
    BY <2>1, EmptySeq, LenProperties
  <2>3. Boundary(t) \in Nat
    BY <2>2, RowTypes DEF Typed, Boundary, Last
  <2> QED BY <2>3 DEF Boundary
<1>2. CASE prog[t].status = "running" /\ SamePlan(t) /\ prog'[t].cycle = prog[t].cycle
  <2>1. CyclesOf(t)'
    BY <1>2, RowTypes, ReceiptsCounted DEF Typed, RowAt, CyclesOf
  <2> QED BY <1>1, <1>2, <2>1 DEF RowAt, PlanOf, SamePlan, Unresolved
<1>3. CASE /\ prog'[t].pred = Len(chain[t]) /\ prog'[t].from = Boundary(t) + 1
           /\ prog'[t].from <= prog'[t].end /\ prog'[t].cycle <= 1
  <2>1. CyclesOf(t)'
    BY <1>3, NextTypes, ReceiptsCounted DEF Typed, CyclesOf
  <2> QED BY <1>1, <1>3, <2>1
<1> QED BY <1>2, <1>3 DEF PlanKept

LEMMA BlockedRow ==
    ASSUME Typed, ReceiptsFinite, NEW t \in Tracks, RowAt(t), Blocked(t)
    PROVE  RowAt(t)'
<1>1. RowsOf(t)' /\ BudgetOf(t)'
  BY DEF RowsOf, BudgetOf, Blocked, Queued
<1>2. PlanOf(t)' /\ CyclesOf(t)'
  BY PlanFrozen DEF PlanOf, Blocked, Alive
<1>3. FencesOf(t)'
  BY DEF RowAt, FencesOf, Blocked
<1>4. HistoryOf(t)'
  BY DEF RowAt, HistoryOf, AdvancesOf, Blocked, Alive
<1> QED BY <1>1, <1>2, <1>3, <1>4 DEF RowAt

LEMMA StartedRow ==
    ASSUME Typed, ReceiptsFinite, NEW t \in Tracks, RowAt(t), Started(t)
    PROVE  RowAt(t)'
<1>1. RowsOf(t)' /\ BudgetOf(t)'
  BY DEF RowsOf, BudgetOf, Started, Queued
<1>2. PlanOf(t)' /\ CyclesOf(t)'
  BY PlanFrozen DEF PlanOf, Started, Alive
<1>3. FencesOf(t)'
  <2>1. \A i \in 1..Len(chain[t]) : chain[t][i].fence < fence[t] + 1 /\ chain[t][i].fence <= fence[t] + 1
    <3>1. \A i \in 1..Len(chain[t]) : chain[t][i].fence \in Nat /\ chain[t][i].fence <= fence[t]
      BY RowTypes DEF Typed, RowAt, FencesOf
    <3>2. fence[t] \in Nat
      BY RowTypes DEF Typed
    <3>3. \A m, n \in Nat : m <= n => m < n + 1 /\ m <= n + 1
      OBVIOUS
    <3> QED BY <3>1, <3>2, <3>3, Zenon
  <2>2. fence'[t] = fence[t] + 1 /\ attempt'[t].fence = fence[t] + 1 /\ chain'[t] = chain[t]
    BY DEF Started
  <2>3. attempt'[t].fence <= fence'[t]
    BY <2>2, RowTypes DEF Typed
  <2> QED BY <2>1, <2>2, <2>3 DEF FencesOf
<1>4. HistoryOf(t)'
  BY DEF RowAt, HistoryOf, AdvancesOf, Started, Alive
<1> QED BY <1>1, <1>2, <1>3, <1>4 DEF RowAt

LEMMA PublishedRow ==
    ASSUME Typed, ReceiptsFinite, NEW t \in Tracks, RowAt(t), Published(t)
    PROVE  RowAt(t)'
<1> DEFINE n == Len(chain[t])
<1>1. PICK b \in {0, n} :
          chain'[t] = Append(chain[t], [session |-> prog[t].end, fence |-> attempt[t].fence,
                                        base |-> b, covered |-> TRUE])
  BY DEF Published
<1>2. chain[t] \in Seq(Checkpoints) /\ n \in Nat /\ n \in 1..n
  <2>1. chain[t] \in Seq(Checkpoints) /\ chain[t] # <<>>
    BY RowTypes DEF Typed, RowAt, HistoryOf, Published, Alive
  <2> QED BY <2>1, EmptySeq, LenProperties
<1>3. chain'[t] \in Seq(Checkpoints)
  BY RowTypes DEF Typed, TypeOK
<1>4. /\ Len(chain'[t]) = n + 1
      /\ \A i \in 1..n : chain'[t][i] = chain[t][i]
      /\ chain'[t][n + 1] = [session |-> prog[t].end, fence |-> attempt[t].fence,
                             base |-> b, covered |-> TRUE]
  <2> DEFINE e == [session |-> prog[t].end, fence |-> attempt[t].fence, base |-> b, covered |-> TRUE]
  <2>1. chain[t] \in Seq(Checkpoints \cup {e}) /\ e \in Checkpoints \cup {e}
    BY <1>2, SeqMonotonic, ZenonT(30)
  <2> HIDE DEF e
  <2>2. /\ Len(Append(chain[t], e)) = n + 1
        /\ \A i \in 1..n : Append(chain[t], e)[i] = chain[t][i]
        /\ Append(chain[t], e)[n + 1] = e
    BY <2>1, AppendProperties
  <2> QED BY <1>1, <2>2 DEF e
<1>5. /\ chain[t][n].session < prog[t].end
      /\ \A i \in 1..n : chain[t][i].session <= chain[t][n].session
      /\ \A i \in 1..n : chain[t][i].fence < attempt[t].fence
  <2> HIDE DEF n
  <2>1. chain[t][n].session < prog[t].end
    <3>1. Boundary(t) < prog[t].from /\ prog[t].from <= prog[t].end
      BY DEF RowAt, PlanOf, Published, Unresolved
    <3>2. Boundary(t) \in Nat /\ prog[t].from \in Nat /\ prog[t].end \in Nat
      BY <1>2, RowTypes DEF n, Typed, Boundary, Last
    <3> QED BY <3>1, <3>2 DEF n, Boundary, Last
  <2>2. \A i \in 1..n : chain[t][i].session <= chain[t][n].session
    <3> SUFFICES ASSUME NEW i \in 1..n PROVE chain[t][i].session <= chain[t][n].session
      OBVIOUS
    <3>1. chain[t][i].session \in Nat /\ chain[t][n].session \in Nat
      BY <1>2, RowTypes DEF n, Typed
    <3>2. CASE i = n
      BY <3>1, <3>2
    <3>3. CASE i < n
      BY <1>2, <3>1, <3>3 DEF n, RowAt, HistoryOf, AdvancesOf
    <3> QED BY <1>2, <3>2, <3>3
  <2>3. \A i \in 1..n : chain[t][i].fence < attempt[t].fence
    BY DEF n, RowAt, FencesOf, Published
  <2> QED BY <2>1, <2>2, <2>3
<1>6. \A i \in 1..n : chain[t][i].session \in Nat /\ chain[t][i].fence \in Nat
  BY RowTypes DEF Typed
<1>7. prog[t].end \in Nat /\ attempt[t].fence \in Nat /\ fence[t] \in Nat
  BY RowTypes DEF Typed
<1> HIDE DEF n
<1>8. RowsOf(t)' /\ PlanOf(t)' /\ BudgetOf(t)'
  BY DEF RowsOf, PlanOf, BudgetOf, Published, Queued, Unresolved
<1>9. FencesOf(t)'
  <2>1. \A i \in 1..(n + 1) : chain'[t][i].fence <= fence[t]
    <3>1. \A i \in 1..n : chain'[t][i].fence <= fence[t]
      BY <1>4 DEF RowAt, FencesOf, n
    <3>2. chain'[t][n + 1].fence <= fence[t]
      BY <1>4 DEF RowAt, FencesOf
    <3> QED BY <1>2, <3>1, <3>2
  <2> QED BY <1>4, <2>1 DEF RowAt, FencesOf, Published
<1>10. AdvancesOf(t)'
  <2> SUFFICES ASSUME NEW i \in 1..(n + 1), NEW j \in 1..(n + 1), i < j
               PROVE  /\ chain'[t][i].session < chain'[t][j].session
                      /\ chain'[t][i].fence < chain'[t][j].fence
    BY <1>4 DEF AdvancesOf
  <2>1. i \in 1..n /\ chain'[t][i] = chain[t][i]
    BY <1>2, <1>4
  <2>2. CASE j \in 1..n
    BY <1>4, <2>1, <2>2 DEF RowAt, HistoryOf, AdvancesOf, n
  <2>3. CASE j = n + 1
    <3>1. chain'[t][j].session = prog[t].end /\ chain'[t][j].fence = attempt[t].fence
      BY <1>4, <2>3
    <3>2. /\ chain[t][i].session <= chain[t][n].session /\ chain[t][n].session < prog[t].end
          /\ chain[t][i].fence < attempt[t].fence
      BY <1>5, <2>1
    <3>3. chain[t][i].session \in Nat /\ chain[t][n].session \in Nat
      BY <1>2, <1>6, <2>1
    <3> QED BY <1>7, <2>1, <3>1, <3>2, <3>3
  <2> QED BY <1>2, <2>2, <2>3
<1>11. HistoryOf(t)'
  <2>1. \A i \in 1..n : chain'[t][i].covered /\ chain'[t][i].base \in {0, i - 1}
    BY <1>4 DEF RowAt, HistoryOf, n
  <2>2. chain'[t][n + 1].covered /\ chain'[t][n + 1].base \in {0, (n + 1) - 1}
    BY <1>2, <1>4
  <2>3. \A i \in 1..(n + 1) : chain'[t][i].covered /\ chain'[t][i].base \in {0, i - 1}
    BY <1>2, <2>1, <2>2
  <2>4. chain'[t] # <<>>
    BY <1>2, <1>4
  <2> QED BY <1>4, <1>10, <2>3, <2>4 DEF HistoryOf
<1>12. CyclesOf(t)'
  BY RowTypes, ReceiptsCounted DEF Typed, RowAt, CyclesOf, Published
<1> QED BY <1>8, <1>9, <1>11, <1>12 DEF RowAt

LEMMA EffectOnRow ==
    ASSUME Typed, ReceiptsFinite, NEW t \in Tracks, RowAt(t), Effect(t)
    PROVE  RowAt(t)'
BY TouchedRow, ActivatedRow, ResumedRow, StoppedRow, HaltedRow, RemovedRow, FailedRow,
   BlockedRow, StartedRow, PublishedRow DEF Effect

-----------------------------------------------------------------------------
(* Pins, and the steps of the transactions *)

Pinned(t) == attempt[t].status \in {"running", "stopping"}

LEMMA PinsUnchanged ==
    ASSUME PinsAgree, pins' = pins,
           \A u \in Tracks : /\ Pinned(u)' <=> Pinned(u)
                             /\ Pinned(u) => attempt'[u].fence = attempt[u].fence
    PROVE  PinsAgree'
<1>1. {<<t, attempt'[t].fence>> : t \in {u \in Tracks : attempt'[u].status \in {"running", "stopping"}}}
      = {<<t, attempt[t].fence>> : t \in {u \in Tracks : attempt[u].status \in {"running", "stopping"}}}
  BY DEF Pinned
<1> QED BY <1>1 DEF PinsAgree

LEMMA PinReleased ==
    ASSUME PinsAgree, NEW t \in Tracks, pins' = pins \ {<<t, attempt[t].fence>>}, ~ Pinned(t)',
           \A u \in Tracks : u # t => attempt'[u] = attempt[u]
    PROVE  PinsAgree'
<1>1. ASSUME NEW x PROVE x \in pins' <=> \E u \in Tracks : Pinned(u)' /\ x = <<u, attempt'[u].fence>>
  <2>1. x \in pins <=> \E u \in Tracks : Pinned(u) /\ x = <<u, attempt[u].fence>>
    BY DEF PinsAgree, Pinned
  <2>2. ASSUME x \in pins' PROVE \E u \in Tracks : Pinned(u)' /\ x = <<u, attempt'[u].fence>>
    BY <2>1, <2>2 DEF Pinned
  <2>3. ASSUME NEW u \in Tracks, Pinned(u)', x = <<u, attempt'[u].fence>> PROVE x \in pins'
    BY <2>1, <2>3 DEF Pinned
  <2> QED BY <2>2, <2>3
<1> QED BY <1>1 DEF PinsAgree, Pinned

LEMMA PinTaken ==
    ASSUME PinsAgree, NEW t \in Tracks, ~ Pinned(t), Pinned(t)',
           pins' = pins \cup {<<t, attempt'[t].fence>>},
           \A u \in Tracks : u # t => attempt'[u] = attempt[u]
    PROVE  PinsAgree'
<1>1. ASSUME NEW x PROVE x \in pins' <=> \E u \in Tracks : Pinned(u)' /\ x = <<u, attempt'[u].fence>>
  <2>1. x \in pins <=> \E u \in Tracks : Pinned(u) /\ x = <<u, attempt[u].fence>>
    BY DEF PinsAgree, Pinned
  <2>2. ASSUME x \in pins' PROVE \E u \in Tracks : Pinned(u)' /\ x = <<u, attempt'[u].fence>>
    BY <2>1, <2>2 DEF Pinned
  <2>3. ASSUME NEW u \in Tracks, Pinned(u)', x = <<u, attempt'[u].fence>> PROVE x \in pins'
    BY <2>1, <2>3 DEF Pinned
  <2> QED BY <2>2, <2>3
<1> QED BY <1>1 DEF PinsAgree, Pinned

LEMMA ProgressionUpdated ==
    ASSUME NEW p \in Progressions, NEW s \in {"none", "succeeded", "cancelled"} \cup Unresolved,
           NEW n \in Nat, NEW u \in 0..MaxCycleAttempts, NEW v \in {"no", "waiting", "due"}
    PROVE  [p EXCEPT !.status = s, !.cycle = n, !.used = u, !.wait = v] \in Progressions
BY DEF Progressions

\* What a transaction does: rows of one track, and the tables that all tracks share.
RowsTyped ==
    /\ status \in [Tracks -> {"none", "stopped", "deleted"} \cup Alive]
    /\ fence \in [Tracks -> Nat] /\ chain \in [Tracks -> Seq(Checkpoints)]
    /\ prog \in [Tracks -> Progressions] /\ attempt \in [Tracks -> Attempts]
    /\ queue \in Seq(Tracks) /\ pins \subseteq Tracks \X Nat
    /\ receipts \in [Tracks -> SUBSET Requests]
ProcessesTyped ==
    /\ head \in [through : Sessions, covered : Sessions]
    /\ cache \in [Workers -> [Tracks -> [head : Nat, fence : Nat]]]
    /\ worker \in [Workers -> Claims]
Step(t) ==
    /\ RowsTyped' /\ QueueSound' /\ PinsAgree' /\ ReceiptsFinite
    /\ Effect(t) /\ OthersSame(t)

LEMMA TypesSplit == TypeOK <=> RowsTyped /\ ProcessesTyped
BY DEF TypeOK, RowsTyped, ProcessesTyped

\* A step that leaves the queue and the receipts alone.
QueueKept == queue' = queue /\ receipts' = receipts

LEMMA KeptTables ==
    ASSUME TrackInv, QueueKept
    PROVE  /\ queue' \in Seq(Tracks) /\ receipts' \in [Tracks -> SUBSET Requests] 
           /\ QueueSound' /\ ReceiptsFinite
           /\ \A u : (Queued(u)' <=> Queued(u)) /\ receipts'[u] = receipts[u]
BY DEF TrackInv, TypeOK, QueueKept, QueueSound, ReceiptsFinite, Queued

LEMMA RowTrue == ASSUME TrackInv, NEW t \in Tracks PROVE TypeOK /\ PinsAgree /\ RowAt(t) /\ RowsOf(t)
BY DEF TrackInv, RowAt

LEMMA ActivateStep ==
    ASSUME TrackInv, NEW t \in Tracks, Activate(t)
    PROVE  Step(t)
<1>1. TypeOK /\ PinsAgree /\ RowsOf(t)
  BY RowTrue
<1>2. [session |-> 1, fence |-> 0, base |-> 0, covered |-> TRUE] \in Checkpoints
  BY DEF Checkpoints, Sessions
<1>3. QueueKept
  BY DEF Activate, QueueKept
<1>4. RowsTyped'
  <2>1. chain' \in [Tracks -> Seq(Checkpoints)]
    BY <1>1, <1>2 DEF TypeOK, Activate
  <2>2. status' \in [Tracks -> {"none", "stopped", "deleted"} \cup Alive]
    BY <1>1 DEF TypeOK, Activate, Alive
  <2> QED BY <1>1, <1>3, <2>1, <2>2, KeptTables DEF TypeOK, RowsTyped, Activate
<1>5. PinsAgree'
  BY <1>1, PinsUnchanged DEF Activate, Pinned
<1>6. Activated(t) /\ OthersSame(t)
  BY <1>1, <1>3, KeptTables DEF TypeOK, Activate, Activated, OthersSame, Same, QueuedFrom
<1> QED BY <1>3, <1>4, <1>5, <1>6, KeptTables DEF Step, Effect

LEMMA RefreshStep ==
    ASSUME TrackInv, NEW t \in Tracks, Refresh(t)
    PROVE  Step(t)
<1>1. TypeOK /\ PinsAgree /\ RowsOf(t) /\ QueueSound /\ \A u \in Tracks : IsFiniteSet(receipts[u])
  BY RowTrue DEF TrackInv
<1>2. /\ queue' \in Seq(Tracks) /\ QueueSound'
      /\ \A u : Queued(u)' <=> Queued(u) \/ u = t
  BY <1>1, AppendQueued DEF Refresh, TypeOK, QueueSound, Queued
<1>3. RowsTyped'
  BY <1>1, <1>2 DEF TypeOK, RowsTyped, Refresh
<1>4. PinsAgree'
  BY <1>1, PinsUnchanged DEF Refresh, Pinned
<1>5. Touched(t) /\ OthersSame(t) /\ ReceiptsFinite
  BY <1>1, <1>2 DEF Refresh, Touched, SamePlan, OthersSame, Same, QueuedFrom, ReceiptsFinite
<1> QED BY <1>2, <1>3, <1>4, <1>5 DEF Step, Effect

LEMMA RetryStep ==
    ASSUME TrackInv, NEW t \in Tracks, NEW q \in Requests, Retry(t, q)
    PROVE  Step(t)
<1>1. TypeOK /\ PinsAgree /\ RowsOf(t) /\ QueueSound /\ \A u \in Tracks : IsFiniteSet(receipts[u])
  BY RowTrue DEF TrackInv
<1>2. /\ status[t] = "blocked" /\ prog[t].status = "blocked" /\ prog[t] \in Progressions
      /\ ~ Queued(t) /\ prog \in [Tracks -> Progressions]
  BY <1>1 DEF Retry, RowsOf, TypeOK, Queued
<1>3. /\ receipts' \in [Tracks -> SUBSET Requests] /\ ReceiptsFinite
      /\ \A u \in Tracks : u # t => receipts'[u] = receipts[u]
      /\ receipts[t] \subseteq receipts'[t]
      /\ Cardinality(receipts'[t]) = Cardinality(receipts[t]) + 1
  <2>1. /\ receipts \in [Tracks -> SUBSET Requests] /\ q \notin receipts[t]
        /\ receipts' = [receipts EXCEPT ![t] = receipts[t] \cup {q}]
    BY <1>1 DEF Retry, NewRequest, TypeOK
  <2>2. /\ receipts' \in [Tracks -> SUBSET Requests] /\ receipts'[t] = receipts[t] \cup {q}
        /\ \A u \in Tracks : u # t => receipts'[u] = receipts[u]
    BY <2>1
  <2>3. /\ IsFiniteSet(receipts[t] \cup {q})
        /\ Cardinality(receipts[t] \cup {q}) = Cardinality(receipts[t]) + 1
    BY <1>1, <2>1, FS_AddElement
  <2>4. ReceiptsFinite
    BY <1>1, <2>2, <2>3 DEF ReceiptsFinite
  <2> QED BY <2>2, <2>3, <2>4
<1>4. CASE UNCHANGED <<prog, status, queue>>
  <2>1. RowsTyped'
    BY <1>1, <1>3, <1>4 DEF TypeOK, RowsTyped, Retry
  <2>2. PinsAgree'
    BY <1>1, PinsUnchanged DEF Retry, Pinned
  <2>3. Touched(t) /\ OthersSame(t) /\ QueueSound'
    BY <1>1, <1>3, <1>4 DEF Retry, Touched, SamePlan, OthersSame, Same, QueuedFrom, Queued, QueueSound
  <2> QED BY <1>3, <2>1, <2>2, <2>3 DEF Step, Effect
<1>5. CASE /\ prog' = [prog EXCEPT ![t].status = "running", ![t].cycle = @ + 1,
                                   ![t].used = 0, ![t].wait = "due"]
           /\ status' = [status EXCEPT ![t] = "active"]
           /\ queue' = Append(queue, t)
  <2>1. /\ queue' \in Seq(Tracks) /\ QueueSound'
        /\ \A u : Queued(u)' <=> Queued(u) \/ u = t
    BY <1>1, <1>2, <1>5, AppendQueued DEF TypeOK, QueueSound, Queued
  <2>2. /\ prog'[t].status = "running" /\ prog'[t].cycle = prog[t].cycle + 1
        /\ prog'[t].used = 0 /\ prog'[t].wait = "due" /\ SamePlan(t)
        /\ \A u \in Tracks : u # t => prog'[u] = prog[u]
    BY <1>2, <1>5 DEF SamePlan, Progressions
  <2>3. prog' \in [Tracks -> Progressions]
    <3> DEFINE p == [prog[t] EXCEPT !.status = "running", !.cycle = @ + 1,
                                    !.used = 0, !.wait = "due"]
    <3>1. p \in Progressions
      <4>1. prog[t].cycle + 1 \in Nat /\ 0 \in 0..MaxCycleAttempts /\ "running" \in Unresolved
        BY <1>2 DEF Progressions, Unresolved
      <4>2. p = [prog[t] EXCEPT !.status = "running", !.cycle = prog[t].cycle + 1,
                                !.used = 0, !.wait = "due"]
        BY <1>2
      <4> QED BY <1>2, <4>1, <4>2, ProgressionUpdated
    <3>2. prog' = [prog EXCEPT ![t] = p]
      BY <1>2, <1>5
    <3> QED BY <1>2, <3>1, <3>2
  <2>4. RowsTyped'
    BY <1>1, <1>3, <1>5, <2>1, <2>3 DEF TypeOK, RowsTyped, Retry, Alive
  <2>5. PinsAgree'
    BY <1>1, PinsUnchanged DEF Retry, Pinned
  <2>6. prog'[t].cycle <= prog[t].cycle + 1
    BY <1>2, <2>2 DEF Progressions
  <2>7. Resumed(t) /\ OthersSame(t)
    BY <1>1, <1>2, <1>3, <1>5, <2>1, <2>2, <2>6
    DEF Retry, Resumed, TypeOK, OthersSame, Same, QueuedFrom
  <2> QED BY <1>3, <2>1, <2>4, <2>5, <2>7 DEF Step, Effect
<1> QED BY <1>4, <1>5 DEF Retry

\* A command takes the track from the queue.
LEMMA TakenFromQueue ==
    ASSUME TrackInv, NEW t \in Tracks, queue' = Without(queue, t), receipts' = receipts
    PROVE  /\ queue' \in Seq(Tracks) /\ receipts' \in [Tracks -> SUBSET Requests]
           /\ QueueSound' /\ ReceiptsFinite
           /\ ~ Queued(t)' /\ \A u : QueuedFrom(u) /\ receipts'[u] = receipts[u]
<1>1. /\ queue \in Seq(Tracks) /\ IsInjective(queue) /\ \A u \in Tracks : IsFiniteSet(receipts[u])
      /\ receipts \in [Tracks -> SUBSET Requests]
  BY DEF TrackInv, TypeOK, QueueSound
<1>2. /\ queue' \in Seq(Tracks) /\ IsInjective(queue')
      /\ \A u : u \in Range(queue') <=> u \in Range(queue) /\ u # t
  BY <1>1, WithoutQueued
<1> QED BY <1>1, <1>2 DEF QueueSound, ReceiptsFinite, Queued, QueuedFrom

LEMMA StopIdleStep ==
    ASSUME TrackInv, NEW t \in Tracks, StopIdle(t)
    PROVE  Step(t)
<1>1. TypeOK /\ PinsAgree /\ RowsOf(t) /\ BudgetOf(t)
  BY RowTrue DEF RowAt
<1>2. /\ queue' \in Seq(Tracks) /\ receipts' \in [Tracks -> SUBSET Requests]
      /\ QueueSound' /\ ReceiptsFinite
      /\ ~ Queued(t)' /\ \A u : QueuedFrom(u) /\ receipts'[u] = receipts[u]
  BY TakenFromQueue DEF StopIdle
<1>3. /\ prog \in [Tracks -> Progressions] /\ prog[t] \in Progressions
      /\ status[t] \in {"active", "blocked"} /\ attempt[t].status # "running"
  BY <1>1 DEF TypeOK, StopIdle
<1>4. /\ prog' \in [Tracks -> Progressions] /\ prog'[t].status \notin Unresolved
      /\ prog'[t].cycle = prog[t].cycle /\ \A u \in Tracks : u # t => prog'[u] = prog[u]
  <2>1. CASE prog[t].status \in {"running", "blocked"}
    <3>1. prog' = [prog EXCEPT ![t].status = "cancelled", ![t].wait = "no"]
      BY <2>1 DEF StopIdle
    <3> QED BY <1>3, <3>1 DEF Progressions, Unresolved
  <2>2. CASE prog[t].status \notin {"running", "blocked"}
    <3>1. prog' = prog
      BY <2>2 DEF StopIdle
    <3> QED BY <1>1, <1>3, <2>2, <3>1 DEF RowsOf, Unresolved
  <2> QED BY <2>1, <2>2
<1>5. /\ fence' \in [Tracks -> Nat] /\ fence[t] <= fence'[t]
      /\ \A u \in Tracks : u # t => fence'[u] = fence[u]
  BY <1>1 DEF TypeOK, StopIdle
<1>6. /\ status' \in [Tracks -> {"none", "stopped", "deleted"} \cup Alive] /\ status'[t] = "stopped"
      /\ \A u \in Tracks : u # t => status'[u] = status[u]
  BY <1>1 DEF TypeOK, StopIdle, Alive
<1>7. RowsTyped'
  BY <1>1, <1>2, <1>4, <1>5, <1>6 DEF TypeOK, RowsTyped, StopIdle
<1>8. PinsAgree'
  BY <1>1, PinsUnchanged DEF StopIdle, Pinned
<1>9. attempt[t].status # "stopping"
  BY <1>1, <1>3 DEF RowsOf
<1>10. Stopped(t) /\ OthersSame(t)
  BY <1>2, <1>3, <1>4, <1>5, <1>6, <1>9 DEF StopIdle, Stopped, OthersSame, Same
<1> QED BY <1>2, <1>7, <1>8, <1>10 DEF Step, Effect

LEMMA StopRunningStep ==
    ASSUME TrackInv, NEW t \in Tracks, StopRunning(t)
    PROVE  Step(t)
<1>1. TypeOK /\ PinsAgree /\ RowsOf(t)
  BY RowTrue
<1>2. /\ queue' \in Seq(Tracks) /\ receipts' \in [Tracks -> SUBSET Requests]
      /\ QueueSound' /\ ReceiptsFinite
      /\ ~ Queued(t)' /\ \A u : QueuedFrom(u) /\ receipts'[u] = receipts[u]
  BY TakenFromQueue DEF StopRunning
<1>3. /\ prog \in [Tracks -> Progressions] /\ attempt \in [Tracks -> Attempts]
      /\ status \in [Tracks -> {"none", "stopped", "deleted"} \cup Alive] /\ fence \in [Tracks -> Nat]
      /\ prog[t] \in Progressions /\ attempt[t] \in Attempts
  BY <1>1 DEF TypeOK
<1>4. /\ prog' \in [Tracks -> Progressions] /\ prog'[t].status = "stopping"
      /\ prog'[t].cycle = prog[t].cycle /\ SamePlan(t)
      /\ \A u \in Tracks : u # t => prog'[u] = prog[u]
  BY <1>3 DEF StopRunning, SamePlan, Progressions, Unresolved
<1>5. /\ attempt' \in [Tracks -> Attempts] /\ attempt'[t].status = "stopping"
      /\ attempt'[t].fence = attempt[t].fence
      /\ \A u \in Tracks : u # t => attempt'[u] = attempt[u]
  BY <1>3 DEF StopRunning, Attempts
<1>6. /\ status' \in [Tracks -> {"none", "stopped", "deleted"} \cup Alive] /\ status'[t] = "stopping"
      /\ fence' \in [Tracks -> Nat] /\ fence'[t] = fence[t] + 1
      /\ \A u \in Tracks : u # t => status'[u] = status[u] /\ fence'[u] = fence[u]
  BY <1>3 DEF StopRunning, Alive
<1>7. RowsTyped'
  BY <1>1, <1>2, <1>4, <1>5, <1>6 DEF TypeOK, RowsTyped, StopRunning
<1>8. PinsAgree'
  BY <1>1, <1>5, PinsUnchanged DEF StopRunning, Pinned
<1>9. Halted(t) /\ OthersSame(t)
  BY <1>2, <1>4, <1>5, <1>6 DEF StopRunning, Halted, OthersSame, Same
<1> QED BY <1>2, <1>7, <1>8, <1>9 DEF Step, Effect

LEMMA DeleteStep ==
    ASSUME TrackInv, NEW t \in Tracks, Delete(t)
    PROVE  Step(t)
<1>1. TypeOK /\ PinsAgree /\ RowsOf(t)
  BY RowTrue
<1>2. /\ queue' = queue /\ status[t] = "stopped" /\ ~ Queued(t) /\ QueueSound
      /\ \A u \in Tracks : IsFiniteSet(receipts[u])
  BY <1>1 DEF Delete, RowsOf, Queued, TrackInv
<1>r. /\ receipts' \in [Tracks -> SUBSET Requests] /\ ReceiptsFinite
      /\ \A u \in Tracks : u # t => receipts'[u] = receipts[u]
  <2>1. /\ receipts' \in [Tracks -> SUBSET Requests] /\ receipts'[t] = {}
        /\ \A u \in Tracks : u # t => receipts'[u] = receipts[u]
    BY <1>1 DEF Delete, TypeOK
  <2> QED BY <1>2, <2>1, FS_EmptySet DEF ReceiptsFinite
<1>3. NoProgression \in Progressions /\ NoAttempt \in Attempts /\ <<>> \in Seq(Checkpoints)
  BY EmptySeq DEF NoProgression, Progressions, NoAttempt, Attempts
<1>4. /\ chain' \in [Tracks -> Seq(Checkpoints)] /\ prog' \in [Tracks -> Progressions]
      /\ attempt' \in [Tracks -> Attempts] /\ chain'[t] = <<>> /\ prog'[t] = NoProgression
      /\ attempt'[t] = NoAttempt
      /\ \A u \in Tracks : u # t =>
            chain'[u] = chain[u] /\ prog'[u] = prog[u] /\ attempt'[u] = attempt[u]
  BY <1>1, <1>3 DEF TypeOK, Delete
<1>5. /\ status' \in [Tracks -> {"none", "stopped", "deleted"} \cup Alive] /\ status'[t] = "deleted"
      /\ \A u \in Tracks : u # t => status'[u] = status[u]
  BY <1>1 DEF TypeOK, Delete
<1>6. RowsTyped'
  BY <1>1, <1>2, <1>r, <1>4, <1>5 DEF TypeOK, RowsTyped, Delete
<1>7. PinsAgree'
  <2>1. ~ Pinned(t) /\ ~ Pinned(t)'
    BY <1>1, <1>2, <1>4 DEF RowsOf, Pinned, NoAttempt
  <2> QED BY <1>1, <1>4, <2>1, PinsUnchanged DEF Delete, Pinned
<1>8. Removed(t) /\ OthersSame(t)
  BY <1>2, <1>r, <1>4, <1>5 DEF Delete, Removed, OthersSame, Same, QueuedFrom, Queued
<1>9. QueueSound'
  BY <1>2 DEF QueueSound
<1> QED BY <1>r, <1>6, <1>7, <1>8, <1>9 DEF Step, Effect

LEMMA MarkStoppedStep ==
    ASSUME TrackInv, NEW t \in Tracks, MarkStopped(t), status[t] = "stopping"
    PROVE  Step(t)
<1>1. TypeOK /\ PinsAgree /\ RowsOf(t)
  BY RowTrue
<1>2. QueueKept /\ ~ Queued(t)
  BY <1>1 DEF QueueKept, MarkStopped, RowsOf, Queued
<1>3. /\ prog \in [Tracks -> Progressions] /\ attempt \in [Tracks -> Attempts]
      /\ status \in [Tracks -> {"none", "stopped", "deleted"} \cup Alive] /\ fence[t] \in Nat
      /\ prog[t] \in Progressions /\ attempt[t] \in Attempts /\ pins \subseteq Tracks \X Nat
  BY <1>1 DEF TypeOK
<1>4. /\ prog' \in [Tracks -> Progressions] /\ prog'[t].status = "cancelled"
      /\ prog'[t].cycle = prog[t].cycle /\ \A u \in Tracks : u # t => prog'[u] = prog[u]
  BY <1>3 DEF MarkStopped, Progressions
<1>5. /\ attempt' \in [Tracks -> Attempts] /\ attempt'[t].status = "cancelled"
      /\ attempt'[t].fence = attempt[t].fence
      /\ \A u \in Tracks : u # t => attempt'[u] = attempt[u]
  BY <1>3 DEF MarkStopped, Attempts
<1>6. /\ status' \in [Tracks -> {"none", "stopped", "deleted"} \cup Alive] /\ status'[t] = "stopped"
      /\ \A u \in Tracks : u # t => status'[u] = status[u]
  BY <1>3 DEF MarkStopped
<1>7. RowsTyped'
  BY <1>1, <1>2, <1>3, <1>4, <1>5, <1>6, KeptTables DEF TypeOK, RowsTyped, MarkStopped, Unpin
<1>8. PinsAgree'
  BY <1>1, <1>5, PinReleased DEF MarkStopped, Unpin, Pinned
<1>9. Stopped(t) /\ OthersSame(t)
  BY <1>2, <1>3, <1>4, <1>5, <1>6, KeptTables
  DEF MarkStopped, Stopped, OthersSame, Same, QueuedFrom, Unresolved
<1> QED BY <1>2, <1>7, <1>8, <1>9, KeptTables DEF Step, Effect

LEMMA MarkFailedStep ==
    ASSUME TrackInv, NEW t \in Tracks, NEW why, NEW ord, MarkFailed(t, why, ord),
           status[t] = "active", attempt[t].status = "running", ord = prog[t].used
    PROVE  Step(t)
<1>1. TypeOK /\ PinsAgree /\ RowsOf(t)
  BY RowTrue
<1>2. QueueKept /\ ~ Queued(t) /\ prog[t].status = "running"
  BY <1>1 DEF QueueKept, MarkFailed, RowsOf, Queued
<1>3. /\ prog \in [Tracks -> Progressions] /\ attempt \in [Tracks -> Attempts]
      /\ status \in [Tracks -> {"none", "stopped", "deleted"} \cup Alive] /\ fence[t] \in Nat
      /\ prog[t] \in Progressions /\ attempt[t] \in Attempts /\ pins \subseteq Tracks \X Nat
  BY <1>1 DEF TypeOK
<1>4. /\ attempt' \in [Tracks -> Attempts] /\ attempt'[t].status = "failed"
      /\ attempt'[t].fence = attempt[t].fence
      /\ \A u \in Tracks : u # t => attempt'[u] = attempt[u]
  BY <1>3 DEF MarkFailed, Attempts
<1>5. PinsAgree'
  BY <1>1, <1>4, PinReleased DEF MarkFailed, Unpin, Pinned
<1>6. CASE RetryEligible(why, ord)
  <2>1. prog' = [prog EXCEPT ![t].wait = "waiting"] /\ status' = status
    BY <1>6 DEF MarkFailed
  <2>2. /\ prog' \in [Tracks -> Progressions] /\ prog'[t].status = prog[t].status
        /\ prog'[t].wait = "waiting" /\ prog'[t].used = prog[t].used /\ SamePlan(t)
        /\ prog'[t].cycle = prog[t].cycle /\ \A u \in Tracks : u # t => prog'[u] = prog[u]
    BY <1>3, <2>1 DEF SamePlan, Progressions
  <2>3. RowsTyped'
    BY <1>1, <1>2, <1>3, <1>4, <2>1, <2>2, KeptTables DEF TypeOK, RowsTyped, MarkFailed, Unpin
  <2>4. Failed(t) /\ OthersSame(t)
    BY <1>2, <1>4, <1>6, <2>1, <2>2, KeptTables
    DEF MarkFailed, RetryEligible, Failed, OthersSame, Same, QueuedFrom
  <2> QED BY <1>2, <1>5, <2>3, <2>4, KeptTables DEF Step, Effect
<1>7. CASE ~ RetryEligible(why, ord)
  <2>1. /\ prog' = [prog EXCEPT ![t].status = "blocked", ![t].wait = "no"]
        /\ status' = [status EXCEPT ![t] = "blocked"]
    BY <1>7 DEF MarkFailed
  <2>2. /\ prog' \in [Tracks -> Progressions] /\ prog'[t].status = "blocked" /\ SamePlan(t)
        /\ prog'[t].cycle = prog[t].cycle /\ \A u \in Tracks : u # t => prog'[u] = prog[u]
    BY <1>3, <2>1 DEF SamePlan, Progressions, Unresolved
  <2>3. /\ status' \in [Tracks -> {"none", "stopped", "deleted"} \cup Alive]
        /\ status'[t] = "blocked" /\ \A u \in Tracks : u # t => status'[u] = status[u]
    BY <1>3, <2>1 DEF Alive
  <2>4. RowsTyped'
    BY <1>1, <1>2, <1>3, <1>4, <2>2, <2>3, KeptTables DEF TypeOK, RowsTyped, MarkFailed, Unpin
  <2>5. Blocked(t) /\ OthersSame(t)
    BY <1>2, <1>4, <2>2, <2>3, KeptTables
    DEF MarkFailed, Blocked, PlanKept, OthersSame, Same, QueuedFrom
  <2> QED BY <1>2, <1>5, <2>4, <2>5, KeptTables DEF Step, Effect
<1> QED BY <1>6, <1>7

\* A lease is renewed or lapses.
LEMMA LeaseStep ==
    ASSUME TrackInv, NEW t \in Tracks, NEW l \in {"live", "expired"},
           attempt' = [attempt EXCEPT ![t].lease = l],
           UNCHANGED <<status, fence, chain, prog, queue, pins, receipts>>
    PROVE  Step(t)
<1>1. TypeOK /\ PinsAgree /\ attempt \in [Tracks -> Attempts] /\ attempt[t] \in Attempts
  BY RowTrue DEF TypeOK
<1>2. QueueKept
  BY DEF QueueKept
<1>3. /\ attempt' \in [Tracks -> Attempts] /\ attempt'[t].status = attempt[t].status
      /\ attempt'[t].fence = attempt[t].fence
      /\ \A u \in Tracks : u # t => attempt'[u] = attempt[u]
  BY <1>1 DEF Attempts
<1>4. RowsTyped'
  BY <1>1, <1>2, <1>3, KeptTables DEF TypeOK, RowsTyped
<1>5. PinsAgree'
  BY <1>1, <1>3, PinsUnchanged DEF Pinned
<1>6. Touched(t) /\ OthersSame(t)
  BY <1>2, <1>3, KeptTables DEF Touched, SamePlan, OthersSame, Same, QueuedFrom
<1> QED BY <1>2, <1>4, <1>5, <1>6, KeptTables DEF Step, Effect

LEMMA RetryFallsDueStep ==
    ASSUME TrackInv, NEW t \in Tracks, RetryFallsDue(t)
    PROVE  Step(t)
<1>1. TypeOK /\ PinsAgree /\ prog \in [Tracks -> Progressions] /\ prog[t] \in Progressions
  BY RowTrue DEF TypeOK
<1>2. QueueKept
  BY DEF QueueKept, RetryFallsDue
<1>3. /\ prog' \in [Tracks -> Progressions] /\ prog'[t].status = prog[t].status
      /\ prog'[t].cycle = prog[t].cycle /\ prog'[t].used = prog[t].used /\ SamePlan(t)
      /\ prog'[t].wait = "due" /\ \A u \in Tracks : u # t => prog'[u] = prog[u]
  BY <1>1 DEF RetryFallsDue, SamePlan, Progressions
<1>4. RowsTyped'
  BY <1>1, <1>2, <1>3, KeptTables DEF TypeOK, RowsTyped, RetryFallsDue
<1>5. PinsAgree'
  BY <1>1, PinsUnchanged DEF RetryFallsDue, Pinned
<1>6. Touched(t) /\ OthersSame(t)
  BY <1>2, <1>3, KeptTables DEF RetryFallsDue, Touched, OthersSame, Same, QueuedFrom
<1> QED BY <1>2, <1>4, <1>5, <1>6, KeptTables DEF Step, Effect

-----------------------------------------------------------------------------
(* The claim transaction *)

LEMMA ClaimedFromQueue ==
    ASSUME TrackInv, NEW q \in Promoted, NEW i \in DOMAIN q,
           queue' = Without(q, q[i]), receipts' = receipts
    PROVE  /\ q[i] \in Tracks /\ queue' \in Seq(Tracks) /\ receipts' \in [Tracks -> SUBSET Requests]
           /\ QueueSound' /\ ReceiptsFinite /\ ~ Queued(q[i])'
           /\ \A u : QueuedFrom(u) /\ receipts'[u] = receipts[u]
<1>1. /\ TypeOK /\ QueueSound /\ \A u \in Tracks : IsFiniteSet(receipts[u])
      /\ receipts \in [Tracks -> SUBSET Requests]
  BY DEF TrackInv, TypeOK
<1>2. /\ q \in Seq(Tracks) /\ IsInjective(q)
      /\ \A u : u \in Range(q) => u \in Range(queue) \cup Promotable
  BY <1>1, PromotedQueue
<1>3. q[i] \in Tracks
  BY <1>2, ElementOfSeq, LenProperties
<1>4. /\ queue' \in Seq(Tracks) /\ IsInjective(queue')
      /\ \A u : u \in Range(queue') <=> u \in Range(q) /\ u # q[i]
  BY <1>2, <1>3, WithoutQueued
<1> QED BY <1>1, <1>2, <1>3, <1>4 DEF QueueSound, ReceiptsFinite, Queued, QueuedFrom

\* A new target lies between the next session and the end of the dataset that was read.
LEMMA TargetReached ==
    ASSUME NEW t \in Tracks, NEW data \in [through : Sessions, covered : Sessions],
           NEW fits \in Nat, Boundary(t) \in Nat, Boundary(t) < data.through
    PROVE  /\ TargetEnd(t, data, fits) \in Int
           /\ Boundary(t) + 1 <= TargetEnd(t, data, fits)
           /\ TargetEnd(t, data, fits) <= data.through
<1>1. data.through \in Nat /\ data.covered \in Nat
  BY DEF Sessions
<1> QED BY <1>1 DEF TargetEnd, Smallest

LEMMA BoundaryTrue ==
    ASSUME TypeOK, NEW t \in Tracks, HistoryOf(t), status[t] = "active"
    PROVE  Boundary(t) \in Nat
<1>1. chain[t] # <<>> /\ chain[t] \in Seq(Checkpoints)
  BY RowTypes DEF HistoryOf, Alive
<1>2. Len(chain[t]) \in 1..Len(chain[t])
  BY <1>1, EmptySeq, LenProperties
<1> QED BY <1>2, RowTypes DEF Boundary, Last

LEMMA PlannedSound ==
    ASSUME TrackInv, NEW t \in Tracks, NEW data \in [through : Sessions, covered : Sessions],
           NEW fits \in Nat, Claimable(t, data), NEW p, p = Planned(t, data, fits)
    PROVE  /\ p \in Progressions /\ p.used \in Nat /\ p.used < MaxCycleAttempts
           /\ \/ prog[t].status = "running" /\ p = prog[t]
              \/ /\ prog[t].status # "running"
                 /\ p.pred = Len(chain[t]) /\ p.from = Boundary(t) + 1
                 /\ p.from <= p.end /\ p.cycle <= 1
<1>1. /\ TypeOK /\ RowAt(t) /\ status[t] = "active" /\ attempt[t].status # "running"
      /\ Boundary(t) < data.through
  BY DEF TrackInv, Claimable
<1>2. CASE prog[t].status = "running"
  <2>1. p = prog[t] /\ prog[t].used < MaxCycleAttempts
    BY <1>1, <1>2 DEF Planned, RowAt, BudgetOf
  <2> QED BY <1>1, <1>2, <2>1, RowTypes
<1>3. CASE prog[t].status # "running"
  <2>1. p = NewProgression(t, data, fits)
    BY <1>3 DEF Planned
  <2>2. Boundary(t) \in Nat /\ Len(chain[t]) \in Nat
    BY <1>1, BoundaryTrue, RowTypes DEF RowAt
  <2> DEFINE e == TargetEnd(t, data, fits)
             b == Boundary(t)
             n == Len(chain[t])
             c == IF fits = 0 THEN 0 ELSE 1
             v == IF fits = 0 THEN "no" ELSE "due"
  <2>3. e \in Int /\ b + 1 <= e /\ e <= data.through
    BY <1>1, <2>2, TargetReached
  <2>4. p = [status |-> "running", pred |-> n, from |-> b + 1, end |-> e,
             cycle |-> c, used |-> 0, wait |-> v]
    BY <2>1 DEF NewProgression, NoProgression
  <2>5. b \in Nat /\ n \in Nat /\ c \in Nat /\ c <= 1 /\ data.through \in Nat
        /\ data.through <= MaxSession /\ v \in {"no", "waiting", "due"}
    BY <2>2 DEF Sessions
  <2> HIDE DEF e, b, n, c, v
  <2>6. b + 1 \in 0..MaxSession /\ e \in 0..MaxSession
    BY <2>3, <2>5
  <2>7. p \in Progressions
    BY <2>4, <2>5, <2>6 DEF Progressions, Unresolved
  <2>8. p.used = 0 /\ p.pred = n /\ p.from = b + 1 /\ p.end = e /\ p.cycle = c
    BY <2>4
  <2> QED BY <1>3, <2>3, <2>5, <2>7, <2>8 DEF b, n
<1> QED BY <1>2, <1>3

LEMMA RowWritten ==
    ASSUME NEW S, NEW T, NEW f \in [S -> T], NEW x \in S, NEW v \in T, NEW g,
           g = [f EXCEPT ![x] = v]
    PROVE  g \in [S -> T] /\ g[x] = v /\ \A y \in S : y # x => g[y] = f[y]
OBVIOUS

LEMMA BlockStep ==
    ASSUME TrackInv, NEW q \in Promoted, NEW i \in DOMAIN q, NEW t, t = q[i],
           NEW data \in [through : Sessions, covered : Sessions], NEW fits \in Nat,
           Claimable(t, data), queue' = Without(q, t), receipts' = receipts,
           prog' = [prog EXCEPT ![t] = [Planned(t, data, fits) EXCEPT !.status = "blocked"]],
           status' = [status EXCEPT ![t] = "blocked"],
           UNCHANGED <<fence, chain, attempt, pins>>
    PROVE  t \in Tracks /\ Step(t)
<1>1. /\ t \in Tracks /\ queue' \in Seq(Tracks) /\ receipts' \in [Tracks -> SUBSET Requests]
      /\ QueueSound' /\ ReceiptsFinite /\ ~ Queued(t)'
      /\ \A u : QueuedFrom(u) /\ receipts'[u] = receipts[u]
  BY ClaimedFromQueue
<1>2. TypeOK /\ PinsAgree /\ RowsOf(t) /\ prog \in [Tracks -> Progressions]
      /\ status \in [Tracks -> {"none", "stopped", "deleted"} \cup Alive]
      /\ status[t] = "active" /\ attempt[t].status # "running"
  BY <1>1, RowTrue DEF TypeOK, Claimable
<1> DEFINE p == Planned(t, data, fits)
<1>3. /\ p \in Progressions
      /\ \/ prog[t].status = "running" /\ p = prog[t]
         \/ /\ prog[t].status # "running"
            /\ p.pred = Len(chain[t]) /\ p.from = Boundary(t) + 1
            /\ p.from <= p.end /\ p.cycle <= 1
  BY <1>1, PlannedSound
<1>4. prog' = [prog EXCEPT ![t] = [p EXCEPT !.status = "blocked"]]
  OBVIOUS
<1> HIDE DEF p
<1> DEFINE r == [p EXCEPT !.status = "blocked"]
<1>r. /\ r \in Progressions /\ r.status = "blocked" /\ r.pred = p.pred
      /\ r.from = p.from /\ r.end = p.end /\ r.cycle = p.cycle
  BY <1>3 DEF Progressions, Unresolved
<1> HIDE DEF r
<1>w. prog' \in [Tracks -> Progressions] /\ prog'[t] = r /\ \A u \in Tracks : u # t => prog'[u] = prog[u]
  <2>1. prog' = [prog EXCEPT ![t] = r]
    BY <1>4 DEF r
  <2>2. t \in Tracks /\ prog \in [Tracks -> Progressions] /\ r \in Progressions
    BY <1>1, <1>2, <1>r
  <2> QED BY <2>1, <2>2, RowWritten
<1>5. /\ prog' \in [Tracks -> Progressions] /\ prog'[t].status = "blocked"
      /\ prog'[t].pred = p.pred /\ prog'[t].from = p.from /\ prog'[t].end = p.end
      /\ prog'[t].cycle = p.cycle /\ \A u \in Tracks : u # t => prog'[u] = prog[u]
  BY <1>r, <1>w
<1>6. PlanKept(t)
  BY <1>3, <1>5 DEF PlanKept, SamePlan
<1>7. /\ status' \in [Tracks -> {"none", "stopped", "deleted"} \cup Alive]
      /\ status'[t] = "blocked" /\ \A u \in Tracks : u # t => status'[u] = status[u]
  BY <1>1, <1>2 DEF Alive
<1>8. RowsTyped'
  BY <1>1, <1>2, <1>5, <1>7 DEF TypeOK, RowsTyped
<1>9. PinsAgree'
  BY <1>2, PinsUnchanged DEF Pinned
<1>10. Blocked(t)
  BY <1>1, <1>2, <1>5, <1>6, <1>7 DEF Blocked, RowsOf
<1>11. OthersSame(t)
  BY <1>1, <1>5, <1>7 DEF OthersSame, Same
<1> QED BY <1>1, <1>8, <1>9, <1>10, <1>11 DEF Step, Effect

LEMMA StartStep ==
    ASSUME TrackInv, NEW w \in Workers, NEW q \in Promoted, NEW i \in DOMAIN q,
           NEW fits \in Nat, NEW t, t = q[i],
           worker[w].data \in [through : Sessions, covered : Sessions],
           Claimable(t, worker[w].data), queue' = Without(q, t), UNCHANGED <<chain, receipts>>,
           NEW p, p = Planned(t, worker[w].data, fits), StartAttempt(w, t, p, fence[t] + 1)
    PROVE  /\ t \in Tracks /\ Step(t)
           /\ fence'[t] = fence[t] + 1 /\ prog'[t].used = p.used + 1
           /\ p.used + 1 \in 0..MaxCycleAttempts
<1> DEFINE data == worker[w].data
<1>r. PICK r : r = [p EXCEPT !.used = @ + 1]
  OBVIOUS
<1>a. /\ prog' = [prog EXCEPT ![t] = r]
      /\ attempt' = [attempt EXCEPT ![t] =
                       [status |-> "running", fence |-> fence[t] + 1, lease |-> "live"]]
      /\ fence' = [fence EXCEPT ![t] = fence[t] + 1]
      /\ pins' = pins \cup {<<t, fence[t] + 1>>} /\ UNCHANGED status
  BY <1>r DEF StartAttempt
<1>1. /\ t \in Tracks /\ queue' \in Seq(Tracks) /\ receipts' \in [Tracks -> SUBSET Requests]
      /\ QueueSound' /\ ReceiptsFinite /\ ~ Queued(t)'
      /\ \A u : QueuedFrom(u) /\ receipts'[u] = receipts[u]
  BY ClaimedFromQueue
<1>2. /\ TypeOK /\ PinsAgree /\ RowsOf(t) /\ prog \in [Tracks -> Progressions]
      /\ attempt \in [Tracks -> Attempts] /\ fence \in [Tracks -> Nat] /\ fence[t] \in Nat
      /\ pins \subseteq Tracks \X Nat
      /\ status[t] = "active" /\ attempt[t].status # "running"
  BY <1>1, RowTrue DEF TypeOK, Claimable
<1>3. /\ p \in Progressions /\ p.used \in Nat /\ p.used < MaxCycleAttempts
      /\ \/ prog[t].status = "running" /\ p = prog[t]
         \/ /\ prog[t].status # "running"
            /\ p.pred = Len(chain[t]) /\ p.from = Boundary(t) + 1
            /\ p.from <= p.end /\ p.cycle <= 1
  BY <1>1, PlannedSound
<1>4. p.used + 1 \in 0..MaxCycleAttempts
  BY <1>3
<1>s. p.status = "running"
  BY DEF Planned, NewProgression, NoProgression
<1>5. /\ r \in Progressions /\ r.status = "running" /\ r.used = p.used + 1
      /\ r.pred = p.pred /\ r.from = p.from /\ r.end = p.end /\ r.cycle = p.cycle
  <2>1. r = [p EXCEPT !.used = p.used + 1]
    BY <1>3, <1>r
  <2> QED BY <1>3, <1>4, <1>s, <2>1 DEF Progressions
<1>7. /\ prog' \in [Tracks -> Progressions] /\ prog'[t] = r
      /\ \A u \in Tracks : u # t => prog'[u] = prog[u]
  BY <1>1, <1>2, <1>5, <1>a, RowWritten
<1>8. PlanKept(t)
  BY <1>3, <1>5, <1>7 DEF PlanKept, SamePlan
<1>9. /\ attempt' \in [Tracks -> Attempts] /\ attempt'[t].status = "running"
      /\ attempt'[t].fence = fence[t] + 1 /\ \A u \in Tracks : u # t => attempt'[u] = attempt[u]
  BY <1>1, <1>2, <1>a DEF Attempts
<1>10. /\ fence' \in [Tracks -> Nat] /\ fence'[t] = fence[t] + 1
       /\ pins' \subseteq Tracks \X Nat /\ \A u \in Tracks : u # t => fence'[u] = fence[u]
  BY <1>1, <1>2, <1>a
<1>11. RowsTyped'
  BY <1>1, <1>2, <1>7, <1>9, <1>10, <1>a DEF TypeOK, RowsTyped
<1>12. PinsAgree'
  <2>1. ~ Pinned(t) /\ Pinned(t)'
    BY <1>2, <1>9 DEF Pinned, RowsOf
  <2> QED BY <1>1, <1>2, <1>9, <1>a, <2>1, PinTaken
<1>13. Started(t) /\ OthersSame(t)
  BY <1>1, <1>2, <1>5, <1>7, <1>8, <1>9, <1>10, <1>a DEF Started, OthersSame, Same
<1> QED BY <1>1, <1>4, <1>5, <1>7, <1>10, <1>11, <1>12, <1>13 DEF Step, Effect

-----------------------------------------------------------------------------
(* Publication, and steps that change no row *)

LEMMA ClaimTypes ==
    ASSUME TypeOK, NEW w \in Workers
    PROVE  /\ worker[w] \in Claims /\ worker[w].t \in Tracks
           /\ worker[w].fence \in Nat /\ worker[w].pred \in Nat
           /\ worker[w].ord \in Nat /\ worker[w].base \in Nat
<1>1. worker[w] \in Claims
  BY DEF TypeOK
<1> QED BY <1>1 DEF Claims

LEMMA PublishStep ==
    ASSUME TrackInv, NEW w \in Workers, NEW c, c = worker[w], At(w, "prepared"), MayPublish(c),
           chain' = [chain EXCEPT ![c.t] = Append(@,
               [session |-> prog[c.t].end, fence |-> c.fence, base |-> c.base,
                covered |-> c.covered])],
           attempt' = [attempt EXCEPT ![c.t].status = "succeeded"],
           prog' = [prog EXCEPT ![c.t].status = "succeeded", ![c.t].wait = "no"],
           Unpin(c.t, c.fence), UNCHANGED <<status, fence, queue, receipts>>
    PROVE  c.t \in Tracks /\ Step(c.t)
<1> DEFINE t == c.t
<1>1. /\ TypeOK /\ t \in Tracks /\ c.fence \in Nat /\ c.base \in Nat
      /\ c.covered /\ c.base \in {0, c.pred}
  <2>1. TypeOK /\ ClaimAt(w)
    BY DEF TrackInv
  <2>2. c.t \in Tracks /\ c.fence \in Nat /\ c.base \in Nat
    BY <2>1, ClaimTypes
  <2> QED BY <2>1, <2>2 DEF ClaimAt, At, Calculated
<1>2. /\ attempt[t].fence = c.fence /\ Len(chain[t]) = c.pred
      /\ status[t] = "active" /\ fence[t] = c.fence
      /\ prog[t].status = "running" /\ attempt[t].status = "running"
  BY DEF MayPublish, Authorized, Named
<1>3. /\ PinsAgree /\ RowsOf(t) /\ RowAt(t)
      /\ prog \in [Tracks -> Progressions] /\ attempt \in [Tracks -> Attempts]
      /\ chain \in [Tracks -> Seq(Checkpoints)] /\ pins \subseteq Tracks \X Nat
      /\ prog[t] \in Progressions /\ attempt[t] \in Attempts /\ chain[t] \in Seq(Checkpoints)
  <2>1. PinsAgree /\ RowsOf(t) /\ RowAt(t)
    BY <1>1, RowTrue
  <2> QED BY <1>1, <2>1 DEF TypeOK
<1>4. QueueKept /\ ~ Queued(t)
  BY <1>2, <1>3 DEF QueueKept, RowsOf, Queued
<1>5. prog[t].end \in Sessions
  <2>1. Boundary(t) < prog[t].from /\ prog[t].from <= prog[t].end
    BY <1>2, <1>3 DEF RowAt, PlanOf, Unresolved
  <2>2. Boundary(t) \in Nat
    BY <1>1, <1>2, <1>3, BoundaryTrue DEF RowAt
  <2>3. prog[t].from \in 0..MaxSession /\ prog[t].end \in 0..MaxSession
    BY <1>3 DEF Progressions
  <2> QED BY <2>1, <2>2, <2>3 DEF Sessions
<1> DEFINE e == [session |-> prog[t].end, fence |-> attempt[t].fence, base |-> c.base,
                 covered |-> TRUE]
<1>6. e \in Checkpoints
  BY <1>1, <1>2, <1>5 DEF Checkpoints
<1>7. chain' = [chain EXCEPT ![t] = Append(chain[t], e)]
  <2>1. c.covered = TRUE
    BY <1>1, ClaimTypes DEF Claims
  <2> QED BY <1>1, <1>2, <1>3, <2>1
<1> HIDE DEF e
<1>8. /\ chain' \in [Tracks -> Seq(Checkpoints)] /\ chain'[t] = Append(chain[t], e)
      /\ \A u \in Tracks : u # t => chain'[u] = chain[u]
  <2>1. Append(chain[t], e) \in Seq(Checkpoints)
    BY <1>3, <1>6, AppendProperties
  <2> QED BY <1>1, <1>3, <1>7, <2>1, RowWritten
<1>9. /\ prog' \in [Tracks -> Progressions] /\ prog'[t].status = "succeeded"
      /\ prog'[t].cycle = prog[t].cycle /\ \A u \in Tracks : u # t => prog'[u] = prog[u]
  BY <1>1, <1>3 DEF Progressions
<1>10. /\ attempt' \in [Tracks -> Attempts] /\ attempt'[t].status = "succeeded"
       /\ attempt'[t].fence = attempt[t].fence
       /\ \A u \in Tracks : u # t => attempt'[u] = attempt[u]
  BY <1>1, <1>3 DEF Attempts
<1>11. RowsTyped'
  BY <1>1, <1>3, <1>4, <1>8, <1>9, <1>10, KeptTables DEF TypeOK, RowsTyped, Unpin
<1>12. PinsAgree'
  BY <1>1, <1>2, <1>3, <1>10, PinReleased DEF Unpin, Pinned
<1>13. Published(t)
  <2>1. c.base \in {0, Len(chain[t])}
    BY <1>1, <1>2
  <2>2. chain'[t] = Append(chain[t], [session |-> prog[t].end, fence |-> attempt[t].fence,
                                      base |-> c.base, covered |-> TRUE])
    BY <1>8 DEF e
  <2>3. ~ Queued(t)'
    BY <1>4, KeptTables
  <2> QED BY <1>1, <1>2, <1>9, <1>10, <2>1, <2>2, <2>3 DEF Published
<1>14. OthersSame(t)
  BY <1>4, <1>8, <1>9, <1>10, KeptTables DEF OthersSame, Same, QueuedFrom
<1> QED BY <1>1, <1>4, <1>11, <1>12, <1>13, <1>14, KeptTables DEF Step, Effect

\* No row of a track changes; promoted progressions may take their place in the queue.
Still ==
    /\ RowsTyped' /\ QueueSound' /\ PinsAgree' /\ ReceiptsFinite
    /\ \A u \in Tracks : Same(u)

LEMMA UnchangedRows ==
    ASSUME TrackInv, UNCHANGED <<status, fence, chain, prog, attempt, queue, receipts>>,
           pins' \subseteq pins, pins \subseteq pins'
    PROVE  Still
<1>1. TypeOK /\ PinsAgree /\ QueueKept /\ pins' = pins
  BY DEF TrackInv, QueueKept
<1>2. RowsTyped'
  BY <1>1 DEF TypeOK, RowsTyped
<1>3. PinsAgree'
  BY <1>1, PinsUnchanged DEF Pinned
<1> QED BY <1>1, <1>2, <1>3, KeptTables DEF Still, Same, QueuedFrom

LEMMA ClaimNothingStep ==
    ASSUME TrackInv, NEW w \in Workers, ClaimNothing(w)
    PROVE  Still
<1>1. TypeOK /\ PinsAgree /\ QueueSound /\ \A u \in Tracks : IsFiniteSet(receipts[u])
  BY DEF TrackInv
<1>2. queue' \in Promoted
  BY DEF ClaimNothing
<1>3. /\ queue' \in Seq(Tracks) /\ QueueSound' /\ \A u : QueuedFrom(u)
  BY <1>1, <1>2, PromotedQueue DEF QueueSound, QueuedFrom, Queued
<1>4. RowsTyped'
  BY <1>1, <1>3 DEF TypeOK, RowsTyped, ClaimNothing
<1>5. PinsAgree'
  BY <1>1, PinsUnchanged DEF ClaimNothing, Pinned
<1> QED BY <1>1, <1>3, <1>4, <1>5 DEF Still, Same, ReceiptsFinite, ClaimNothing

\* An attempt that was cancelled has no pin left to release.
LEMMA NothingReleased ==
    ASSUME TrackInv, NEW w \in Workers, ReleaseCancelledPin(w)
    PROVE  pins' = pins
<1>1. worker[w].t \in Tracks /\ PinsAgree
  BY ClaimTypes DEF TrackInv
<1>2. ASSUME Named(worker[w]), attempt[worker[w].t].status = "cancelled"
      PROVE  <<worker[w].t, worker[w].fence>> \notin pins
  BY <1>1, <1>2 DEF PinsAgree, Named
<1> QED BY <1>2 DEF ReleaseCancelledPin

Rows == Still \/ \E t \in Tracks : Step(t)

LEMMA ClaimRows ==
    ASSUME TrackInv, NEW w \in Workers, Claim(w)
    PROVE  Rows
<1> DEFINE data == worker[w].data
<1>1. data \in [through : Sessions, covered : Sessions] /\ \A fits \in 0..MaxFits : fits \in Nat
  BY ClaimTypes DEF TrackInv, Claims
<1>2. PICK q \in Promoted, fits \in 0..MaxFits : \E i \in DOMAIN q :
          /\ FirstClaimable(q, i, data) /\ ProgressionIntact(q[i]) /\ queue' = Without(q, q[i])
          /\ ClaimTarget(w, q[i], Planned(q[i], data, fits), fits)
  BY Zenon DEF Claim
<1>3. PICK i \in DOMAIN q :
          /\ FirstClaimable(q, i, data) /\ ProgressionIntact(q[i]) /\ queue' = Without(q, q[i])
          /\ ClaimTarget(w, q[i], Planned(q[i], data, fits), fits)
  BY <1>2
<1> DEFINE t == q[i]
           p == Planned(t, data, fits)
<1>4. Claimable(t, data) /\ queue' = Without(q, t) /\ UNCHANGED <<chain, receipts>>
  BY <1>3 DEF FirstClaimable, Claim
<1>5. CASE BlockTarget(w, t, p)
  <2>1. t \in Tracks /\ Step(t)
    BY <1>1, <1>4, <1>5, BlockStep DEF BlockTarget
  <2> QED BY <2>1 DEF Rows
<1>6. CASE StartAttempt(w, t, p, fence[t] + 1)
  <2>1. t \in Tracks /\ Step(t)
    BY <1>1, <1>4, <1>6, StartStep
  <2> QED BY <2>1 DEF Rows
<1> QED BY <1>3, <1>5, <1>6 DEF ClaimTarget

LEMMA NextRows ==
    ASSUME TrackInv, [Next]_vars
    PROVE  Rows
<1>0. TypeOK /\ (\A t \in Tracks : RowsOf(t)) /\ (\A v \in Workers : ClaimAt(v))
  BY DEF TrackInv, RowAt
<1>1. CASE UNCHANGED dbVars
  BY <1>1, UnchangedRows DEF dbVars, Rows
<1>2. CASE MoveHead
  BY <1>1, <1>2 DEF MoveHead
<1>3. CASE Command
  BY <1>3, ActivateStep, RefreshStep, StopIdleStep, StopRunningStep, DeleteStep, RetryStep
  DEF Command, Rows
<1>4. ASSUME NEW w \in Workers, RecoverStops(w) PROVE Rows
  <2>1. CASE InspectPins(w)
    <3>1. PICK p \in worker[w].todo :
            RecoverStoppingAttempt(w, p[1], p[2]) \/ SkipPin(w, p[1], p[2])
      BY <2>1 DEF InspectPins
    <3>2. p[1] \in Tracks
      BY <1>0, ClaimTypes DEF Claims
    <3>3. CASE RecoverStoppingAttempt(w, p[1], p[2])
      <4>1. MarkStopped(p[1]) /\ status[p[1]] = "stopping"
        BY <3>3 DEF RecoverStoppingAttempt, RecoverableStop
      <4> QED BY <3>2, <4>1, MarkStoppedStep DEF Rows
    <3>4. CASE SkipPin(w, p[1], p[2])
      BY <1>1, <3>4 DEF SkipPin
    <3> QED BY <3>1, <3>3, <3>4
  <2> QED BY <1>1, <1>4, <2>1 DEF RecoverStops, ReadPins
<1>5. ASSUME NEW w \in Workers, RecoverLosses(w) PROVE Rows
  <2>1. worker[w].t \in Tracks
    BY <1>0, ClaimTypes
  <2>2. CASE UNCHANGED dbVars
    BY <1>1, <2>2
  <2>3. CASE /\ MarkFailed(worker[w].t, "retryable", prog[worker[w].t].used)
             /\ Expired(worker[w].t)
    <3>1. status[worker[w].t] = "active" /\ attempt[worker[w].t].status = "running"
      BY <2>3 DEF Expired
    <3> QED BY <2>1, <2>3, <3>1, MarkFailedStep DEF Rows
  <2> QED BY <1>5, <2>2, <2>3 DEF RecoverLosses, ReadExpired, RecoverExpired
<1>6. ASSUME NEW w \in Workers, ReadHead(w) PROVE Rows
  BY <1>1, <1>6 DEF ReadHead
<1>7. ASSUME NEW w \in Workers, TakeWork(w) PROVE Rows
  BY <1>1, <1>7, ClaimRows, ClaimNothingStep DEF TakeWork, ClaimRaises, Rows
<1>8. ASSUME NEW w \in Workers, Advance(w) PROVE Rows
  <2>1. CASE PublishCheckpoint(w)
    <3>1. worker[w].t \in Tracks /\ Step(worker[w].t)
      BY <2>1, PublishStep DEF PublishCheckpoint
    <3> QED BY <3>1 DEF Rows
  <2>2. CASE ~ PublishCheckpoint(w)
    BY <1>1, <1>8, <2>2
    DEF Advance, AcquireOwnerLock, CoverageMissing, LoadCache, Calculate, RecordProgress,
        ExecutionFails, ExecutionCancelled, Publish, PublicationRefused, StoreCache,
        CheckCacheBasis
  <2> QED BY <2>1, <2>2
<1>9. ASSUME NEW w \in Workers, Finish(w) PROVE Rows
  <2>1. CASE ConfirmStopped(w)
    <3>1. CASE StopPending(worker[w])
      BY <1>0, <2>1, <3>1, MarkStoppedStep, ClaimTypes DEF ConfirmStopped, StopPending, Rows
    <3>2. CASE ~ StopPending(worker[w])
      BY <1>1, <2>1, <3>2 DEF ConfirmStopped
    <3> QED BY <3>1, <3>2
  <2>2. CASE ObserveStop(w) \/ EndPoll(w)
    BY <1>1, <2>2 DEF ObserveStop, EndPoll
  <2>3. CASE RecordFailure(w)
    <3> DEFINE c == worker[w]
    <3>1. CASE c.failure \in Recordable /\ Authorized(c)
      <4>1. MarkFailed(c.t, c.failure, c.ord)
        BY <2>3, <3>1 DEF RecordFailure
      <4>2. /\ c.t \in Tracks /\ status[c.t] = "active" /\ attempt[c.t].status = "running"
            /\ c.ord = prog[c.t].used
        BY <1>0, <2>3, <3>1, ClaimTypes
        DEF RecordFailure, Authorized, Named, ClaimAt, Holding, At
      <4> QED BY <4>1, <4>2, MarkFailedStep DEF Rows
    <3>2. CASE ~ (c.failure \in Recordable /\ Authorized(c))
      BY <1>1, <2>3, <3>2 DEF RecordFailure
    <3> QED BY <3>1, <3>2
  <2>4. CASE ReleaseCancelledPin(w)
    <3>1. UNCHANGED <<status, fence, chain, prog, attempt, queue, receipts>> /\ pins' = pins
      BY <2>4, NothingReleased DEF ReleaseCancelledPin
    <3> QED BY <3>1, UnchangedRows DEF Rows
  <2> QED BY <1>9, <2>1, <2>2, <2>3, <2>4 DEF Finish
<1>10. ASSUME NEW w \in Workers, MonitorConfirmsStop(w) PROVE Rows
  BY <1>0, <1>10, MarkStoppedStep, ClaimTypes DEF MonitorConfirmsStop, StopPending, Rows
<1>11. ASSUME NEW w \in Workers, Disturb(w) PROVE Rows
  <2>1. CASE Heartbeat(w)
    BY <1>0, <2>1, LeaseStep, ClaimTypes DEF Heartbeat, Rows
  <2> QED BY <1>1, <1>11, <2>1 DEF Disturb, LoseOwnerLock, Crash
<1>12. ASSUME NEW t \in Tracks, Time(t) PROVE Rows
  BY <1>12, LeaseStep, RetryFallsDueStep DEF Time, LeaseLapses, Rows
<1> QED BY <1>1, <1>2, <1>3, <1>4, <1>5, <1>6, <1>7, <1>8, <1>9, <1>10, <1>11, <1>12
        DEF Next, vars

-----------------------------------------------------------------------------
(* The Workers *)

\* Fences only grow, and a running attempt was running already or has a new fence.
Forward(u) ==
    /\ fence[u] <= fence'[u]
    /\ attempt'[u].status = "running" =>
          \/ /\ attempt[u].status = "running" /\ attempt'[u].fence = attempt[u].fence
             /\ prog'[u].used = prog[u].used
          \/ attempt'[u].fence > fence[u]

LEMMA EffectForward ==
    ASSUME TypeOK, NEW u \in Tracks, RowsOf(u), Effect(u) \/ Same(u)
    PROVE  Forward(u)
<1>1. fence[u] \in Nat
  BY RowTypes
<1>2. CASE Same(u) \/ Touched(u)
  BY <1>1, <1>2 DEF Same, Touched, Forward
<1>3. CASE Activated(u) \/ Resumed(u) \/ Stopped(u) \/ Halted(u) \/ Removed(u)
  BY <1>1, <1>3 DEF RowsOf, Activated, Resumed, Stopped, Halted, Removed, NoAttempt, Forward
<1>4. CASE Failed(u) \/ Blocked(u) \/ Started(u) \/ Published(u)
  BY <1>1, <1>4 DEF RowsOf, Failed, Blocked, Started, Published, Forward
<1> QED BY <1>2, <1>3, <1>4 DEF Effect

LEMMA RowsForward ==
    ASSUME TrackInv, Rows
    PROVE  \A u \in Tracks : Forward(u)
BY EffectForward DEF TrackInv, RowAt, Rows, Still, Step, OthersSame

\* A claim is kept by its Worker, or given up.
Kept(w) ==
    LET c == worker[w]
        d == worker'[w] IN
    /\ d.pc \in Holding =>
          c.pc \in Holding /\ d.t = c.t /\ d.fence = c.fence /\ d.ord = c.ord
    /\ d.pc \in Calculated => d.covered /\ d.base \in {0, d.pred}

LEMMA ClaimKept ==
    ASSUME TrackInv, \A u \in Tracks : Forward(u), NEW w \in Workers, Kept(w), TypeOK'
    PROVE  ClaimAt(w)'
<1>1. TypeOK /\ ClaimAt(w)
  BY DEF TrackInv
<1> DEFINE t == worker[w].t
<1>2. t \in Tracks /\ worker[w].fence \in Nat /\ fence[t] \in Nat /\ Forward(t)
  BY <1>1, ClaimTypes, RowTypes
<1>3. fence'[t] \in Nat
  BY <1>2, NextTypes
<1>4. CASE worker'[w].pc \in Holding
  <2>1. /\ worker[w].pc \in Holding /\ worker'[w].t = t
        /\ worker'[w].fence = worker[w].fence /\ worker'[w].ord = worker[w].ord
    BY <1>4 DEF Kept
  <2>2. 1 <= worker[w].fence /\ worker[w].fence <= fence[t] /\ fence[t] <= fence'[t]
    BY <1>1, <1>2, <2>1 DEF ClaimAt, Forward
  <2>3. ASSUME attempt'[t].status = "running", attempt'[t].fence = worker[w].fence
        PROVE  prog'[t].used = worker[w].ord
    <3>1. ~ (attempt'[t].fence > fence[t])
      BY <1>2, <2>2, <2>3
    <3> QED BY <1>1, <1>2, <2>1, <2>3, <3>1 DEF Forward, ClaimAt
  <2>4. 1 <= worker[w].fence /\ worker[w].fence <= fence'[t]
    BY <1>2, <1>3, <2>2
  <2> QED BY <1>4, <2>1, <2>3, <2>4 DEF Kept, ClaimAt
<1>5. CASE worker'[w].pc \notin Holding
  BY <1>5 DEF Kept, ClaimAt, Holding, Calculated
<1> QED BY <1>4, <1>5

\* Only Worker w moves, and it keeps or gives up its claim.
Moves(w) ==
    /\ worker' \in [Workers -> Claims] /\ Kept(w)
    /\ \A v \in Workers : v # w => worker'[v] = worker[v]

LEMMA MovesKeep ==
    ASSUME TrackInv, NEW w \in Workers, Moves(w)
    PROVE  worker' \in [Workers -> Claims] /\ \A v \in Workers : Kept(v)
<1>1. ASSUME NEW v \in Workers, v # w PROVE Kept(v)
  BY <1>1 DEF Moves, Kept, TrackInv, ClaimAt
<1> QED BY <1>1 DEF Moves

LEMMA NobodyMoves ==
    ASSUME TrackInv, worker' = worker
    PROVE  worker' \in [Workers -> Claims] /\ \A v \in Workers : Kept(v)
BY DEF TrackInv, TypeOK, Kept, ClaimAt

\* The record of one Worker is written.
LEMMA RecordMoves ==
    ASSUME TrackInv, NEW w \in Workers, NEW d \in Claims, worker' = [worker EXCEPT ![w] = d],
           d.pc \in Holding => /\ worker[w].pc \in Holding /\ d.t = worker[w].t
                               /\ d.fence = worker[w].fence /\ d.ord = worker[w].ord,
           d.pc \in Calculated => d.covered /\ d.base \in {0, d.pred}
    PROVE  Moves(w)
<1>1. worker \in [Workers -> Claims]
  BY DEF TrackInv, TypeOK
<1>2. /\ worker' \in [Workers -> Claims] /\ worker'[w] = d
      /\ \A v \in Workers : v # w => worker'[v] = worker[v]
  BY <1>1, RowWritten
<1> QED BY <1>2 DEF Moves, Kept

Points == {"idle", "stops", "expired", "recheck", "read", "claim", "claimed", "executing",
           "calculating", "result", "prepared", "published", "stored", "settle", "confirm",
           "record", "release", "ended"}
Failures == {"none", "retryable", "permanent", "coverage", "fenced"}

\* A record that still names the claim of the one before it.
SameClaim(c, d) ==
    /\ d.t = c.t /\ d.fence = c.fence /\ d.ord = c.ord
    /\ d.covered = c.covered /\ d.pred = c.pred

LEMMA ClaimFields ==
    ASSUME TrackInv, NEW w \in Workers
    PROVE  /\ worker \in [Workers -> Claims] /\ worker[w] \in Claims /\ ClaimAt(w)
           /\ worker[w].pc \in Points /\ worker[w].failure \in Failures
           /\ worker[w].base \in Nat /\ worker[w].pred \in Nat /\ worker[w].lock \in BOOLEAN
           /\ worker[w].watched \in BOOLEAN /\ worker[w].todo \in SUBSET (Tracks \X Nat)
<1>1. worker \in [Workers -> Claims] /\ worker[w] \in Claims /\ ClaimAt(w)
  BY DEF TrackInv, TypeOK
<1> QED BY <1>1 DEF Claims, Points, Failures

\* A Worker goes on to another point of its work.
LEMMA WorkerGoes ==
    ASSUME TrackInv, NEW w \in Workers, NEW pc \in Points, Goto(w, pc),
           pc \in Holding => worker[w].pc \in Holding,
           pc \in Calculated => worker[w].pc \in Calculated
    PROVE  Moves(w)
<1>1. worker[w] \in Claims /\ ClaimAt(w)
  BY ClaimFields
<1>2. PICK d : d = [worker[w] EXCEPT !.pc = pc]
  OBVIOUS
<1>3. d \in Claims /\ d.pc = pc /\ d.base = worker[w].base /\ SameClaim(worker[w], d)
  BY <1>1, <1>2 DEF Claims, Points, SameClaim
<1>4. worker' = [worker EXCEPT ![w] = d]
  BY <1>2 DEF Goto
<1>5. pc \in Calculated => worker[w].covered /\ worker[w].base \in {0, worker[w].pred}
  BY <1>1 DEF ClaimAt
<1> QED BY <1>3, <1>4, <1>5, RecordMoves DEF SameClaim

\* What went wrong is noted with the step, or forgotten with it.
LEMMA WorkerEnds ==
    ASSUME TrackInv, NEW w \in Workers, NEW pc \in Points \ Calculated, NEW f \in Failures,
           worker' = [worker EXCEPT ![w].pc = pc, ![w].failure = f],
           worker[w].pc \in Holding
    PROVE  Moves(w)
<1>1. worker[w] \in Claims
  BY ClaimFields
<1>2. PICK d : d = [worker[w] EXCEPT !.pc = pc, !.failure = f]
  OBVIOUS
<1>3. d \in Claims /\ d.pc = pc /\ SameClaim(worker[w], d)
  BY <1>1, <1>2 DEF Claims, Points, Failures, SameClaim
<1>4. worker' = [worker EXCEPT ![w] = d]
  BY <1>2
<1> QED BY <1>3, <1>4, RecordMoves DEF SameClaim

LEMMA WorkerFails ==
    ASSUME TrackInv, NEW w \in Workers, NEW why \in Failures, Fails(w, why),
           worker[w].pc \in Holding
    PROVE  Moves(w)
BY WorkerEnds DEF Fails, Points, Calculated

LEMMA WorkerSettles ==
    ASSUME TrackInv, NEW w \in Workers, NEW pc \in Points \ Calculated, Settles(w, pc),
           worker[w].pc \in Holding
    PROVE  Moves(w)
BY WorkerEnds DEF Settles, Failures

LEMMA WorkerIdle ==
    ASSUME TrackInv, NEW w \in Workers, NEW pc \in {"idle", "read"},
           worker' = [worker EXCEPT ![w] = [Idle EXCEPT !.pc = pc]]
    PROVE  Moves(w)
<1>1. Idle \in Claims
  BY DEF Idle, Claims, NoData, Sessions
<1>2. PICK d : d = [Idle EXCEPT !.pc = pc]
  OBVIOUS
<1>3. d \in Claims /\ d.pc = pc
  BY <1>1, <1>2 DEF Claims
<1>4. worker' = [worker EXCEPT ![w] = d]
  BY <1>2
<1> QED BY <1>3, <1>4, RecordMoves DEF Holding, Calculated

\* The poll is over, or the process is.
LEMMA WorkerRests ==
    ASSUME TrackInv, NEW w \in Workers, worker' = [worker EXCEPT ![w] = Idle]
    PROVE  Moves(w)
<1>1. Idle = [Idle EXCEPT !.pc = "idle"]
  BY DEF Idle
<1>2. worker' = [worker EXCEPT ![w] = [Idle EXCEPT !.pc = "idle"]]
  BY <1>1
<1> QED BY <1>2, WorkerIdle

\* The pins that the recovery of stops has yet to look at.
LEMMA TodoMoves ==
    ASSUME TrackInv, NEW w \in Workers, NEW pc \in {"stops", "expired", "ended"},
           NEW s \in SUBSET (Tracks \X Nat),
           worker' = [worker EXCEPT ![w].pc = pc, ![w].todo = s]
    PROVE  Moves(w)
<1>1. worker[w] \in Claims
  BY ClaimFields
<1>2. PICK d : d = [worker[w] EXCEPT !.pc = pc, !.todo = s]
  OBVIOUS
<1>3. d \in Claims /\ d.pc \notin Holding /\ d.pc \notin Calculated
  BY <1>1, <1>2 DEF Claims, Holding, Calculated
<1>4. worker' = [worker EXCEPT ![w] = d]
  BY <1>2
<1> QED BY <1>3, <1>4, RecordMoves

LEMMA StopsRecovered ==
    ASSUME TrackInv, NEW w \in Workers, RecoverStops(w)
    PROVE  Moves(w)
<1>1. pins \in SUBSET (Tracks \X Nat) /\ worker[w].todo \in SUBSET (Tracks \X Nat)
  BY ClaimFields DEF TrackInv, TypeOK
<1>2. CASE ReadPins(w)
  <2>1. PICK s \in SUBSET (Tracks \X Nat) : s = pins
    BY <1>1
  <2>2. PICK pc \in {"stops", "expired"} : worker' = [worker EXCEPT ![w].pc = pc, ![w].todo = s]
    BY <1>2, <2>1 DEF ReadPins
  <2> QED BY <2>2, TodoMoves
<1>3. ASSUME NEW t, NEW f, RecoverStoppingAttempt(w, t, f) PROVE Moves(w)
  <2>1. worker' = [worker EXCEPT ![w].pc = "ended", ![w].todo = {}]
    BY <1>3 DEF RecoverStoppingAttempt
  <2>2. {} \in SUBSET (Tracks \X Nat)
    OBVIOUS
  <2> QED BY <2>1, <2>2, TodoMoves
<1>4. ASSUME NEW t, NEW f, SkipPin(w, t, f) PROVE Moves(w)
  <2>1. worker[w].todo \ {<<t, f>>} \in SUBSET (Tracks \X Nat)
    BY <1>1
  <2>2. PICK s \in SUBSET (Tracks \X Nat) : s = worker[w].todo \ {<<t, f>>}
    BY <2>1, Zenon
  <2>3. \E pc \in {"stops", "expired"} :
          worker' = [worker EXCEPT ![w].pc = pc, ![w].todo = worker[w].todo \ {<<t, f>>}]
    BY <1>4 DEF SkipPin
  <2>4. PICK pc \in {"stops", "expired"} : worker' = [worker EXCEPT ![w].pc = pc, ![w].todo = s]
    BY <2>2, <2>3, Zenon
  <2> QED BY <2>4, TodoMoves
<1> QED BY <1>2, <1>3, <1>4 DEF RecoverStops, InspectPins

\* One expired attempt is remembered, to be looked at again under its owner lock.
LEMMA LossesRecovered ==
    ASSUME TrackInv, NEW w \in Workers, RecoverLosses(w)
    PROVE  Moves(w)
<1>1. CASE Goto(w, "read") \/ Goto(w, "ended")
  BY <1>1, WorkerGoes DEF Points, Holding, Calculated
<1>2. ASSUME NEW t \in Tracks,
             worker' = [worker EXCEPT ![w].pc = "recheck", ![w].t = t,
                                      ![w].fence = attempt[t].fence]
      PROVE  Moves(w)
  <2>1. worker[w] \in Claims /\ attempt[t].fence \in Nat
    BY ClaimFields, RowTypes DEF TrackInv
  <2>2. PICK f \in Nat : f = attempt[t].fence
    BY <2>1
  <2>3. PICK d : d = [worker[w] EXCEPT !.pc = "recheck", !.t = t, !.fence = f]
    OBVIOUS
  <2>4. d \in Claims /\ d.pc = "recheck"
    BY <2>1, <2>3 DEF Claims
  <2>5. worker' = [worker EXCEPT ![w] = d]
    BY <1>2, <2>2, <2>3
  <2> QED BY <2>4, <2>5, RecordMoves DEF Holding, Calculated
<1>3. CASE worker' = [worker EXCEPT ![w] = [Idle EXCEPT !.pc = "read"]]
  BY <1>3, WorkerIdle
<1> QED BY <1>1, <1>2, <1>3 DEF RecoverLosses, ReadExpired, RecoverExpired

\* The owner lock is taken or lost.
LEMMA LockMoves ==
    ASSUME TrackInv, NEW w \in Workers, AcquireOwnerLock(w) \/ LoseOwnerLock(w)
    PROVE  Moves(w)
<1>1. worker[w] \in Claims /\ worker[w].pc \in Points /\ ClaimAt(w)
  BY ClaimFields
<1>2. PICK pc \in Points, l \in BOOLEAN :
        /\ worker' = [worker EXCEPT ![w].pc = pc, ![w].lock = l]
        /\ pc = worker[w].pc \/ (pc = "executing" /\ worker[w].pc \in Holding)
  <2>1. CASE AcquireOwnerLock(w)
    <3>1. "executing" \in Points /\ worker[w].pc \in Holding
      BY <2>1 DEF AcquireOwnerLock, At, Holding, Points
    <3> QED BY <2>1, <3>1 DEF AcquireOwnerLock
  <2>2. CASE LoseOwnerLock(w)
    <3>1. worker' = [worker EXCEPT ![w].pc = worker[w].pc, ![w].lock = FALSE]
      BY <1>1, <2>2 DEF LoseOwnerLock, Claims
    <3> QED BY <1>1, <3>1
  <2> QED BY <2>1, <2>2
<1>3. PICK d : d = [worker[w] EXCEPT !.pc = pc, !.lock = l]
  OBVIOUS
<1>4. d \in Claims /\ d.pc = pc /\ d.base = worker[w].base /\ SameClaim(worker[w], d)
  BY <1>1, <1>3 DEF Claims, Points, SameClaim
<1>5. worker' = [worker EXCEPT ![w] = d]
  BY <1>2, <1>3
<1>6. pc \in Holding => worker[w].pc \in Holding
  BY <1>2
<1>7. pc \in Calculated => worker[w].covered /\ worker[w].base \in {0, worker[w].pred}
  BY <1>1, <1>2 DEF ClaimAt, Calculated
<1> QED BY <1>4, <1>5, <1>6, <1>7, RecordMoves DEF SameClaim

\* The Worker that starts an attempt holds the claim of that attempt.
LEMMA StartedClaim ==
    ASSUME TrackInv, NEW w \in Workers, NEW q \in Promoted, NEW i \in DOMAIN q,
           NEW fits \in Nat, NEW t, t = q[i], Claimable(t, worker[w].data),
           NEW p, p = Planned(t, worker[w].data, fits), StartAttempt(w, t, p, fence[t] + 1),
           queue' = Without(q, t), UNCHANGED <<chain, receipts>>
    PROVE  /\ worker' \in [Workers -> Claims] /\ ClaimAt(w)'
           /\ \A v \in Workers : v # w => worker'[v] = worker[v]
<1>1. /\ TypeOK /\ worker \in [Workers -> Claims] /\ worker[w] \in Claims
      /\ worker[w].data \in [through : Sessions, covered : Sessions]
  BY ClaimTypes DEF TrackInv, TypeOK, Claims
<1>2. /\ t \in Tracks /\ fence'[t] = fence[t] + 1 /\ prog'[t].used = p.used + 1
      /\ p.used + 1 \in 0..MaxCycleAttempts
  BY <1>1, StartStep
<1>3. fence[t] \in Nat /\ Len(chain[t]) \in Nat
  BY <1>1, <1>2, RowTypes
<1> DEFINE b == p.end <= worker[w].data.covered
           n == fence[t] + 1
           k == p.used + 1
           m == Len(chain[t])
<1>4. worker' = [worker EXCEPT ![w] =
        [worker[w] EXCEPT !.pc = "claimed", !.t = t, !.fence = n, !.pred = m,
                          !.ord = k, !.covered = b, !.data = NoData]]
  BY DEF StartAttempt
<1>5. n \in Nat /\ k \in 0..MaxCycleAttempts /\ b \in BOOLEAN /\ m \in Nat /\ 1 <= n
  BY <1>2, <1>3
<1> HIDE DEF n, k, b, m
<1>6. NoData \in [through : Sessions, covered : Sessions]
  BY DEF NoData, Sessions
<1>c. PICK c : c = [worker[w] EXCEPT !.pc = "claimed", !.t = t, !.fence = n, !.pred = m]
  OBVIOUS
<1>d. PICK d : d = [c EXCEPT !.ord = k, !.covered = b, !.data = NoData]
  OBVIOUS
<1>e. c \in Claims /\ c.pc = "claimed" /\ c.t = t /\ c.fence = n
  BY <1>1, <1>2, <1>5, <1>c DEF Claims
<1>7. d \in Claims /\ d.pc = "claimed" /\ d.t = t /\ d.fence = n /\ d.ord = k
  BY <1>5, <1>6, <1>d, <1>e DEF Claims
<1>f. worker' = [worker EXCEPT ![w] = d]
  BY <1>4, <1>c, <1>d
<1>8. /\ worker' \in [Workers -> Claims] /\ worker'[w] = d
      /\ \A v \in Workers : v # w => worker'[v] = worker[v]
  BY <1>1, <1>7, <1>f, RowWritten
<1>9. fence'[t] = n /\ prog'[t].used = k
  BY <1>2 DEF n, k
<1>10. ClaimAt(w)'
  BY <1>5, <1>7, <1>8, <1>9 DEF ClaimAt, Holding, Calculated
<1> QED BY <1>8, <1>10

LEMMA ClaimWorkers ==
    ASSUME TrackInv, NEW w \in Workers, Claim(w)
    PROVE  \/ Moves(w)
           \/ /\ worker' \in [Workers -> Claims] /\ ClaimAt(w)'
              /\ \A v \in Workers : v # w => worker'[v] = worker[v]
<1> DEFINE data == worker[w].data
<1>1. PICK q \in Promoted, fits \in 0..MaxFits : \E i \in DOMAIN q :
          /\ FirstClaimable(q, i, data) /\ ProgressionIntact(q[i]) /\ queue' = Without(q, q[i])
          /\ ClaimTarget(w, q[i], Planned(q[i], data, fits), fits)
  BY Zenon DEF Claim
<1>2. PICK i \in DOMAIN q :
          /\ FirstClaimable(q, i, data) /\ ProgressionIntact(q[i]) /\ queue' = Without(q, q[i])
          /\ ClaimTarget(w, q[i], Planned(q[i], data, fits), fits)
  BY <1>1
<1> DEFINE t == q[i]
           p == Planned(t, data, fits)
<1>3. /\ Claimable(t, data) /\ queue' = Without(q, t) /\ UNCHANGED <<chain, receipts>>
      /\ fits \in Nat /\ TypeOK
  BY <1>2 DEF FirstClaimable, Claim, TrackInv
<1>4. CASE BlockTarget(w, t, p)
  BY <1>4, WorkerGoes DEF BlockTarget, Points, Holding, Calculated
<1>5. CASE StartAttempt(w, t, p, fence[t] + 1)
  BY <1>3, <1>5, StartedClaim
<1> QED BY <1>2, <1>4, <1>5 DEF ClaimTarget

LEMMA WorkerReads ==
    ASSUME TrackInv, NEW w \in Workers, ReadHead(w)
    PROVE  Moves(w)
<1>1. worker[w] \in Claims /\ head \in [through : Sessions, covered : Sessions]
  BY ClaimFields DEF TrackInv, TypeOK
<1>2. PICK d : d = [worker[w] EXCEPT !.pc = "claim", !.data = head]
  OBVIOUS
<1>3. d \in Claims /\ d.pc = "claim"
  BY <1>1, <1>2 DEF Claims
<1>4. worker' = [worker EXCEPT ![w] = d]
  BY <1>2 DEF ReadHead
<1> QED BY <1>3, <1>4, RecordMoves DEF Holding, Calculated

\* What a Worker calculates continues nothing, or the checkpoint it claimed.
LEMMA WorkerLoads ==
    ASSUME TrackInv, NEW w \in Workers, LoadCache(w)
    PROVE  Moves(w)
<1>1. /\ worker[w] \in Claims /\ worker[w].pred \in Nat
      /\ worker[w].pc = "executing" /\ worker[w].covered
  BY ClaimFields DEF LoadCache, At
<1>2. PICK b \in {0, worker[w].pred} :
        worker' = [worker EXCEPT ![w].pc = "calculating", ![w].base = b]
  BY DEF LoadCache, Served
<1>3. PICK d : d = [worker[w] EXCEPT !.pc = "calculating", !.base = b]
  OBVIOUS
<1>4. d \in Claims /\ d.base = b /\ SameClaim(worker[w], d)
  <2>1. b \in Nat
    BY <1>1
  <2> QED BY <1>1, <1>3, <2>1 DEF Claims, SameClaim
<1>5. worker' = [worker EXCEPT ![w] = d]
  BY <1>2, <1>3
<1>6. worker[w].pc \in Holding /\ d.covered /\ d.base \in {0, d.pred}
  BY <1>1, <1>4 DEF Holding, SameClaim
<1> QED BY <1>4, <1>5, <1>6, RecordMoves DEF SameClaim

LEMMA WorkerCalculates ==
    ASSUME TrackInv, NEW w \in Workers, Calculate(w)
    PROVE  Moves(w)
<1>1. worker[w] \in Claims /\ worker[w].pc = "calculating" /\ ClaimAt(w)
  BY ClaimFields DEF Calculate, At
<1>2. PICK d : d = [worker[w] EXCEPT !.pc = "result", !.watched = TRUE]
  OBVIOUS
<1>3. d \in Claims /\ d.base = worker[w].base /\ SameClaim(worker[w], d)
  BY <1>1, <1>2 DEF Claims, SameClaim
<1>4. worker' = [worker EXCEPT ![w] = d]
  BY <1>2 DEF Calculate
<1>5. worker[w].pc \in Holding /\ d.covered /\ d.base \in {0, d.pred}
  BY <1>1, <1>3 DEF ClaimAt, Holding, Calculated, SameClaim
<1> QED BY <1>3, <1>4, <1>5, RecordMoves DEF SameClaim

WorkersStep == (\A v \in Workers : Kept(v)) \/ \E w \in Workers :
    ClaimAt(w)' /\ \A v \in Workers : v # w => Kept(v)
Processes == worker' \in [Workers -> Claims] /\ WorkersStep

LEMMA NextWorkers ==
    ASSUME TrackInv, [Next]_vars
    PROVE  Processes
<1>1. CASE worker' = worker
  BY <1>1, NobodyMoves DEF Processes, WorkersStep
<1>2. ASSUME NEW w \in Workers, Moves(w) PROVE Processes
  BY <1>2, MovesKeep DEF Processes, WorkersStep
<1>3. ASSUME NEW w \in Workers, RecoverStops(w) \/ RecoverLosses(w) \/ ReadHead(w) PROVE Processes
  BY <1>2, <1>3, StopsRecovered, LossesRecovered, WorkerReads
<1>4. ASSUME NEW w \in Workers, TakeWork(w) PROVE Processes
  <2>1. CASE Claim(w)
    <3>1. ASSUME worker' \in [Workers -> Claims], ClaimAt(w)',
                 \A v \in Workers : v # w => worker'[v] = worker[v]
          PROVE  Processes
      <4>1. \A v \in Workers : v # w => Kept(v)
        BY <3>1 DEF Kept, TrackInv, ClaimAt
      <4> QED BY <3>1, <4>1 DEF Processes, WorkersStep
    <3> QED BY <1>2, <2>1, <3>1, ClaimWorkers
  <2>2. CASE ClaimNothing(w) \/ ClaimRaises(w)
    <3>1. Moves(w)
      BY <2>2, WorkerGoes, WorkerRests
      DEF ClaimNothing, ClaimRaises, Points, Holding, Calculated
    <3> QED BY <1>2, <3>1
  <2> QED BY <1>4, <2>1, <2>2 DEF TakeWork
<1>5. ASSUME NEW w \in Workers, Advance(w) PROVE Processes
  <2>1. CASE AcquireOwnerLock(w) \/ LoadCache(w) \/ Calculate(w)
    BY <1>2, <2>1, LockMoves, WorkerLoads, WorkerCalculates
  <2>2. CASE CoverageMissing(w) \/ PublicationRefused(w)
             \/ \E why \in {"retryable", "permanent"} : ExecutionFails(w, why)
    <3>1. worker[w].pc \in Holding /\ \E why \in Failures : Fails(w, why)
      BY <2>2 DEF CoverageMissing, PublicationRefused, ExecutionFails, At, Holding, Failures
    <3> QED BY <1>2, <3>1, WorkerFails
  <2>3. CASE RecordProgress(w)
    <3>1. /\ worker[w].pc \in {"calculating", "result"}
          /\ Fails(w, "fenced") \/ (worker[w].pc = "result" /\ Goto(w, "prepared"))
      BY <2>3 DEF RecordProgress, At
    <3>2. Moves(w)
      BY <3>1, WorkerGoes, WorkerFails DEF Points, Holding, Calculated, Failures
    <3> QED BY <1>2, <3>2
  <2>4. CASE ExecutionCancelled(w) \/ StoreCache(w) \/ CheckCacheBasis(w)
    <3>1. /\ worker[w].pc \in Holding
          /\ \/ Goto(w, "confirm") \/ Goto(w, "stored") \/ Goto(w, "settle")
             \/ Fails(w, "retryable")
      BY <2>4 DEF ExecutionCancelled, StoreCache, CheckCacheBasis, At, Holding
    <3>2. Moves(w)
      BY <3>1, WorkerGoes, WorkerFails DEF Points, Calculated, Failures
    <3> QED BY <1>2, <3>2
  <2>5. CASE PublishCheckpoint(w)
    <3>1. worker[w].pc = "prepared" /\ (Goto(w, "published") \/ Fails(w, "retryable"))
      BY <2>5 DEF PublishCheckpoint, At
    <3>2. Moves(w)
      BY <3>1, WorkerGoes, WorkerFails DEF Points, Holding, Calculated, Failures
    <3> QED BY <1>2, <3>2
  <2> QED BY <1>5, <2>1, <2>2, <2>3, <2>4, <2>5 DEF Advance, Publish
<1>6. ASSUME NEW w \in Workers, Finish(w) PROVE Processes
  <2>1. CASE ObserveStop(w)
    <3>1. worker[w].pc \in Holding /\ worker[w].failure \in Failures
      BY <2>1, ClaimFields DEF ObserveStop, At, Holding
    <3>2. PICK f \in Failures : f = IF worker[w].failure = "none" THEN "retryable" ELSE worker[w].failure
      BY <3>1 DEF Failures
    <3>3. \/ Settles(w, "confirm") \/ Goto(w, "record")
          \/ worker' = [worker EXCEPT ![w].pc = "record", ![w].failure = f]
      BY <2>1, <3>2, ClaimFields DEF ObserveStop, Claims
    <3>4. "record" \in Points \ Calculated /\ "confirm" \in Points \ Calculated
      BY DEF Points, Calculated
    <3>5. Moves(w)
      BY <3>1, <3>3, <3>4, WorkerGoes, WorkerSettles, WorkerEnds
    <3> QED BY <1>2, <3>5
  <2>2. CASE RecordFailure(w)
    <3>1. worker[w].pc \in Holding /\ (Settles(w, "release") \/ Settles(w, "ended"))
      BY <2>2 DEF RecordFailure, At, Holding
    <3>2. Moves(w)
      BY <3>1, WorkerSettles DEF Points, Calculated
    <3> QED BY <1>2, <3>2
  <2>3. CASE ConfirmStopped(w) \/ ReleaseCancelledPin(w) \/ EndPoll(w)
    <3>1. Moves(w)
      BY <2>3, WorkerGoes, WorkerRests
      DEF ConfirmStopped, ReleaseCancelledPin, EndPoll, Points, Holding, Calculated
    <3> QED BY <1>2, <3>1
  <2> QED BY <1>6, <2>1, <2>2, <2>3 DEF Finish
<1>7. ASSUME NEW w \in Workers, Disturb(w) PROVE Processes
  BY <1>1, <1>2, <1>7, LockMoves, WorkerRests DEF Disturb, Heartbeat, Crash
<1>8. CASE MoveHead \/ Command \/ (\E t \in Tracks : Time(t))
          \/ (\E w \in Workers : MonitorConfirmsStop(w)) \/ UNCHANGED vars
  BY <1>1, <1>8 DEF MoveHead, Command, Activate, Refresh, StopIdle, StopRunning, Delete, Retry,
     Time, LeaseLapses, RetryFallsDue, MonitorConfirmsStop, vars
<1> QED BY <1>3, <1>4, <1>5, <1>6, <1>7, <1>8 DEF Next

Entries == [Tracks -> [head : Nat, fence : Nat]]

LEMMA EntryWritten ==
    ASSUME TypeOK, NEW w \in Workers, NEW t \in Tracks, NEW e \in [head : Nat, fence : Nat],
           cache' = [cache EXCEPT ![w][t] = e]
    PROVE  cache' \in [Workers -> Entries]
BY DEF TypeOK, Entries

LEMMA CacheWritten ==
    ASSUME TypeOK, NEW w \in Workers, NEW e \in Entries, cache' = [cache EXCEPT ![w] = e]
    PROVE  cache' \in [Workers -> Entries]
BY DEF TypeOK, Entries

LEMMA NextCaches ==
    ASSUME TrackInv, [Next]_vars
    PROVE  cache' \in [Workers -> Entries] /\ head' \in [through : Sessions, covered : Sessions]
<1>1. TypeOK /\ NoEntry \in [head : Nat, fence : Nat] /\ [t \in Tracks |-> NoEntry] \in Entries
  BY DEF TrackInv, NoEntry, Entries
<1> DEFINE Good == cache' \in [Workers -> Entries]
<1>2. ASSUME cache' = cache PROVE Good
  BY <1>1, <1>2 DEF TypeOK, Entries
<1>3. ASSUME NEW w \in Workers PROVE worker[w].t \in Tracks /\ worker[w].pred + 1 \in Nat /\ worker[w].fence \in Nat
  BY <1>1, ClaimTypes
<1>4. ASSUME NEW w \in Workers, NEW t \in Tracks, cache' = [cache EXCEPT ![w][t] = NoEntry] PROVE Good
  BY <1>1, <1>4, EntryWritten
<1>5. ASSUME NEW w \in Workers, cache' = [cache EXCEPT ![w] = [t \in Tracks |-> NoEntry]] PROVE Good
  BY <1>1, <1>5, CacheWritten
<1>6. ASSUME NEW w \in Workers, StoreCache(w) PROVE Good
  <2>1. [head |-> worker[w].pred + 1, fence |-> worker[w].fence] \in [head : Nat, fence : Nat]
    BY <1>3
  <2>2. cache[w][worker[w].t] \in [head : Nat, fence : Nat]
    BY <1>1, <1>3 DEF TypeOK
  <2> QED BY <1>1, <1>3, <1>6, <2>1, <2>2, EntryWritten DEF StoreCache
<1>7. ASSUME NEW w \in Workers, EndPoll(w) PROVE Good
  <2> DEFINE e == [t \in Tracks |-> IF status[t] \in Alive THEN cache[w][t] ELSE NoEntry]
  <2>1. e \in Entries
    BY <1>1 DEF TypeOK, Entries
  <2>2. cache' = [cache EXCEPT ![w] = e]
    BY <1>1, <1>7 DEF EndPoll, TypeOK
  <2> QED BY <1>1, <2>1, <2>2, CacheWritten
<1>8. ASSUME NEW w \in Workers, LoadCache(w) \/ CheckCacheBasis(w) \/ ConfirmStopped(w)
                                \/ MonitorConfirmsStop(w) PROVE Good
  BY <1>2, <1>3, <1>4, <1>8 DEF LoadCache, CheckCacheBasis, ConfirmStopped, MonitorConfirmsStop
<1>9. ASSUME NEW w \in Workers, RecoverStops(w) PROVE Good
  <2>1. CASE ReadPins(w)
    BY <1>2, <2>1 DEF ReadPins
  <2>2. CASE InspectPins(w)
    <3>1. PICK p \in worker[w].todo :
            RecoverStoppingAttempt(w, p[1], p[2]) \/ SkipPin(w, p[1], p[2])
      BY <2>2 DEF InspectPins
    <3>2. p[1] \in Tracks
      BY ClaimFields
    <3>3. cache' = cache \/ cache' = [cache EXCEPT ![w][p[1]] = NoEntry]
      BY <3>1 DEF RecoverStoppingAttempt, SkipPin
    <3> QED BY <1>2, <1>4, <3>2, <3>3
  <2> QED BY <1>9, <2>1, <2>2 DEF RecoverStops
<1>10. ASSUME NEW w \in Workers, ClaimRaises(w) \/ Crash(w) PROVE Good
  BY <1>5, <1>10 DEF ClaimRaises, Crash
<1>11. ASSUME NEW w \in Workers,
              \/ RecoverLosses(w) \/ ReadHead(w) \/ Claim(w) \/ ClaimNothing(w) \/ AcquireOwnerLock(w)
              \/ CoverageMissing(w) \/ Calculate(w) \/ RecordProgress(w) \/ ExecutionCancelled(w)
              \/ Publish(w) \/ ObserveStop(w) \/ RecordFailure(w) \/ ReleaseCancelledPin(w)
              \/ Heartbeat(w) \/ LoseOwnerLock(w)
              \/ \E why \in {"retryable", "permanent"} : ExecutionFails(w, why)
       PROVE Good
  BY <1>2, <1>11 DEF RecoverLosses, ReadExpired, RecoverExpired, ReadHead, Claim, ClaimNothing,
     AcquireOwnerLock, CoverageMissing, Calculate, RecordProgress, ExecutionCancelled, Publish,
     PublishCheckpoint, PublicationRefused, ObserveStop, RecordFailure, ReleaseCancelledPin,
     Heartbeat, LoseOwnerLock, ExecutionFails
<1>12. ASSUME MoveHead \/ Command \/ (\E t \in Tracks : Time(t)) \/ UNCHANGED vars PROVE Good
  BY <1>2, <1>12 DEF MoveHead, Command, Activate, Refresh, StopIdle, StopRunning, Delete, Retry,
     Time, LeaseLapses, RetryFallsDue, vars
<1>13. Good
  <2>1. ASSUME NEW w \in Workers, Advance(w) PROVE Good
    BY <1>6, <1>8, <1>11, <2>1 DEF Advance
  <2>2. ASSUME NEW w \in Workers, Finish(w) PROVE Good
    BY <1>7, <1>8, <1>11, <2>2 DEF Finish
  <2>3. ASSUME NEW w \in Workers, TakeWork(w) \/ Disturb(w) PROVE Good
    BY <1>10, <1>11, <2>3 DEF TakeWork, Disturb
  <2>4. ASSUME NEW w \in Workers, RecoverLosses(w) \/ ReadHead(w) \/ MonitorConfirmsStop(w) PROVE Good
    BY <1>8, <1>11, <2>4
  <2> HIDE DEF Good
  <2> QED BY <1>9, <1>12, <2>1, <2>2, <2>3, <2>4 DEF Next
<1>14. head' = head \/ MoveHead
  <2>1. ASSUME NEW w \in Workers, RecoverStops(w) \/ RecoverLosses(w) \/ ReadHead(w)
        PROVE  head' = head
    BY <2>1 DEF RecoverStops, ReadPins, InspectPins, RecoverStoppingAttempt, SkipPin,
       RecoverLosses, ReadExpired, RecoverExpired, ReadHead
  <2>2. ASSUME NEW w \in Workers, TakeWork(w) \/ Advance(w)
        PROVE  head' = head
    BY <2>2 DEF TakeWork, Claim, ClaimNothing, ClaimRaises, Advance, AcquireOwnerLock,
       CoverageMissing, LoadCache, Calculate, RecordProgress, ExecutionFails,
       ExecutionCancelled, Publish, PublishCheckpoint, PublicationRefused, StoreCache,
       CheckCacheBasis
  <2>3. ASSUME NEW w \in Workers, Finish(w) \/ MonitorConfirmsStop(w) \/ Disturb(w)
        PROVE  head' = head
    BY <2>3 DEF Finish, ObserveStop, ConfirmStopped, RecordFailure, ReleaseCancelledPin,
       EndPoll, MonitorConfirmsStop, Disturb, Heartbeat, LoseOwnerLock, Crash
  <2>4. ASSUME Command \/ (\E t \in Tracks : Time(t)) \/ UNCHANGED vars
        PROVE  head' = head
    BY <2>4 DEF Command, Activate, Refresh, StopIdle, StopRunning, Delete, Retry, Time,
       LeaseLapses, RetryFallsDue, vars
  <2> QED BY <2>1, <2>2, <2>3, <2>4 DEF Next
<1>15. head' \in [through : Sessions, covered : Sessions]
  BY <1>1, <1>14 DEF MoveHead, TypeOK
<1> QED BY <1>13, <1>15

-----------------------------------------------------------------------------
(* The invariant *)

LEMMA NextKeeps ==
    ASSUME TrackInv, [Next]_vars
    PROVE  TrackInv' /\ Rows
<1>1. Rows /\ Processes /\ (\A u \in Tracks : Forward(u))
  BY NextRows, NextWorkers, RowsForward
<1>2. TypeOK'
  <2>1. RowsTyped'
    BY <1>1 DEF Rows, Still, Step
  <2>2. ProcessesTyped'
    BY <1>1, NextCaches DEF ProcessesTyped, Processes, Entries
  <2> QED BY <2>1, <2>2, TypesSplit DEF TypeOK, RowsTyped, ProcessesTyped
<1>3. Typed /\ (\A t \in Tracks : RowAt(t)) /\ ReceiptsFinite /\ QueueSound' /\ PinsAgree'
  BY <1>1, <1>2 DEF TrackInv, Typed, Rows, Still, Step
<1>4. ASSUME NEW t \in Tracks PROVE RowAt(t)'
  <2>1. Effect(t) \/ Same(t)
    BY <1>1 DEF Rows, Still, Step, OthersSame
  <2>2. CASE Effect(t)
    BY <1>3, <2>2, EffectOnRow
  <2>3. CASE Same(t)
    <3>1. Touched(t)
      BY <2>3 DEF Same, Touched, SamePlan
    <3> QED BY <1>3, <3>1, TouchedRow
  <2> QED BY <2>1, <2>2, <2>3
<1>5. ASSUME NEW w \in Workers PROVE ClaimAt(w)'
  BY <1>1, <1>2, ClaimKept DEF Processes, WorkersStep
<1>6. \A t \in Tracks : IsFiniteSet(receipts'[t])
  BY <1>3 DEF ReceiptsFinite
<1> QED BY <1>1, <1>2, <1>3, <1>4, <1>5, <1>6 DEF TrackInv

LEMMA InitHolds == Init => TrackInv
<1> SUFFICES ASSUME Init PROVE TrackInv
  OBVIOUS
<1>1. NoProgression \in Progressions /\ NoAttempt \in Attempts /\ NoEntry \in [head : Nat, fence : Nat]
  BY DEF NoProgression, Progressions, NoAttempt, Attempts, NoEntry
<1>2. Idle \in Claims /\ Idle.pc = "idle"
  BY DEF Idle, Claims, NoData, Sessions
<1>3. head \in [through : Sessions, covered : Sessions]
  BY DEF Init, Sessions
<1>4. TypeOK
  BY <1>1, <1>2, <1>3, EmptySeq DEF Init, TypeOK
<1>5. QueueSound /\ (\A t \in Tracks : IsFiniteSet(receipts[t])) /\ Range(queue) = {}
  BY FS_EmptySet DEF Init, QueueSound, IsInjective, Range
<1>6. PinsAgree
  BY DEF Init, PinsAgree, NoAttempt
<1>7. \A t \in Tracks : Cardinality(receipts[t]) = 0
  BY FS_EmptySet DEF Init
<1>8. ASSUME NEW t \in Tracks PROVE RowAt(t)
  <2>1. /\ status[t] = "none" /\ fence[t] = 0 /\ chain[t] = <<>> /\ prog[t] = NoProgression
        /\ attempt[t] = NoAttempt /\ Len(chain[t]) = 0
    BY DEF Init
  <2>2. RowsOf(t) /\ PlanOf(t) /\ BudgetOf(t)
    BY <1>5, <2>1 DEF RowsOf, PlanOf, BudgetOf, NoProgression, NoAttempt, Unresolved
  <2>3. FencesOf(t) /\ HistoryOf(t) /\ CyclesOf(t)
    BY <1>7, <2>1 DEF FencesOf, HistoryOf, AdvancesOf, CyclesOf, NoAttempt, NoProgression, Alive
  <2> QED BY <2>2, <2>3 DEF RowAt
<1>9. ASSUME NEW w \in Workers PROVE ClaimAt(w)
  BY <1>2 DEF Init, ClaimAt, Holding, Calculated
<1> QED BY <1>4, <1>5, <1>6, <1>8, <1>9 DEF TrackInv

\* Rows, queue, pins and the claims that Workers hold fit together in every reachable
\* state, for any tracks, Workers and bounds.
THEOREM TrackInvariance == Spec => []TrackInv
<1>1. TrackInv /\ [Next]_vars => TrackInv'
  BY NextKeeps
<1> QED BY InitHolds, <1>1, PTL DEF Spec

\* Rows, queue, pins, Working Caches and claims keep their types: a fence, a session or
\* an attempt ordinal never leaves its range.
THEOREM TrackTypes == Spec => []TypeOK
<1>1. TrackInv => TypeOK
  BY DEF TrackInv
<1> QED BY TrackInvariance, <1>1, PTL

\* A Generation is pinned exactly while an attempt may read it: claim, publication, failure,
\* confirmed stop and both recoveries take and release the pin with the attempt.
THEOREM PinSafety == Spec => []PinsAgree
<1>1. TrackInv => PinsAgree
  BY DEF TrackInv
<1> QED BY TrackInvariance, <1>1, PTL

\* Track, progression, latest attempt and queue tell one story after every transaction of
\* commands, Workers, monitor threads and recoveries.
THEOREM RowSafety == Spec => []RowsAgree
<1>1. TrackInv => RowsAgree
  BY DEF TrackInv, RowAt, RowsAgree
<1> QED BY TrackInvariance, <1>1, PTL

\* Checkpoints advance in sessions and fences over covered sessions, each continues the one
\* before it, and only a request gives a target another cycle of attempts.
THEOREM HistorySafety == Spec => []HistorySound
<1>1. TrackInv => HistorySound
  <2> SUFFICES ASSUME TrackInv PROVE HistorySound
    OBVIOUS
  <2>1. TypeOK /\ \A t \in Tracks : HistoryOf(t) /\ CyclesOf(t)
    BY DEF TrackInv, RowAt
  <2>2. \A t \in Tracks : DOMAIN chain[t] = 1..Len(chain[t])
    BY <2>1, RowTypes, LenProperties
  <2>3. ChainAdvances
    BY <2>1, <2>2 DEF ChainAdvances, HistoryOf, AdvancesOf
  <2>4. OnlyCovered /\ ContinuationMatches
    BY <2>1, <2>2 DEF OnlyCovered, ContinuationMatches, HistoryOf
  <2>5. CyclesRequested
    BY <2>1 DEF CyclesRequested, CyclesOf
  <2> QED BY <2>3, <2>4, <2>5 DEF HistorySound
<1> QED BY TrackInvariance, <1>1, PTL

-----------------------------------------------------------------------------
(* What a researcher sees *)

Reached == [t \in Tracks |-> IF chain[t] = << >> THEN 0 ELSE Boundary(t)]

LEMMA WrittenAt ==
    ASSUME NEW S, NEW f, NEW g, f = [x \in S |-> f[x]], g = [x \in S |-> g[x]], NEW t \in S,
           \A x \in S : x # t => g[x] = f[x]
    PROVE  g = [f EXCEPT ![t] = g[t]] /\ (g[t] = f[t] => g = f)
OBVIOUS

LEMMA SeenStep ==
    ASSUME TrackInv, TrackInv', NEW t \in Tracks, Effect(t), OthersSame(t)
    PROVE  Contract!Next \/ UNCHANGED Contract!vars
<1>1. TypeOK /\ TypeOK' /\ RowAt(t) /\ RowAt(t)' /\ Typed
  BY DEF TrackInv, Typed
<1>2. /\ status' = [status EXCEPT ![t] = status'[t]]
      /\ status'[t] = status[t] => status' = status
  BY <1>1, WrittenAt DEF TypeOK, OthersSame, Same
<1>3. /\ Reached' = [Reached EXCEPT ![t] = Reached'[t]]
      /\ Reached'[t] = Reached[t] => Reached' = Reached
  <2>1. \A u \in Tracks : u # t => Reached'[u] = Reached[u]
    BY DEF Reached, Boundary, OthersSame, Same
  <2>2. Reached = [u \in Tracks |-> Reached[u]] /\ Reached' = [u \in Tracks |-> Reached'[u]]
    BY DEF Reached
  <2> QED BY <2>1, <2>2, WrittenAt
<1>4. chain'[t] = chain[t] => Reached'[t] = Reached[t]
  BY DEF Reached, Boundary
<1>5. CASE Touched(t)
  BY <1>2, <1>3, <1>4, <1>5 DEF Touched, Contract!vars, Reached
<1>6. CASE Activated(t)
  <2>1. Reached'[t] = 1
    <3>1. chain'[t] # <<>> /\ Len(chain'[t]) = 1 /\ chain'[t][1].session = 1
      BY <1>6 DEF Activated
    <3> QED BY <3>1 DEF Reached, Boundary, Last
  <2>2. Contract!Activate(t)
    BY <1>2, <1>3, <1>6, <2>1 DEF Activated, Contract!Activate, Contract!Become, Reached
  <2> QED BY <2>2 DEF Contract!Next
<1>7. CASE Resumed(t)
  <2>1. Contract!Resume(t)
    BY <1>2, <1>3, <1>4, <1>7 DEF Resumed, Contract!Resume, Contract!Become, Reached
  <2> QED BY <2>1 DEF Contract!Next
<1>8. CASE Stopped(t) \/ Halted(t)
  <2>1. Contract!Stop(t)
    BY <1>2, <1>3, <1>4, <1>8 DEF Stopped, Halted, Contract!Stop, Contract!Become, Reached
  <2> QED BY <2>1 DEF Contract!Next
<1>9. CASE Removed(t)
  <2>1. Reached'[t] = 0
    BY <1>9 DEF Removed, Reached
  <2>2. Contract!Delete(t)
    BY <1>2, <1>3, <1>9, <2>1 DEF Removed, Contract!Delete, Contract!Become, Reached
  <2> QED BY <2>2 DEF Contract!Next
<1>10. CASE Failed(t) \/ Started(t)
  BY <1>2, <1>3, <1>4, <1>10 DEF Failed, Started, Contract!vars, Reached
<1>11. CASE Blocked(t)
  <2>1. Contract!Block(t)
    BY <1>2, <1>3, <1>4, <1>11 DEF Blocked, Contract!Block, Contract!Become, Reached
  <2> QED BY <2>1 DEF Contract!Next
<1>12. CASE Published(t)
  <2>1. chain[t] # <<>> /\ chain'[t] # <<>> /\ Len(chain'[t]) = Len(chain[t]) + 1
        /\ Len(chain[t]) \in 1..Len(chain[t]) /\ chain'[t][Len(chain[t])] = chain[t][Len(chain[t])]
    <3>1. chain[t] \in Seq(Checkpoints) /\ chain[t] # <<>>
      BY <1>1, <1>12, RowTypes DEF RowAt, HistoryOf, Published, Alive
    <3>2. PICK e : chain'[t] = Append(chain[t], e)
      BY <1>12 DEF Published
    <3>3. chain[t] \in Seq(Checkpoints \cup {e}) /\ e \in Checkpoints \cup {e}
      BY <3>1, SeqMonotonic, Zenon
    <3>4. Len(chain[t]) \in 1..Len(chain[t])
      BY <3>1, EmptySeq, LenProperties
    <3>5. /\ Len(Append(chain[t], e)) = Len(chain[t]) + 1
          /\ \A i \in 1..Len(chain[t]) : Append(chain[t], e)[i] = chain[t][i]
          /\ Append(chain[t], e) # <<>>
      BY <3>3, AppendProperties
    <3> QED BY <3>1, <3>2, <3>4, <3>5
  <2>2. chain[t][Len(chain[t])].session < chain'[t][Len(chain'[t])].session
    <3>1. Len(chain[t]) \in 1..Len(chain'[t]) /\ Len(chain'[t]) \in 1..Len(chain'[t])
          /\ Len(chain[t]) < Len(chain'[t])
      BY <2>1
    <3>2. AdvancesOf(t)'
      BY <1>1 DEF RowAt, HistoryOf
    <3> QED BY <2>1, <3>1, <3>2 DEF AdvancesOf
  <2>3. Reached[t] < Reached'[t]
    BY <2>1, <2>2 DEF Reached, Boundary, Last
  <2>4. chain[t][Len(chain[t])].session \in Nat /\ chain'[t][Len(chain'[t])].session \in Nat
    <3>1. Len(chain'[t]) \in 1..Len(chain'[t]) /\ chain'[t] \in Seq(Checkpoints)
      BY <1>1, <2>1 DEF TypeOK
    <3>2. chain'[t][Len(chain'[t])] \in Checkpoints
      BY <3>1, ElementOfSeq
    <3>3. chain[t][Len(chain[t])].session \in Nat
      BY <1>1, <2>1, RowTypes
    <3>4. chain'[t][Len(chain'[t])].session \in Nat
      BY <3>2 DEF Checkpoints, Sessions
    <3> QED BY <3>3, <3>4
  <2>5. Reached'[t] > Reached[t]
    BY <2>1, <2>3, <2>4 DEF Reached, Boundary, Last
  <2>6. status' = status /\ status[t] = "active"
    BY <1>2, <1>12 DEF Published
  <2>7. Contract!Advance(t)
    BY <1>3, <2>5, <2>6 DEF Contract!Advance, Reached
  <2> QED BY <2>7 DEF Contract!Next
<1> QED BY <1>5, <1>6, <1>7, <1>8, <1>9, <1>10, <1>11, <1>12 DEF Effect

\* Every behaviour of the rows, seen as phase and last published session of each track, is
\* one of TrackContract: results appear only while a track is active and never go back, and a
\* stop is final, whatever superseded Workers, recoveries and repeated commands still do.
THEOREM TrackRefinement == Spec => ImplementsContract
<1>1. Init => Contract!Init
  <2> SUFFICES ASSUME Init PROVE Contract!Init
    OBVIOUS
  <2> QED BY DEF Init, Contract!Init
<1>2. TrackInv /\ TrackInv' /\ [Next]_vars => [Contract!Next]_(Contract!vars)
  <2> SUFFICES ASSUME TrackInv, TrackInv', [Next]_vars
               PROVE  Contract!Next \/ UNCHANGED Contract!vars
    OBVIOUS
  <2>1. Rows
    BY NextKeeps
  <2>2. CASE \E t \in Tracks : Step(t)
    BY <2>2, SeenStep DEF Step
  <2>3. CASE Still
    <3>1. status' = status /\ Reached' = Reached
      BY <2>3 DEF Still, Same, TrackInv, TypeOK, Reached, Boundary
    <3> QED BY <3>1 DEF Contract!vars, Reached
  <2> QED BY <2>1, <2>2, <2>3 DEF Rows
<1> QED BY TrackInvariance, <1>1, <1>2, PTL DEF Spec, ImplementsContract, Contract!Spec

=============================================================================
