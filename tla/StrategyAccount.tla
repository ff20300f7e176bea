---------------------------- MODULE StrategyAccount ----------------------------
(***************************************************************************)
(* The simulated account of a Strategy Backtest                            *)
(* (research_kernel/strategy.py) and the bounded continuation that carries *)
(* it from one chunk of sessions to the next                               *)
(* (research_kernel/research_chunks.py).  A session marks the holdings at  *)
(* the Open, sells and then buys towards the target frozen at the previous *)
(* Close, records its observation and takes the next decision.             *)
(*                                                                         *)
(* Money is in whole units; the accounting context's rounding is \div.     *)
(* Adjusted units are kept in halves, weights and exposures in parts of W. *)
(* The market and the program's decisions are chosen once for a session    *)
(* and are the same in every execution of the run.                         *)
(***************************************************************************)
EXTENDS Integers, Sequences, FiniteSets, FiniteSetsExt, SequencesExt

CONSTANTS
    Stocks,     \* 1..n, in the order of their ids
    Board,      \* stock -> "main" or "star"
    Lot,        \* shares of a lot on the main board
    Small,      \* board -> smallest order
    Cap,        \* board -> largest child order
    Fee,        \* smallest commission of a child order
    Part,       \* commission, and stamp duty of a sale: one Part-th of the notional
    Slip, Bp,   \* slippage: Slip parts of Bp
    W,          \* parts of a weight
    Cash,       \* initial cash
    Sessions,   \* bound: sessions of the run
    Quotes,     \* Opens of a session: stock -> [st, raw, adj, lim]; lim may be "missing"
    Targets,    \* decisions a program may take at a Close
    MaxRuns,    \* bound: executions of the run
    None

AccountAssumption ==
    /\ Stocks = 1..Cardinality(Stocks) /\ Board \in [Stocks -> {"main", "star"}]
    /\ {Lot, Part, Bp, W, Cash, Sessions} \subseteq Nat \ {0} /\ {Fee, Slip} \subseteq Nat
    /\ Slip < Bp /\ Cap["main"] % Lot = 0 /\ Small["main"] = Lot
    /\ \A b \in {"main", "star"} : 2 * Small[b] <= Cap[b] + 1
    /\ \A g \in Targets : IsInjective(g.order) /\ ToSet(g.order) = DOMAIN g.w

VARIABLES
    market, decided,  \* quotes and decision of every session so far
    status,           \* "between" chunks, "running" between sessions, "open", "sell", "buy",
                      \* "close", "done", "failed"
    t,                \* sessions behind the execution
    acct,             \* the account in memory: positions, cash, costs, pending target
    plan,             \* the target being executed
    fills, rej,       \* fills and rejections of the last session
    new,              \* observations of this chunk
    metric,           \* metric state the chunk started from
    saved,            \* continuation of the last chunk
    rows,             \* first observation of every session
    runs

vars == <<market, decided, status, t, acct, plan, fills, rej, new, metric, saved, rows, runs>>

Empty == [x \in {} |-> 0]
Without(f, x) == [y \in DOMAIN f \ {x} |-> f[y]]
With(f, x, v) == [y \in DOMAIN f \cup {x} |-> IF y = x THEN v ELSE f[y]]
At(f, x, otherwise) == IF x \in DOMAIN f THEN f[x] ELSE otherwise

-----------------------------------------------------------------------------
(* Orders. *)

LegalQuantity(b, q, complete) ==
    CASE complete -> q
      [] ~complete /\ b = "main" -> (q \div Lot) * Lot
      [] OTHER -> IF q >= Small[b] THEN q ELSE 0

\* Children at the cap; a last one below the minimum takes from the one before.
ChildrenOf(b, n, left, complete) ==
    LET short == IF complete \/ n = 0 THEN 0 ELSE Max({0, Small[b] - left}) IN
    [j \in 1..(n + 1) |->
        CASE j = n + 1 -> left + short [] j = n -> Cap[b] - short [] OTHER -> Cap[b]]

Children(b, q, complete) == ChildrenOf(b, (q - 1) \div Cap[b], ((q - 1) % Cap[b]) + 1, complete)

TransactionCost(notional, side) ==
    Max({notional \div Part, Fee}) + IF side = "sell" THEN notional \div Part ELSE 0

ExecutionPrice(raw, side) == (raw * (Bp + IF side = "buy" THEN Slip ELSE -Slip)) \div Bp

Total(f) == FoldFunction(+, 0, f)

ChildCosts(child, price, side) ==
    [j \in DOMAIN child |-> TransactionCost(child[j] * price, side)]

OrderCosts(b, q, price) == Total(ChildCosts(Children(b, q, FALSE), price, "buy"))

IsAffordable(b, q, price, cash) == q * price + OrderCosts(b, q, price) <= cash

Step(b) == IF b = "star" THEN 1 ELSE Lot
Units(b, u) == Small[b] + (u - 1) * Step(b)

\* Mutant: the search moves down past the middle.
MostUnitsShort(b, high, price, cash) ==
    LET search[lo \in 0..high, hi \in 0..high] ==
            IF lo >= hi THEN lo
            ELSE IF IsAffordable(b, Units(b, (lo + hi + 1) \div 2), price, cash)
                 THEN search[(lo + hi + 1) \div 2, hi]
                 ELSE search[lo, Max({0, (lo + hi + 1) \div 2 - 2})]
    IN  search[0, high]

\* Binary search over legal quantities.
MostUnits(b, high, price, cash) ==
    LET search[lo \in 0..high, hi \in 0..high] ==
            IF lo >= hi THEN lo
            ELSE IF IsAffordable(b, Units(b, (lo + hi + 1) \div 2), price, cash)
                 THEN search[(lo + hi + 1) \div 2, hi]
                 ELSE search[lo, (lo + hi + 1) \div 2 - 1]
    IN  search[0, high]

AffordableQuantity(b, q, raw, cash) ==
    IF q < Small[b] THEN 0
    ELSE LET units == MostUnits(b, (q - Small[b]) \div Step(b) + 1, ExecutionPrice(raw, "buy"), cash)
         IN  IF units = 0 THEN 0 ELSE Units(b, units)

Rejection(side, quote) ==
    CASE quote.st = "halt" -> "suspension"
      [] quote.st = "dark" -> "unavailable"
      [] quote.st = "open" /\ side = "buy" /\ quote.lim = "up" -> "upper"
      [] quote.st = "open" /\ side = "sell" /\ quote.lim = "down" -> "lower"
      [] OTHER -> None

\* What the first j fills of an order have of its change of gross cash.
Through(gross, child, j) == (gross * Total(SubSeq(child, 1, j))) \div Total(child)

\* An order's change of cash is shared out to its fills; the last one takes the rest.
FillShares(gross, net, child, costs) ==
    LET n == Len(child)
        share(j) == Through(gross, child, j) - Through(gross, child, j - 1) - costs[j]
    IN  [j \in 1..n |-> IF j < n THEN share(j) ELSE net - Total([i \in 1..(n - 1) |-> share(i)])]

Bought(a, s, q, quote, cost) ==
    LET price == ExecutionPrice(quote.raw, "buy")
        units == (2 * q * quote.raw) \div quote.adj
        held == s \in DOMAIN a.pos
        p == a.pos[s]
    IN  [a EXCEPT !.gross = @ - q * price, !.net = @ - q * price - cost, !.cost = @ + cost,
           !.pos = With(@, s,
              IF held THEN [p EXCEPT !.sh = @ + q, !.un = @ + units, !.last = quote.adj,
                                     !.paid = @ + q * price + cost]
              ELSE [sh |-> q, un |-> units, last |-> quote.adj, paid |-> q * price + cost,
                    since |-> t, age |-> 0, close |-> None])]

\* A sale settles adjusted units, its costs are those of the raw notional.
Sold(a, s, q, quote, cost) ==
    LET p == a.pos[s]
        all == q = p.sh
        units == IF all THEN p.un ELSE (p.un * q) \div p.sh
        settled == (units * ExecutionPrice(quote.adj, "sell")) \div 2
    IN  [a EXCEPT !.gross = @ + settled, !.net = @ + settled - cost, !.cost = @ + cost,
           !.pos = IF all THEN Without(@, s)
                   ELSE [@ EXCEPT ![s].sh = @ - q, ![s].un = @ - units, ![s].last = quote.adj,
                                  ![s].paid = (@ * (p.sh - q)) \div p.sh]]

Booked(a, s, side, q, quote, cost) ==
    IF side = "buy" THEN Bought(a, s, q, quote, cost) ELSE Sold(a, s, q, quote, cost)

Fill(s, side, child, shares) ==
    [j \in DOMAIN child |-> [s |-> s, side |-> side, q |-> child[j], net |-> shares[j]]]

\* execute_order of an order the market does not reject.
ExecuteOrder(s, side, q, quote) ==
    \E child \in {Children(Board[s], q, side = "sell" /\ acct.pos[s].sh = q)} :
    \E costs \in {ChildCosts(child, ExecutionPrice(quote.raw, side), side)} :
    \E b \in {Booked(acct, s, side, q, quote, Total(costs))} :
        /\ acct' = b
        /\ fills' = fills \o Fill(s, side, child,
                                  FillShares(b.gross - acct.gross, b.net - acct.net, child, costs))

-----------------------------------------------------------------------------
(* Valuation.  `day' maps every stock to its quote. *)

Value(pos, s) == (pos[s].un * pos[s].last) \div 2
Worth(pos) == MapThenSumSet(LAMBDA s : Value(pos, s), DOMAIN pos)
Nav(a) == a.net + Worth(a.pos)

\* mark_positions: a stock without an Open is carried at its last price, or written off
\* once delisted.
Marked(day, pos) ==
    [s \in {x \in DOMAIN pos : day[x].st # "gone"} |->
        IF day[s].st = "open" THEN [pos[s] EXCEPT !.last = day[s].adj] ELSE pos[s]]

Unexplained(day, pos) == \E s \in DOMAIN pos : day[s].st = "hole"

\* mark_close_positions: a Close of its own, or the last one during a suspension.
HasClose(day, pos) ==
    \A s \in DOMAIN pos : day[s].st = "open" \/ (day[s].st = "halt" /\ pos[s].close # None)
CloseMarked(day, pos) ==
    [s \in DOMAIN pos |->
        [pos[s] EXCEPT !.age = @ + 1, !.close = IF day[s].st = "open" THEN day[s].adj ELSE @]]

-----------------------------------------------------------------------------
(* The target of the previous Close. *)

TargetCapital(a, g) ==
    (Nav(a) * IF g.cap = None THEN g.expo ELSE Min({g.expo, g.cap})) \div W

Kept(a, g) == [s \in g.keep \cap DOMAIN a.pos |-> Value(a.pos, s)]

\* What exposure leaves after retained holdings goes by weight, or every other holding
\* is reduced in proportion.
Shared(a, g, kept, free) ==
    LET others == Worth(a.pos) - Total(kept) IN
    CASE g.mode = "reduce" ->
            [s \in DOMAIN a.pos \ DOMAIN kept |->
                IF others = 0 THEN 0 ELSE (Value(a.pos, s) * Min({free, others})) \div others]
      [] g.mode = "local" -> Empty
      [] OTHER -> [s \in DOMAIN g.w |-> (free * g.w[s]) \div W]

Override(f, h) == [s \in DOMAIN f \cup DOMAIN h |-> IF s \in DOMAIN h THEN h[s] ELSE f[s]]

\* A local target or an increase never lowers what is held.
Raised(a, g, money) ==
    IF g.mode \notin {"local", "increase"} THEN money
    ELSE Override(money, [s \in DOMAIN a.pos |-> Max({At(money, s, 0), Value(a.pos, s)})])

TargetMoney(a, g, kept) ==
    Raised(a, g, Override(Shared(a, g, kept, Max({0, TargetCapital(a, g) - Total(kept)})), kept))

\* Share limits only lower a target; a holding written off at the Open has none.
Limited(a, g, money) ==
    Override(money,
             [s \in DOMAIN g.lim \cap DOMAIN a.pos |->
                 Min({At(money, s, 0), (Value(a.pos, s) * g.lim[s]) \div a.pos[s].sh})])

\* The exposure cap lowers all of it in proportion.
Scaled(value, sum, room) ==
    IF sum <= room THEN value ELSE [s \in DOMAIN value |-> (value[s] * room) \div sum]

Sorted(S) == SetToSortSeq(S, <)

\* The stocks to buy, in the order the decision names them.
Buying(g) == IF g.mode \in {"reduce", "local"} THEN <<>> ELSE g.order

\* The frozen decision at the Open: target values, and what every buy is short of.
Plan(a, g, money, limited, value) ==
    [g |-> g, value |-> value, money |-> IF value = limited THEN money ELSE value,
     capital |-> IF g.mode = "local" THEN 0 ELSE TargetCapital(a, g),
     need |-> [s \in ToSet(Buying(g)) |-> value[s] - IF s \in DOMAIN a.pos THEN Value(a.pos, s) ELSE 0],
     budget |-> 0, todo |-> Sorted(DOMAIN a.pos)]

\* Shares to sell of s: all of it, the excess over its money, or what its limit asks.
ByMoney(a, p, s) ==
    IF At(p.value, s, 0) = 0 THEN a.pos[s].sh
    ELSE Min({a.pos[s].sh, (a.pos[s].sh * Max({0, Value(a.pos, s) - At(p.money, s, 0)}))
                               \div Max({1, (Value(a.pos, s) * (Bp - Slip)) \div Bp})})

Reduction(a, p, s) ==
    IF s \in DOMAIN p.g.lim THEN Max({ByMoney(a, p, s), a.pos[s].sh - p.g.lim[s]}) ELSE ByMoney(a, p, s)

PassedOver(a, p, s) ==
    \/ p.g.mode = "increase" /\ s \notin DOMAIN p.g.lim /\ p.g.cap = None
    \/ Value(a.pos, s) <= At(p.value, s, 0)

SellQuantity(a, p, s) ==
    IF PassedOver(a, p, s) THEN 0
    ELSE LET q == Reduction(a, p, s) IN LegalQuantity(Board[s], q, q = a.pos[s].sh)

\* One direction for every stock: what was missing when the target was opened.
Need(p, s) == p.need[s]

Deficit(p, s) == Max({0, IF p.g.mode = "increase" THEN Min({Need(p, s), p.budget}) ELSE Need(p, s)})

BuyQuantity(p, s, quote) ==
    AffordableQuantity(Board[s],
                       LegalQuantity(Board[s], Deficit(p, s) \div ExecutionPrice(quote.raw, "buy"), FALSE),
                       quote.raw, acct.net)

-----------------------------------------------------------------------------
(* Metrics. *)

NoRejections == [upper |-> 0, lower |-> 0, suspension |-> 0]
NoMetric == [n |-> 0, entry |-> None, peak |-> 0, peakAt |-> 0, worst |-> <<0, 1>>, from |-> 0,
             fromNav |-> 0, trough |-> 0, back |-> None, low |-> 0, high |-> 0, held |-> 0,
             cash |-> <<0, 1>>, cashAt |-> 0, wt |-> <<0, 1>>, wtAt |-> 0, turns |-> 0,
             rej |-> NoRejections]

Larger(x, y) == x[1] * y[2] > y[1] * x[2]

FirstRow(m, r) ==
    [m EXCEPT !.n = 1, !.peak = r.net, !.peakAt = r.t, !.from = r.t, !.fromNav = r.net,
              !.trough = r.t, !.low = r.hold, !.high = r.hold, !.held = r.hold,
              !.cash = r.cash, !.cashAt = r.t, !.wt = r.wt, !.wtAt = r.t]

\* The deepest fall so far; a deeper one is not recovered yet.
Drawdown(m, r) ==
    LET top == IF r.net > m.peak THEN [nav |-> r.net, at |-> r.t] ELSE [nav |-> m.peak, at |-> m.peakAt]
        fall == <<top.nav - r.net, top.nav>>
        x == [m EXCEPT !.peak = top.nav, !.peakAt = top.at,
                       !.back = IF @ = None /\ m.worst[1] > 0 /\ r.net >= m.fromNav THEN r.t ELSE @]
    IN  IF Larger(fall, m.worst)
        THEN [x EXCEPT !.worst = fall, !.from = top.at, !.fromNav = top.nav, !.trough = r.t, !.back = None]
        ELSE x

LaterRow(m, r) ==
    [Drawdown(m, r) EXCEPT
        !.n = @ + 1, !.low = Min({@, r.hold}), !.high = Max({@, r.hold}), !.held = @ + r.hold,
        !.cash = IF Larger(r.cash, @) THEN r.cash ELSE @,
        !.cashAt = IF Larger(r.cash, m.cash) THEN r.t ELSE @,
        !.wt = IF Larger(r.wt, @) THEN r.wt ELSE @,
        !.wtAt = IF Larger(r.wt, m.wt) THEN r.t ELSE @]

\* advance_strategy_metric_state over the observations of a chunk.
AdvanceRow(m, r) ==
    [(IF m.n = 0 THEN FirstRow(m, r) ELSE LaterRow(m, r)) EXCEPT
        !.entry = IF @ = None /\ r.reb THEN m.n + 1 ELSE @,
        !.turns = @ + IF r.reb THEN 1 ELSE 0,
        !.rej = [k \in DOMAIN m.rej |-> m.rej[k] + r.rej[k]]]

AdvanceMetricState(m, daily) == FoldLeft(AdvanceRow, m, daily)

\* strategy_metrics_from_state: what is published of a chunked run.
MetricsFromState(m) ==
    [worst |-> m.worst, from |-> m.from, trough |-> m.trough, back |-> m.back, low |-> m.low,
     high |-> m.high, held |-> m.held, cashAt |-> m.cashAt, wtAt |-> m.wtAt, turns |-> m.turns,
     rej |-> m.rej, intervals |-> IF m.entry = None THEN m.n - 1 ELSE m.n - m.entry]

\* maximum_drawdown over the whole history.
MaximumDrawdown(daily) ==
    LET n == Len(daily)
        peak(j) == Min({i \in 1..j : \A k \in 1..j : daily[k].net <= daily[i].net})
        fall(j) == <<daily[peak(j)].net - daily[j].net, daily[peak(j)].net>>
        w == Min({j \in 1..n : \A k \in 1..n : ~Larger(fall(k), fall(j))})
        fell == fall(w)[1] > 0
        back == {j \in (w + 1)..n : fell /\ daily[j].net >= daily[peak(w)].net}
    IN  [worst |-> IF fell THEN fall(w) ELSE <<0, 1>>,
         from |-> IF fell THEN peak(w) ELSE 1, trough |-> IF fell THEN w ELSE 1,
         back |-> IF back = {} THEN None ELSE Min(back)]

\* strategy_metrics: the same figures from the observations of the whole run.
MetricsOf(daily) ==
    LET n == Len(daily)
        d == MaximumDrawdown(daily)
        held == [j \in 1..n |-> daily[j].hold]
        turns == {j \in 1..n : daily[j].reb}
        first(x(_)) == Min({j \in 1..n : \A k \in 1..n : ~Larger(x(k), x(j))})
    IN  [worst |-> d.worst, from |-> d.from, trough |-> d.trough, back |-> d.back,
         low |-> Min(Range(held)), high |-> Max(Range(held)), held |-> Total(held),
         cashAt |-> first(LAMBDA j : daily[j].cash), wtAt |-> first(LAMBDA j : daily[j].wt),
         turns |-> Cardinality(turns),
         rej |-> [k \in DOMAIN NoRejections |-> Total([j \in 1..n |-> daily[j].rej[k]])],
         intervals |-> IF turns = {} THEN 0 ELSE n - Min(turns)]

-----------------------------------------------------------------------------
(* Sessions and chunks. *)

Opening == [pos |-> Empty, gross |-> Cash, net |-> Cash, cost |-> 0, pending |-> None]

Init ==
    /\ market = <<>> /\ decided = <<>> /\ rows = <<>>
    /\ status = "between" /\ t = 0 /\ acct = Opening /\ plan = None /\ fills = <<>> /\ rej = <<>>
    /\ new = <<>> /\ metric = NoMetric /\ saved = None /\ runs = 1

execution == <<metric, saved, runs, new>>

\* Quotes and decision of session t + 1: the same in every execution.
Days == IF t < Len(market) THEN {market[t + 1]} ELSE Quotes
Today(s) == market[t + 1][s]
Note(seq, v) == IF t < Len(seq) THEN seq ELSE Append(seq, v)

\* A held stock without an Open or a reason for it ends the run.
OpenUnexplained ==
    /\ status = "running" /\ t < Sessions
    /\ \E day \in Days : Unexplained(day, acct.pos) /\ market' = Note(market, day)
    /\ status' = "failed"
    /\ UNCHANGED <<decided, t, acct, plan, fills, rej, rows, execution>>

SessionOpens ==
    /\ status = "running" /\ t < Sessions
    /\ \E day \in Days :
        /\ ~Unexplained(day, acct.pos)
        /\ market' = Note(market, day)
        /\ acct' = [acct EXCEPT !.pos = Marked(day, @)]
    /\ status' = IF acct.pending = None THEN "close" ELSE "open"
    /\ plan' = None /\ fills' = <<>> /\ rej' = <<>>
    /\ UNCHANGED <<decided, t, rows, execution>>

\* The target frozen at the previous Close, valued at this Open.
TargetOpens ==
    /\ status = "open"
    /\ \E money \in {TargetMoney(acct, acct.pending, Kept(acct, acct.pending))} :
       \E limited \in {Limited(acct, acct.pending, money)} :
       \E value \in {IF acct.pending.cap = None THEN limited
                     ELSE Scaled(limited, Total(limited), (Nav(acct) * acct.pending.cap) \div W)} :
          plan' = Plan(acct, acct.pending, money, limited, value)
    /\ status' = "sell"
    /\ UNCHANGED <<market, decided, t, acct, fills, rej, rows, execution>>

\* execute_order raises for a stock that trades and has no price limits.
NoLimits(quote) == quote.st = "open" /\ quote.lim = "missing"
RunFails == status' = "failed" /\ UNCHANGED <<acct, plan, fills, rej>>

SoldNext == plan' = [plan EXCEPT !.todo = Tail(@)] /\ UNCHANGED status

Sell(s, q) ==
    \/ q = 0 /\ SoldNext /\ UNCHANGED <<acct, fills, rej>>
    \/ q > 0 /\ NoLimits(Today(s)) /\ RunFails
    \/ q > 0 /\ Rejection("sell", Today(s)) # None /\ SoldNext
       /\ rej' = Append(rej, Rejection("sell", Today(s))) /\ UNCHANGED <<acct, fills>>
    \/ q > 0 /\ ~NoLimits(Today(s)) /\ Rejection("sell", Today(s)) = None /\ SoldNext
       /\ ExecuteOrder(s, "sell", q, Today(s)) /\ UNCHANGED rej

\* Holdings in the order of their ids.
SellNext ==
    /\ status = "sell" /\ plan.todo # <<>>
    /\ Sell(Head(plan.todo), SellQuantity(acct, plan, Head(plan.todo)))
    /\ UNCHANGED <<market, decided, t, rows, execution>>

SalesDone ==
    /\ status = "sell" /\ plan.todo = <<>>
    /\ plan' = [plan EXCEPT !.todo = Buying(plan.g),
                            !.budget = Max({0, plan.capital - Worth(acct.pos)})]
    /\ status' = "buy"
    /\ UNCHANGED <<market, decided, t, acct, fills, rej, rows, execution>>

BuyFills(s, q) ==
    /\ ExecuteOrder(s, "buy", q, Today(s))
    /\ plan' = [plan EXCEPT !.todo = Tail(@),
                            !.budget = IF plan.g.mode = "increase"
                                       THEN Max({0, @ - (acct.gross - acct'.gross)}) ELSE @]
    /\ UNCHANGED <<status, rej>>

NotBought(why) ==
    /\ rej' = IF why = None THEN rej ELSE Append(rej, why)
    /\ plan' = [plan EXCEPT !.todo = Tail(@)]
    /\ UNCHANGED <<status, acct, fills>>

\* A stock without an Open: rejected, not eligible any more, or the run fails.
NoQuote(s) ==
    \/ (Deficit(plan, s) = 0 \/ Today(s).st = "gone") /\ NotBought(None)
    \/ Deficit(plan, s) > 0 /\ Today(s).st \in {"halt", "dark"} /\ NotBought(Rejection("buy", Today(s)))
    \/ Deficit(plan, s) > 0 /\ Today(s).st = "hole" /\ RunFails

Buy(s, q) ==
    \/ q = 0 /\ NotBought(None)
    \/ q > 0 /\ NoLimits(Today(s)) /\ RunFails
    \/ q > 0 /\ Rejection("buy", Today(s)) # None /\ NotBought(Rejection("buy", Today(s)))
    \/ q > 0 /\ ~NoLimits(Today(s)) /\ Rejection("buy", Today(s)) = None /\ BuyFills(s, q)

BuyNext ==
    /\ status = "buy" /\ plan.todo # <<>>
    /\ \/ Today(Head(plan.todo)).st = "open"
          /\ Buy(Head(plan.todo), BuyQuantity(plan, Head(plan.todo), Today(Head(plan.todo))))
       \/ Today(Head(plan.todo)).st # "open" /\ NoQuote(Head(plan.todo))
    /\ UNCHANGED <<market, decided, t, rows, execution>>

BuysDone ==
    /\ status = "buy" /\ plan.todo = <<>>
    /\ status' = "close"
    /\ UNCHANGED <<market, decided, t, acct, plan, fills, rej, rows, execution>>

Ratio(x, nav) == IF nav = 0 THEN <<0, 1>> ELSE <<x, nav>>

Count(why) == Cardinality({j \in DOMAIN rej : rej[j] = why})

\* The observation of a session.
Observation(a, nav) ==
    [t |-> t + 1, gross |-> a.gross + nav - a.net, net |-> nav, gcash |-> a.gross, ncash |-> a.net,
     cost |-> a.cost, hold |-> Cardinality(DOMAIN a.pos), reb |-> a.pending # None,
     cash |-> Ratio(a.net, nav), wt |-> Ratio(Max({0} \cup {Value(a.pos, s) : s \in DOMAIN a.pos}), nav),
     rej |-> [k \in DOMAIN NoRejections |-> Count(k)],
     moved |-> Total([j \in DOMAIN fills |-> fills[j].net]), pos |-> a.pos]

\* program_target: limits must reduce an actual holding.
Accepted(g) ==
    g = None \/ \A s \in DOMAIN g.lim : s \in DOMAIN acct.pos /\ g.lim[s] <= acct.pos[s].sh

Decisions == IF t < Len(decided) THEN {decided[t + 1]} ELSE Targets \cup {None}

Raises(g) == acct.net < 0 \/ ~HasClose(market[t + 1], acct.pos) \/ ~Accepted(g)

\* Negative cash, no Close for a holding, or a decision that is not accepted.
CloseRaises ==
    /\ status = "close"
    /\ \E g \in Decisions : Raises(g)
    /\ status' = "failed"
    /\ UNCHANGED <<market, decided, t, acct, plan, fills, rej, rows, execution>>

\* Close marks, the observation and the decision for the next Open.
SessionCloses ==
    /\ status = "close"
    /\ \E g \in Decisions :
        /\ ~Raises(g)
        /\ acct' = [acct EXCEPT !.pos = CloseMarked(market[t + 1], @), !.pending = g]
        /\ decided' = Note(decided, g)
    /\ \E row \in {[Observation(acct, Nav(acct)) EXCEPT !.pos = CloseMarked(market[t + 1], @)]} :
        new' = Append(new, row) /\ rows' = Note(rows, row)
    /\ t' = t + 1 /\ status' = "running" /\ plan' = None
    /\ UNCHANGED <<market, fills, rej, metric, saved, runs>>

\* Mutant: the decision of the last Close is left behind.
ContinuationForgets ==
    [t |-> t, last |-> Last(new), pos |-> acct.pos, pending |-> None,
     count |-> t, metric |-> AdvanceMetricState(metric, new)]

\* The bounded state of a chunk: one observation, positions, pending target, metric state.
Continuation ==
    [t |-> t, last |-> Last(new), pos |-> acct.pos, pending |-> acct.pending,
     count |-> t, metric |-> AdvanceMetricState(metric, new)]

\* _validated_bounded_strategy_state of the chunk that continues.
BoundedState(c) ==
    /\ c.last.t = c.t /\ c.metric.n = c.count /\ c.count >= 1
    /\ \A s \in DOMAIN c.pos : c.pos[s].sh > 0 /\ c.pos[s].paid >= 0 /\ c.pos[s].close # None

Restored(c) ==
    [pos |-> c.pos, gross |-> c.last.gcash, net |-> c.last.ncash, cost |-> c.last.cost,
     pending |-> c.pending]

ChunkEnds ==
    /\ status = "running" /\ new # <<>>
    /\ saved' = Continuation
    /\ status' = IF t = Sessions THEN "done" ELSE "between"
    /\ new' = <<>> /\ fills' = <<>> /\ rej' = <<>>
    /\ UNCHANGED <<market, decided, t, acct, plan, metric, rows, runs>>

ChunkStarts ==
    /\ status = "between"
    /\ status' = "running"
    /\ t' = IF saved = None THEN 0 ELSE saved.t
    /\ acct' = IF saved = None THEN Opening ELSE Restored(saved)
    /\ metric' = IF saved = None THEN NoMetric ELSE saved.metric
    /\ UNCHANGED <<market, decided, plan, fills, rej, new, saved, rows, runs>>

\* Cancellation at a session's edge, or the executor dies: what was not saved is
\* executed again.
Interrupted ==
    /\ status = "running" /\ new # <<>> /\ runs < MaxRuns
    /\ runs' = runs + 1
    /\ status' = "between" /\ new' = <<>> /\ fills' = <<>> /\ rej' = <<>>
    /\ UNCHANGED <<market, decided, t, acct, plan, metric, saved, rows>>

\* The same run executed once more, with other chunks.
ExecutedAgain ==
    /\ status = "done" /\ runs < MaxRuns
    /\ runs' = runs + 1
    /\ status' = "between" /\ saved' = None
    /\ UNCHANGED <<market, decided, t, acct, plan, fills, rej, new, metric, rows>>

Next ==
    \/ OpenUnexplained \/ SessionOpens \/ TargetOpens \/ SellNext \/ SalesDone \/ BuyNext \/ BuysDone
    \/ CloseRaises \/ SessionCloses \/ ChunkEnds \/ ChunkStarts \/ Interrupted \/ ExecutedAgain

Spec == Init /\ [][Next]_vars

-----------------------------------------------------------------------------
(* Properties. *)

\* Types; every holding is a positive number of shares, and the account's costs are the
\* difference of its two cash balances.
TypeOK ==
    /\ status \in {"between", "running", "open", "sell", "buy", "close", "done", "failed"} 
    /\ t \in 0..Sessions /\ runs \in 1..MaxRuns
    /\ acct.gross - acct.net = acct.cost /\ acct.cost \in Nat
    /\ \A s \in DOMAIN acct.pos : acct.pos[s].sh \in Nat \ {0} /\ acct.pos[s].un \in Nat
    /\ Len(market) \in Len(rows)..(Len(rows) + 1) /\ Len(decided) = Len(rows)

\* The fills a run publishes (net_cash_delta) account for every unit of its cash, also
\* where an order's settlement is split over several children.
FillsReconcile ==
    \A j \in DOMAIN rows : Cash + Total([i \in 1..j |-> rows[i].moved]) = rows[j].ncash

\* affordable_quantity finds the largest legal quantity the account's cash pays for, fees
\* of every child included.
AffordableIsLargest ==
    status = "buy" => \A b \in {"main", "star"} : \A q \in 1..(2 * Cap[b] + 1) :
        LET raw == Today(1).raw
            legal == {k \in 1..q : LegalQuantity(b, k, FALSE) = k}
        IN  AffordableQuantity(b, LegalQuantity(b, q, FALSE), raw, acct.net)
            = Max({0} \cup {k \in legal : IsAffordable(b, k, ExecutionPrice(raw, "buy"), acct.net)})

\* A session that buys never ends with negative cash.
BuysAreCovered == (\E j \in DOMAIN fills : fills[j].side = "buy") => acct.net >= 0

\* Every fill is one child order of a legal size: at most the board's cap and, unless
\* the whole holding was sold, at least its minimum and whole lots on the main board.
ChildrenAreLegal ==
    \A j \in DOMAIN fills :
        LET b == Board[fills[j].s]
            liquidated == fills[j].side = "sell" /\ fills[j].s \notin DOMAIN acct.pos
        IN  /\ fills[j].q <= Cap[b]
            /\ liquidated \/ (fills[j].q >= Small[b] /\ (b = "main" => fills[j].q % Lot = 0))

\* However the run is cut into chunks, interrupted or executed again, a session has the
\* observation it had the first time.
Reproducible == \A j \in DOMAIN new : new[j] = rows[new[j].t]

\* What a chunk hands on is always accepted by the chunk that continues it.
ContinuationAccepted == saved # None => BoundedState(saved)

\* The metrics carried through the chunks are those of the whole history, once a target
\* was executed.
MetricsAgree ==
    status = "done" /\ (\E j \in DOMAIN rows : rows[j].reb)
        => MetricsFromState(saved.metric) = MetricsOf(rows)

\* The same of every run, as the kernel's test states it.  It fails for a run without any
\* executed target (README, 9).
MetricsAlwaysAgree == status = "done" => MetricsFromState(saved.metric) = MetricsOf(rows)
=============================================================================
