------------------------------ MODULE Accounting -------------------------------
(***************************************************************************)
(* The money of a closed trade, as the backtest books it and as the live   *)
(* journal does, and the statistics of a list of trades.  Everything is an *)
(* integer: a rate or a percentage is in units of 1/Unit, a price that has *)
(* been scaled twice in 1/Unit^2, money in 1/Unit^3.                       *)
(***************************************************************************)
EXTENDS Integers, Sequences, FiniteSets

CONSTANTS
    Unit,              \* 10000 basis points
    MakerFee, TakerFee, Slippage

ASSUME AccountingAssumption ==
    Unit \in Nat \ {0} /\ MakerFee \in Nat /\ TakerFee \in Nat /\ Slippage \in 0..Unit

Scaled(price) == price * Unit * Unit

\* SimConfig's fees: an entry earns the maker's rate only if it rests.
AlwaysMaker(maker) == MakerFee                             \* mutant: also for an entry that crosses
EntryRate(maker) == IF maker THEN MakerFee ELSE TakerFee

\* _book_exit: slippage against the position; level is a price in 1/Unit.
Booked(pos, maker, level, at, reason) ==
    LET long  == pos.side = "long"
        fill  == level * (IF long THEN Unit - Slippage ELSE Unit + Slippage)
        gross == (IF long THEN fill - Scaled(pos.px) ELSE Scaled(pos.px) - fill) * Unit
        fees  == Scaled(pos.px) * EntryRate(maker) + fill * TakerFee
    IN  [side |-> pos.side, entry |-> pos.px, fill |-> fill, gross |-> gross, fees |-> fees,
         net |-> gross - fees, closed |-> at, reason |-> reason]

\* What the live bot writes of the same trade: _calc_pnl_usd, calc_fee_usd,
\* record_closed_trade.
CalcPnl(t) == (IF t.side = "long" THEN t.fill - Scaled(t.entry) ELSE Scaled(t.entry) - t.fill) * Unit
CalcFee(t, makerEntry) ==
    Scaled(t.entry) * (IF makerEntry THEN MakerFee ELSE TakerFee) + t.fill * TakerFee
Recorded(t, makerEntry) ==
    [net_pnl |-> CalcPnl(t) - CalcFee(t, makerEntry), fee |-> CalcFee(t, makerEntry), closed |-> t.closed]

\* sum(): what a list of numbers comes to, after each of them.
Sums(numbers) ==
    LET sum[i \in 0..Len(numbers)] == IF i = 0 THEN 0 ELSE sum[i - 1] + numbers[i]
    IN  sum

\* period_stats over the journal's records since a time.
PeriodStats(records, since) ==
    LET within == {i \in DOMAIN records : records[i].closed >= since}
        nets   == [i \in DOMAIN records |-> IF i \in within THEN records[i].net_pnl ELSE 0]
    IN  [count |-> Cardinality(within),
         wins |-> Cardinality({i \in within : records[i].net_pnl > 0}),
         losses |-> Cardinality({i \in within : records[i].net_pnl < 0}),
         net |-> Sums(nets)[Len(records)]]

\* compute_metrics, one trade at a time, with _max_drawdown of its equity curve.
MaxOf(a, b) == IF a > b THEN a ELSE b
Scored(m, t) ==
    LET equity == m.equity + t.net
        peak   == MaxOf(m.peak, equity)
    IN  [equity |-> equity, peak |-> peak, drawdown |-> MaxOf(m.drawdown, peak - equity),
         fees |-> m.fees + t.fees,
         wins |-> m.wins + (IF t.net > 0 THEN 1 ELSE 0),
         losses |-> m.losses + (IF t.net < 0 THEN 1 ELSE 0),
         profit |-> m.profit + MaxOf(t.net, 0), loss |-> m.loss + MaxOf(-t.net, 0)]
Unscored == [equity |-> 0, peak |-> 0, drawdown |-> 0, fees |-> 0,
             wins |-> 0, losses |-> 0, profit |-> 0, loss |-> 0]
Metrics(trades) ==
    LET scored[i \in 0..Len(trades)] == IF i = 0 THEN Unscored ELSE Scored(scored[i - 1], trades[i])
    IN  scored[Len(trades)]

\* Reference: the deepest fall of the equity from any of its values, the start
\* included, to a later one.
Equity(trades) == Sums([i \in DOMAIN trades |-> trades[i].net])
Drawdowns(trades) ==
    LET equity == Equity(trades)
        pairs  == {p \in (0..Len(trades)) \X (0..Len(trades)) : p[1] <= p[2]}
    IN  {equity[p[1]] - equity[p[2]] : p \in pairs}
=============================================================================
