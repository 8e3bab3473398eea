------------------------------- MODULE Simulator -------------------------------
(***************************************************************************)
(* The backtest: one print at a time, exits and resting entries first, the *)
(* strategy after.  The strategy's answers are a choice.                   *)
(***************************************************************************)
EXTENDS Accounting, SequencesExt

CONSTANTS
    Coins, MaxConcurrent,
    TakeProfit, StopLoss, Callback, Trigger, Buffer,   \* parts of a price, in 1/Unit; 0 is off
    TimeStop, FillTimeout,                             \* seconds; 0 is off
    Prices,        \* the prices printed
    MaxPrints      \* bound: prints of a recording

ASSUME SimulatorAssumption ==
    /\ IsFiniteSet(Coins) /\ MaxConcurrent \in Nat /\ Prices \subseteq Nat \ {0}
    /\ {TakeProfit, StopLoss, Callback, Trigger, Buffer} \subseteq 0..Unit
    /\ TimeStop \in Nat /\ FillTimeout \in Nat /\ MaxPrints \in Nat

VARIABLES
    maker,      \* SimConfig.maker_entry_enabled
    book,       \* _pending and _open of each coin
    mark,       \* _marks
    ts,         \* the time of the last print
    result,     \* BacktestResult, but its trades
    trades,
    ended       \* run_async has returned

vars == <<maker, book, mark, ts, result, trades, ended>>

Nothing == [stage |-> "none"]

\* _open_position.
Opened(side, px, at) ==
    [stage |-> "held", side |-> side, px |-> px, ts |-> at, peak |-> px, armed |-> FALSE,
     stop |-> px * (IF side = "long" THEN Unit - StopLoss ELSE Unit + StopLoss)]

Gain(pos, price) == IF pos.side = "long" THEN price - pos.px ELSE pos.px - price

\* The first half of _check_exits: the peak, then the break-even stop.
Moved(pos, price) ==
    LET long  == pos.side = "long"
        arm   == Trigger > 0 /\ ~pos.armed /\ Gain(pos, price) * Unit >= Trigger * pos.px
        floor == pos.px * (IF long THEN Unit + Buffer ELSE Unit - Buffer)
    IN  [pos EXCEPT
            !.peak = IF (long /\ price > @) \/ (~long /\ price < @) THEN price ELSE @,
            !.armed = @ \/ arm,
            !.stop = IF arm /\ ((long /\ floor > @) \/ (~long /\ floor < @)) THEN floor ELSE @]

\* The other half: stop, target, trail, time, the first that applies.  The stop
\* and the target are booked at their level, the others at the price.
Stopped(pos, price) ==
    IF pos.side = "long" THEN price * Unit <= pos.stop ELSE price * Unit >= pos.stop
TargetOf(pos) == pos.px * (IF pos.side = "long" THEN Unit + TakeProfit ELSE Unit - TakeProfit)
Reached(pos, price) ==
    /\ TakeProfit > 0
    /\ IF pos.side = "long" THEN price * Unit >= TargetOf(pos) ELSE price * Unit <= TargetOf(pos)
Trailed(pos, price) ==
    /\ Callback > 0
    /\ IF pos.side = "long" THEN price * Unit <= pos.peak * (Unit - Callback)
                            ELSE price * Unit >= pos.peak * (Unit + Callback)
TimedOut(pos, at) == TimeStop > 0 /\ at - pos.ts >= TimeStop

ExitTrades(pos, price, at) ==
    LET exit(level, reason) == <<Booked(pos, maker, level, at, reason)>>
    IN  CASE Stopped(pos, price) -> exit(pos.stop, "stop")
          [] ~Stopped(pos, price) /\ Reached(pos, price) -> exit(TargetOf(pos), "take_profit")
          [] ~Stopped(pos, price) /\ ~Reached(pos, price) /\ Trailed(pos, price) ->
                exit(price * Unit, "trailing_stop")
          [] ~Stopped(pos, price) /\ ~Reached(pos, price) /\ ~Trailed(pos, price) /\ TimedOut(pos, at) ->
                exit(price * Unit, "time_stop")
          [] OTHER -> <<>>

\* _check_pending_fills: the timeout before the fill.
Expired(order, at) == FillTimeout > 0 /\ at - order.ts >= FillTimeout
Fills(order, price, at) ==
    ~Expired(order, at) /\ (IF order.side = "long" THEN price <= order.px ELSE price >= order.px)

\* What a print leaves of a coin's order or position.
Settled(pos, price, at) ==
    CASE pos.stage = "held" ->
            IF ExitTrades(Moved(pos, price), price, at) = <<>> THEN Moved(pos, price) ELSE Nothing
      [] pos.stage = "resting" ->
            IF Expired(pos, at) THEN Nothing
            ELSE IF Fills(pos, price, at) THEN Opened(pos.side, pos.px, at) ELSE pos
      [] pos.stage = "none" -> Nothing

OpenOnly(b) == {c \in Coins : b[c].stage = "held"}         \* mutant: resting orders take no room
Live(b) == {c \in Coins : b[c].stage # "none"}

Count(condition) == IF condition THEN 1 ELSE 0
Skips(expired) == 0                                        \* mutant: an expired order is forgotten
SkippedBy(expired) == Count(expired)

-----------------------------------------------------------------------------
\* One turn of run_async.  The strategy has its signal's price from the marks it
\* has seen, which may be none (0); its time is the print's.
Event(c, price, at, signal) ==
    LET was     == book[c]
        settled == [book EXCEPT ![c] = Settled(was, price, at)]
        expired == was.stage = "resting" /\ Expired(was, at)
        filled  == was.stage = "resting" /\ Fills(was, price, at)
        refused == \/ settled[c].stage # "none"
                   \/ Cardinality(Live(settled)) >= MaxConcurrent
                   \/ signal.px <= 0
        given   == signal.side # "none"
        taken   == given /\ ~refused
    IN  /\ trades' = IF was.stage = "held" THEN trades \o ExitTrades(Moved(was, price), price, at) ELSE trades
        /\ book' = IF ~taken THEN settled
                   ELSE [book EXCEPT ![c] =
                            IF maker THEN [stage |-> "resting", side |-> signal.side, px |-> signal.px, ts |-> at]
                            ELSE Opened(signal.side, signal.px, at)]
        /\ result' = [signals |-> result.signals + Count(given),
                      skipped |-> result.skipped + SkippedBy(expired) + Count(given /\ refused),
                      placed |-> result.placed + Count(taken /\ maker),
                      filled |-> result.filled + Count(filled),
                      expired |-> result.expired + Count(expired)]
        /\ mark' = [mark EXCEPT ![c] = price]
        /\ ts' = at
        /\ UNCHANGED <<maker, ended>>

\* _close_remaining: what rests never became a trade, what is held closes at the
\* last mark, with the time of its entry.
Finish ==
    LET resting == {c \in Coins : book[c].stage = "resting"}
        held    == SetToSeq({c \in Coins : book[c].stage = "held"})
        n       == Cardinality(resting)
    IN  /\ ~ended
        /\ ended' = TRUE
        /\ trades' = trades \o [i \in DOMAIN held |->
               Booked(book[held[i]], maker, mark[held[i]] * Unit, book[held[i]].ts, "eod_mark")]
        /\ book' = [c \in Coins |-> Nothing]
        /\ result' = [result EXCEPT !.expired = @ + n, !.skipped = @ + n]
        /\ UNCHANGED <<maker, mark, ts>>

Init ==
    /\ maker \in BOOLEAN
    /\ book = [c \in Coins |-> Nothing]
    /\ mark = [c \in Coins |-> 0]
    /\ ts = 0
    /\ result = [signals |-> 0, skipped |-> 0, placed |-> 0, filled |-> 0, expired |-> 0]
    /\ trades = <<>>
    /\ ended = FALSE

\* The strategy answers with a side, or with none, at the price of this print, of
\* the print before it, or without one.
Signals(c, price) == [side : {"long", "short"}, px : {price, mark[c], 0}] \cup {[side |-> "none", px |-> 0]}

Next ==
    \/ /\ ~ended /\ ts < MaxPrints
       /\ \E c \in Coins, price \in Prices : \E signal \in Signals(c, price) : Event(c, price, ts + 1, signal)
    \/ Finish

Spec == Init /\ [][Next]_vars

-----------------------------------------------------------------------------
(* Properties. *)

Life == INSTANCE TradeLife WITH
    stage <- [c \in Coins |-> book[c].stage],
    signals <- result.signals, skipped <- result.skipped, trades <- Len(trades)

\* The simulator implements TradeLife: one trade at a time of a coin, room for
\* the orders that rest, a trade or a skip of every signal, and no look-ahead:
\* what a print opens, that print does not close (simulator.py: "a signal cannot
\* close on its own entry print").
KeepsTheBook == Life!Spec

\* Nothing is lost between the counters: signals, and orders placed.
Accounted ==
    /\ Life!Accounted
    /\ result.placed = result.filled + result.expired
                       + Cardinality({c \in Coins : book[c].stage = "resting"})

\* The backtest and the live journal measure a trade on the same basis
\* (trade_journal.py, calc_fee_usd): same net result, same fees, same wins and
\* losses; and the scorecard is that of its definition, drawdown included.
BooksAgree ==
    LET records == [i \in DOMAIN trades |-> Recorded(trades[i], maker)]
        stats   == PeriodStats(records, 0)
        m       == Metrics(trades)
    IN  /\ \A i \in DOMAIN trades : trades[i].net = records[i].net_pnl /\ trades[i].fees = records[i].fee
        /\ stats = [count |-> Len(trades), wins |-> m.wins, losses |-> m.losses, net |-> m.equity]
        /\ m.equity = m.profit - m.loss
        /\ m.drawdown \in Drawdowns(trades) /\ \A d \in Drawdowns(trades) : d <= m.drawdown
=============================================================================
