-------------------------------- MODULE Momentum --------------------------------
(***************************************************************************)
(* The momentum strategy: a price move over the trades of a window, backed *)
(* by a rise of the open interest, at once or at the next report of it, in *)
(* the direction the market's regime allows.  The volume gate and the EMA  *)
(* are choices; signals go to a bounded queue without waiting.             *)
(***************************************************************************)
EXTENDS MarketBreadth

CONSTANTS
    RegimeCoin,    \* params.regime_coin
    EmaPeriod,     \* marks of it before there is a regime
    MinGrowth,     \* oi_min_increase_pct
    SignalCap,     \* maxsize of the signal queue
    Interests      \* bound: the open interests reported

VARIABLES
    now,        \* the host's clock
    marks,      \* MarketBreadthTracker._marks
    box,        \* signals in the queue
    moves,      \* ghost: what was recorded as breadth, in the latest window
    coins,      \* _CoinState of each coin
    regime,     \* _committed_regime, and the marks the tracker has, up to EmaPeriod
    reports,    \* ghost: the last three open interests reported of each coin
    signal      \* ghost: the signal of the last step, and what was known of its coin

vars == <<now, marks, box, moves, coins, regime, reports, signal>>

NoReport == -1
None     == [side |-> "none", baseline |-> NoReport]

Direction(side) == IF side = "long" THEN "up" ELSE "down"

-----------------------------------------------------------------------------
\* _detect_breakout: the trades of the window move the price to a side, and are
\* many and loud enough, or not.
Sides == {"none", "long", "short"}
Breakout(st, side) ==
    IF side # "none" /\ st.prev > 0 THEN [side |-> side, baseline |-> st.prev] ELSE None

\* _confirm_oi.
Grown(oi, baseline) == oi > 0 /\ (oi - baseline) * 100 >= baseline * MinGrowth

Allowed(side, r) == r = (IF side = "long" THEN "bullish" ELSE "bearish")

\* _breadth_record, _breadth_blocks: a move counts before its coin is judged.
BreadthRecord(c, side, ts) ==
    /\ marks' = Recorded(marks, c, Direction(side), ts)
    /\ moves' = InWindow(moves, c, Direction(side), ts)
BreadthBlocks(c, side) == Synchronized(marks', Direction(side), c)

\* _publish_signal: a full queue refuses the signal, and the error is logged.
Publish(c, side) ==
    /\ signal' = [side |-> side, regime |-> regime'.is, reports |-> reports'[c]]
    /\ box' = IF box < SignalCap THEN box + 1 ELSE box

Silent == signal' = None /\ box' = box

\* _arm_pending_breakout.
Arm(c, st, cand, ts) ==
    /\ coins' = [coins EXCEPT ![c] = [st EXCEPT !.pending = cand]]
    /\ BreadthRecord(c, cand.side, ts)
    /\ Silent

\* What becomes of a candidate of the coin c.  One that the open interest does
\* not confirm waits for the next report, unless it has waited already.
Judged(c, st, cand, waited, ts) ==
    LET known   == cand # None /\ Allowed(cand.side, regime'.is)
        grown   == known /\ Grown(st.oi, cand.baseline)
        settled == coins' = [coins EXCEPT ![c] = [st EXCEPT !.pending = IF waited THEN None ELSE @]]
    IN  \/ /\ grown
           /\ settled
           /\ BreadthRecord(c, cand.side, ts)
           /\ IF BreadthBlocks(c, cand.side) THEN Silent ELSE Publish(c, cand.side)
        \/ known /\ ~grown /\ ~waited /\ Arm(c, st, cand, ts)
        \/ /\ ~known \/ (~grown /\ waited)
           /\ settled
           /\ UNCHANGED <<marks, moves>>
           /\ Silent

\* regime(): none before EmaPeriod marks; then above the band, below it, or
\* between, where it stays as it was.
Regimes(r) ==
    LET count == IF r.marks < EmaPeriod THEN r.marks + 1 ELSE EmaPeriod
    IN  {[marks |-> count, is |-> i] : i \in IF count < EmaPeriod THEN {"neutral"}
                                             ELSE {"bullish", "bearish", r.is}}

\* on_market_event: a report of a coin's mark and open interest, or a trade.
FirstKept(st, oi) ==                                       \* mutant: the first report stays the baseline
    [st EXCEPT !.prev = IF @ = NoReport THEN st.oi ELSE @, !.oi = oi]
Reported(st, oi) == [st EXCEPT !.prev = IF st.oi = NoReport THEN @ ELSE st.oi, !.oi = oi]

LastThree(s) == SubSeq(s, IF Len(s) > 3 THEN Len(s) - 2 ELSE 1, Len(s))

Ctx(c, oi, side) ==
    LET st     == Reported(coins[c], oi)
        waited == st.pending # None
    IN  /\ regime' \in IF c = RegimeCoin THEN Regimes(regime) ELSE {regime}
        /\ reports' = [reports EXCEPT ![c] = LastThree(Append(@, oi))]
        /\ Judged(c, st, IF waited THEN st.pending ELSE Breakout(st, side), waited, now)
        /\ UNCHANGED now

Trade(c, side, ts) ==
    /\ UNCHANGED <<now, regime, reports>>
    /\ Judged(c, coins[c], Breakout(coins[c], side), FALSE, ts)

-----------------------------------------------------------------------------
Init ==
    /\ coins = [c \in Coins |-> [oi |-> NoReport, prev |-> NoReport, pending |-> None]]
    /\ regime = [marks |-> 0, is |-> "neutral"]
    /\ reports = [c \in Coins |-> <<>>]
    /\ signal = None

Next ==
    \E c \in Coins, side \in Sides :
        \/ \E oi \in Interests : Ctx(c, oi, side)
        \/ \E ts \in (now - Skew)..now : Trade(c, side, ts)

-----------------------------------------------------------------------------
(* Properties. *)

\* No signal without new money: the open interest has grown by the minimum over
\* the last report or the last two, and the regime is on the signal's side,
\* also for a breakout that waited while reports and regimes changed.
SignalBacked ==
    signal # None =>
        LET h == signal.reports IN
        /\ Allowed(signal.side, signal.regime)
        /\ \E k \in 1..(Len(h) - 1) : Grown(h[Len(h)], h[Len(h) - k])
=============================================================================
