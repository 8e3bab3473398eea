----------------------------- MODULE StopEngine -----------------------------
(***************************************************************************)
(* The prices of one managed position: PositionManager.on_price_update     *)
(* from the staleness check to the exit it requests, the record the store  *)
(* keeps of the position, and the limit price route_exit asks for.         *)
(* Execution leaves these prices to chance; here one coin is followed, and *)
(* one tick is one step.                                                   *)
(*                                                                         *)
(* Prices are integers; levels derived from them (stops, triggers, limits) *)
(* are multiplied by Unit, percentages are parts of Unit.                  *)
(***************************************************************************)
EXTENDS Integers

CONSTANTS
    Prices,      \* marks
    StopWidths,  \* initial stop distances: INITIAL_STOP_PCT or the ATR band
    FeeBuffer,   \* FEE_BUFFER_PCT
    Trigger,     \* settings.break_even_trigger_pct, 0 = off
    Callback,    \* settings.trailing_callback_pct, 0 = off
    Reversion,   \* settings.reversion_tp_enabled
    MinHold,     \* settings.min_hold_seconds
    MaxHold,     \* settings.max_hold_seconds, 0 = off
    Gap,         \* settings.mark_staleness_gap_seconds, 0 = off
    Debounce,    \* PEAK_PERSIST_DEBOUNCE_SECONDS
    Slippage,    \* market_slippage_pct of the order router
    LiveModes,   \* the values `not settings.bot_dry_run` may have
    MaxTime,     \* bound: the clock
    MaxStep      \* bound: time between two marks

Unit == 1000

ASSUME PriceAssumption == Prices \subseteq Nat \ {0}
ASSUME RateAssumption ==
    /\ StopWidths \subseteq 0..Unit
    /\ FeeBuffer \in Nat /\ Trigger \in Nat /\ Callback \in Nat /\ Slippage \in Nat
ASSUME TimeAssumption ==
    /\ MinHold \in Nat /\ MaxHold \in Nat /\ Gap \in Nat /\ Debounce \in Nat
    /\ MaxTime \in Nat /\ MaxStep \in Nat \ {0}
ASSUME ModeAssumption == Reversion \in BOOLEAN /\ LiveModes \subseteq BOOLEAN

VARIABLES
    live,       \* exits go to the exchange, not to the dry run
    now,        \* the clock, at the last mark
    mark,       \* the last mark
    lastMark,   \* _last_mark_ts, Never before the first mark of the process
    pos,        \* the ManagedPosition, or NoPosition
    saved,      \* its record in the open-positions file, or NoPosition
    persisted,  \* _last_peak_persist
    tick,       \* ghost: what the last mark led to
    peakAt,     \* ghost: when the peak last moved
    syncedAt    \* ghost: when the file last held the peak

vars == <<live, now, mark, lastMark, pos, saved, persisted, tick, peakAt, syncedAt>>

Never      == -1
NoPosition == [side |-> 0]
Sides      == {1, -1}    \* long, short: the sign of a gain

Open(p) == p.side # 0

-----------------------------------------------------------------------------
(* Levels.  A price is past a level when it has reached it from the good side
   of the position: at or under it for a long, at or over it for a short. *)

Past(side, price, level)  == side * (price * Unit - level) <= 0
Shifted(side, price, rate) == price * (Unit + side * rate)

Stop0(side, entry, width) == Shifted(side, entry, -width)

BetterPeak(p, m) == IF p.side * (m - p.peak) > 0 THEN m ELSE p.peak

GainReached(p, m) == p.side * (m - p.entry) * Unit >= Trigger * p.entry

BreakEvenStop(p) == Shifted(p.side, p.entry, FeeBuffer)

Tighter(p, level) == IF p.side * (level - p.stop) > 0 THEN level ELSE p.stop

-----------------------------------------------------------------------------
(* One mark of a position. *)

WithPeak(p, m) == [p EXCEPT !.peak = BetterPeak(p, m)]

Arms(p, m) == Trigger > 0 /\ ~p.armed /\ GainReached(p, m)

StopLeft(p) == [p EXCEPT !.armed = TRUE]                   \* mutant: stop not moved

Armed(p) == [p EXCEPT !.armed = TRUE, !.stop = Tighter(p, BreakEvenStop(p))]

\* Both updates of the position before the exits are looked at.
Updated(p, m) ==
    LET q == WithPeak(p, m) IN IF Arms(q, m) THEN Armed(q) ELSE q

WithinMinHold(p, t)   == t - p.opened < MinHold
PastMaxHold(p, t)     == MaxHold > 0 /\ t - p.opened > MaxHold   \* mutant: strict
ExceededMaxHold(p, t) == MaxHold > 0 /\ t - p.opened >= MaxHold

StopDue(p, m, t) == Past(p.side, m, p.stop) /\ ~WithinMinHold(p, t)
TrailDue(p, m)   == Callback > 0 /\ Past(p.side, m, Shifted(p.side, p.peak, -Callback))

\* The rolling mean is any price; the position must be in profit.
MayRevert(p, m)  == Reversion /\ p.side * (m - p.entry) > 0

\* The exits in the order they are tried; at most one is requested.
Decision(p, m, t) ==
    IF StopDue(p, m, t) THEN {"stop_loss"}
    ELSE (IF MayRevert(p, m) THEN {"reversion_tp"} ELSE {})
         \cup {IF TrailDue(p, m) THEN "trailing_stop"
               ELSE IF ExceededMaxHold(p, t) THEN "time_stop" ELSE "hold"}

\* What upsert calls leave in the file: an armed position at once, a new peak
\* at most every Debounce seconds.
PeakSaved(p, m, t) ==
    BetterPeak(p, m) # p.peak /\ (persisted = Never \/ t - persisted >= Debounce)

ArmingNotSaved(p, m, t) ==                                 \* mutant: no upsert on arming
    IF PeakSaved(p, m, t) THEN WithPeak(p, m) ELSE saved

PeakNeverSaved(p, m, t) ==                                 \* mutant: no upsert of a peak
    IF Arms(WithPeak(p, m), m) THEN Updated(p, m) ELSE saved

SavedAfter(p, m, t) ==
    IF Arms(WithPeak(p, m), m) THEN Updated(p, m)
    ELSE IF PeakSaved(p, m, t) THEN WithPeak(p, m)
    ELSE saved

\* route_exit: a limit at the peak less the slippage, immediate or cancelled.
\* The book is at the mark; a dry run takes every exit.
ExitLimit(p) == Shifted(p.side, p.peak, -Slippage)
ExitTaken(p, m) == ~live \/ p.side * (m * Unit - ExitLimit(p)) >= 0

StaleGap(t) == Gap > 0 /\ lastMark # Never /\ t - lastMark > Gap

\* on_price_update, the switch open.
Tick(m, t) ==
    /\ now' = t /\ mark' = m /\ lastMark' = t /\ UNCHANGED live
    /\ \/ /\ StaleGap(t)
          /\ tick' = "stale"
          /\ UNCHANGED <<pos, saved, persisted, peakAt, syncedAt>>
       \/ /\ ~StaleGap(t) /\ ~Open(pos)
          /\ tick' = "flat"
          /\ UNCHANGED <<pos, saved, persisted, peakAt, syncedAt>>
       \/ /\ ~StaleGap(t) /\ Open(pos)
          /\ peakAt' = IF BetterPeak(pos, m) # pos.peak THEN t ELSE peakAt
          /\ tick' \in Decision(Updated(pos, m), m, t)
          /\ \/ /\ tick' = "hold" \/ ~ExitTaken(Updated(pos, m), m)
                /\ pos' = Updated(pos, m)
                /\ saved' = SavedAfter(pos, m, t)
                /\ persisted' = IF PeakSaved(pos, m, t) THEN t ELSE persisted
                /\ syncedAt' = IF saved'.peak = pos'.peak THEN t ELSE syncedAt
             \/ /\ tick' # "hold" /\ ExitTaken(Updated(pos, m), m)
                /\ pos' = NoPosition /\ saved' = NoPosition /\ persisted' = Never
                /\ syncedAt' = t

\* _open_position and register_position: the peak starts at the entry.
Enter(side, width) ==
    /\ ~Open(pos) /\ lastMark # Never
    /\ pos' = [side |-> side, entry |-> mark, stop |-> Stop0(side, mark, width),
               armed |-> FALSE, peak |-> mark, opened |-> now]
    /\ saved' = pos'
    /\ peakAt' = now /\ syncedAt' = now
    /\ tick' = "entered"
    /\ UNCHANGED <<live, now, mark, lastMark, persisted>>

\* Another coin's upsert writes the whole dictionary, this position included.
OtherCoinSaved ==
    /\ Open(pos)
    /\ saved' = pos
    /\ syncedAt' = now
    /\ UNCHANGED <<live, now, mark, lastMark, pos, persisted, tick, peakAt>>

\* A crash and recover_positions: the position comes back as the file has it.
Restart ==
    /\ pos' = saved
    /\ lastMark' = Never /\ persisted' = Never
    /\ tick' = "restarted"
    /\ syncedAt' = now
    /\ UNCHANGED <<live, now, mark, saved, peakAt>>

-----------------------------------------------------------------------------
Init ==
    /\ live \in LiveModes
    /\ now = 0 /\ mark \in Prices
    /\ lastMark = Never /\ persisted = Never
    /\ pos = NoPosition /\ saved = NoPosition
    /\ tick = "flat" /\ peakAt = 0 /\ syncedAt = 0

Next ==
    \/ \E m \in Prices, dt \in 1..MaxStep : now + dt <= MaxTime /\ Tick(m, now + dt)
    \/ \E side \in Sides, width \in StopWidths : Enter(side, width)
    \/ OtherCoinSaved \/ Restart

Spec == Init /\ [][Next]_vars

-----------------------------------------------------------------------------
(* Properties. *)

SameTrade == Open(pos) /\ Open(pos)' /\ tick' # "entered"

\* A stop only ever tightens, across marks, refused exits and restarts: what was
\* locked in before a crash is locked in after it.
StopNeverLoosens == [][SameTrade => pos.side * (pos'.stop - pos.stop) >= 0]_vars

\* In a dry run, where no exit is refused: once break-even is armed, no fresh
\* mark past the minimum hold leaves the position open without the entry and its
\* fees covered.
Fresh == tick \in {"hold", "stop_loss", "reversion_tp", "trailing_stop", "time_stop"}

ArmedNeverUnderwater ==
    ~live /\ Fresh /\ Open(pos) /\ pos.armed /\ now - pos.opened >= MinHold =>
        pos.side * (mark * Unit - pos.entry * (Unit + pos.side * FeeBuffer)) > 0

\* The hold window ends every trade a fresh mark reaches in a dry run, where no
\* exit is refused: also one that was young at its stop or was restarted.
HoldEnds ==
    ~live /\ Fresh /\ Open(pos) => MaxHold = 0 \/ now - pos.opened < MaxHold

\* A crash loses at most Debounce seconds of peak: a peak the file does not have
\* was reached less than that after the file last had the position's peak.
PeakLagBounded ==
    Open(pos) /\ saved.peak # pos.peak => peakAt - syncedAt < Debounce

-----------------------------------------------------------------------------
(* What the repository says of exits, and the code does not do. *)

\* An exit is an immediate order that fills as a taker: a requested exit closes
\* the position.
ExitsFill ==
    [][tick' \in {"stop_loss", "trailing_stop", "time_stop"} /\ now' > now => ~Open(pos)']_vars
=============================================================================
