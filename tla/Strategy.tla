-------------------------------- MODULE Strategy --------------------------------
(***************************************************************************)
(* The strategy task: the engine of the settings, the breadth of the       *)
(* market it shares over all coins, the queue to the router.               *)
(***************************************************************************)
EXTENDS MarketBreadth

CONSTANTS
    RegimeCoin, EmaPeriod, MinGrowth, Interests,            \* of Momentum
    Threshold, Warmup, Cooldown, Sizes, MaxBars,            \* of Dvsla
    SignalCap,                                              \* of both
    Bounds         \* the engines considered, each with its bounds: the clock, the breadth
                   \* marks kept at a time, the open interests of a coin's last reports

ASSUME StrategyAssumption ==
    /\ Bounds \subseteq [engine : {"momentum", "dvsla"}, time : Nat, marks : Nat, interests : SUBSET Nat]
    /\ RegimeCoin \in Coins /\ EmaPeriod \in Nat \ {0} /\ MinGrowth \in Nat /\ Interests \subseteq Nat
    /\ Threshold \in Nat \ {0} /\ Warmup \in Nat /\ Cooldown \in Nat /\ Sizes \subseteq Nat /\ MaxBars \in Nat
    /\ SignalCap \in Nat \ {0}

VARIABLES
    bound,      \* one of Bounds, with settings.strategy_engine; it never changes
    now, marks, box, moves,
    coins, regime, reports, signal,
    bars

M == INSTANCE Momentum
D == INSTANCE Dvsla

momentum == <<coins, regime, reports, signal>>
vars     == <<bound, now, marks, box, moves, momentum, bars>>

\* run_bot: one engine, the tracker and the queue.
Init ==
    /\ bound \in Bounds
    /\ now = 0
    /\ marks = <<>>
    /\ box = 0
    /\ moves = {}
    /\ M!Init
    /\ D!Init

\* The router takes a signal.
Route ==
    /\ box > 0
    /\ box' = box - 1
    /\ UNCHANGED <<now, marks, moves, momentum, bars>>

Tick ==
    /\ now' = now + 1
    /\ UNCHANGED <<marks, box, moves, momentum, bars>>

\* Of the next state.
WithinBound ==
    /\ now' <= bound.time
    /\ Len(marks') <= bound.marks
    /\ \A c \in Coins : ToSet(reports'[c]) \subseteq bound.interests

Next ==
    /\ \/ bound.engine = "momentum" /\ M!Next /\ UNCHANGED bars
       \/ bound.engine = "dvsla" /\ D!Next /\ UNCHANGED momentum
       \/ Route
       \/ Tick
    /\ WithinBound
    /\ UNCHANGED bound

Spec == Init /\ [][Next]_vars

-----------------------------------------------------------------------------
(* Properties. *)

SignalBacked   == M!SignalBacked
SignalsSpaced  == D!SignalsSpaced
BarsCounted    == D!BarsCounted

\* The breadth of the market counts every move of the latest window, and none
\* that is older by more than the window and the skew: although the marks are
\* pruned from the head only, and not in the order of their times.
BreadthBounds ==
    /\ moves \subseteq ToSet(marks)
    /\ \A m \in ToSet(marks) : m.ts >= Last(marks).ts - Window - Skew

-----------------------------------------------------------------------------
(* What the docstring of count_same_side says, and the code does not do. *)

\* The count asked for at the latest move is of coins that moved the same way
\* within the window: none is counted for a move that is older.
CountIsOfWindow ==
    marks # <<>> =>
        LET m == Last(marks) IN
        SameSide(marks, m.direction, m.coin) =
            SameSide(SelectSeq(marks, LAMBDA x : x.ts >= m.ts - Window), m.direction, m.coin)
=============================================================================
