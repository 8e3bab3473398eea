--------------------------------- MODULE Dvsla ---------------------------------
(***************************************************************************)
(* The cascade strategy: trades fill bars of equal volume, and a bar that  *)
(* closes on a cascade gives a signal, past the warm-up and the cooldown,  *)
(* unless the market moves as one.  What the statistics say of a bar is a  *)
(* choice; signals go to a bounded queue without waiting.                  *)
(***************************************************************************)
EXTENDS MarketBreadth

CONSTANTS
    Threshold,     \* volume_bar_threshold
    Warmup,        \* warmup_bars
    Cooldown,      \* cooldown_bars
    Sizes,         \* the sizes of trades
    SignalCap,     \* maxsize of the signal queue
    MaxBars        \* bound: bars of a coin

VARIABLES
    now,        \* the host's clock
    marks,      \* MarketBreadthTracker._marks
    box,        \* signals in the queue
    moves,      \* ghost: what was recorded as breadth, in the latest window
    bars        \* _SymbolState of each coin; ghosts: its volume, the bars made of it,
                \* those that gave a signal, whether the queue ever refused one

vars == <<now, marks, box, moves, bars>>

None == 0

-----------------------------------------------------------------------------
\* VolumeBarAggregator.update: a trade fills the open bar and as many new ones
\* as it takes; what is left opens the next.
Drops(acc, size) ==                                        \* mutant: the residue is dropped
    [closed |-> (acc + size) \div Threshold, acc |-> IF acc + size >= Threshold THEN 0 ELSE acc + size]
Fill(acc, size) ==
    LET step[left \in 0..size] ==
            [a \in 0..(Threshold - 1) |->
                LET fill == IF left < Threshold - a THEN left ELSE Threshold - a
                    next == step[left - fill]
                IN  IF left = 0 THEN [closed |-> 0, acc |-> a]
                    ELSE IF a + fill < Threshold THEN next[a + fill]
                    ELSE [closed |-> next[0].closed + 1, acc |-> next[0].acc]]
    IN  step[size][acc]

\* What the statistics make of a bar: no cascade, or one of a direction, in a
\* mean-reverting stretch or not.
Verdicts ==
    [move : Directions, reverting : BOOLEAN] \cup {[move |-> "none", reverting |-> FALSE]}

OneBarShort(st) == st.last = None \/ st.count - st.last >= Cooldown - 1  \* mutant: off by one
CooldownElapsed(st) == st.last = None \/ st.count - st.last >= Cooldown

\* _emit, of the bar-th bar: the cooldown begins before the queue refuses the signal.
Emitted(s, bar) ==
    LET full == s.box >= SignalCap
    IN  [s EXCEPT !.last = s.count, !.fired = Append(@, bar),
                  !.box = IF full THEN @ ELSE @ + 1, !.raised = full]

\* _on_bar_close, with the breadth and the queue that the bars before it left.
\* The error of a refused signal ends the trade's loop, and the bars that it
\* closed besides go uncounted.
Closed(c, ts, s, v) ==
    LET st      == [s EXCEPT !.count = @ + 1, !.made = @ + 1]
        cascade == v.move # "none" /\ st.count >= Warmup /\ CooldownElapsed(st)
        seen    == [st EXCEPT !.marks = Recorded(@, c, v.move, ts), !.moves = InWindow(@, c, v.move, ts)]
    IN  IF s.raised THEN [s EXCEPT !.made = @ + 1]
        ELSE IF ~cascade THEN st
        ELSE IF v.reverting /\ ~Synchronized(seen.marks, v.move, c) THEN Emitted(seen, seen.made)
        ELSE seen

\* _on_trade.
Trade(c, size, ts) ==
    LET st     == bars[c]
        filled == Fill(st.acc, size)
        start  == [count |-> st.count, last |-> st.last, made |-> st.made, fired |-> st.fired,
                   marks |-> marks, moves |-> moves, box |-> box, raised |-> FALSE]
    IN  \E verdicts \in [1..filled.closed -> Verdicts] :
            LET after[i \in 0..filled.closed] ==
                    IF i = 0 THEN start ELSE Closed(c, ts, after[i - 1], verdicts[i])
            IN
            \E end \in {after[filled.closed]} :
                /\ marks' = end.marks
                /\ moves' = end.moves
                /\ box' = end.box
                /\ bars' = [bars EXCEPT ![c] =
                       [acc |-> filled.acc, count |-> end.count, last |-> end.last,
                        volume |-> st.volume + size, made |-> end.made, fired |-> end.fired,
                        raised |-> st.raised \/ end.raised]]
                /\ UNCHANGED now

-----------------------------------------------------------------------------
Init ==
    bars = [c \in Coins |-> [acc |-> 0, count |-> 0, last |-> None,
                             volume |-> 0, made |-> 0, fired |-> <<>>, raised |-> FALSE]]

Next ==
    \E c \in Coins, size \in Sizes, ts \in (now - Skew)..now :
        /\ bars[c].made < MaxBars
        /\ Trade(c, size, ts)

-----------------------------------------------------------------------------
(* Properties. *)

\* A coin gives no signal before its warm-up, nor two within the cooldown, both
\* in bars that were really made: also for two bars of one trade, and after an
\* error has left the count of bars behind (test_dvsla.py: cooldown, warm-up).
SignalsSpaced ==
    \A c \in Coins : LET f == bars[c].fired IN
        /\ \A i \in DOMAIN f : f[i] >= Warmup
        /\ \A i \in 1..(Len(f) - 1) : f[i + 1] - f[i] >= Cooldown

\* No volume is lost or counted twice on its way into bars, however a trade
\* spreads over them; and every bar is counted unless the signal queue was full.
BarsCounted ==
    \A c \in Coins : LET st == bars[c] IN
        /\ st.made = st.volume \div Threshold
        /\ st.acc = st.volume % Threshold
        /\ st.count <= st.made
        /\ ~st.raised => st.count = st.made
=============================================================================
