----------------------------- MODULE Microstructure -----------------------------
(***************************************************************************)
(* The running statistics that DVSLA keeps of a coin, and the direction    *)
(* they give a closed bar: the part of a bar that Dvsla leaves open.       *)
(* Windows are kept as running sums and never recomputed.  The numbers are *)
(* integers here, so a comparison of a z-score is one of squares; the      *)
(* rounding of floats is not modelled.                                     *)
(***************************************************************************)
EXTENDS Integers, SequencesExt

CONSTANTS
    OiWindow, RetWindow, FlowWindow,   \* oi_z_window, ret_z_window, flow_window
    OiDrop,        \* the size of oi_z_drop
    RetEntry, RetReject, RetClamp, RetMin,   \* ret_z_entry, ret_z_reject, ret_z_clamp, ret_min_abs_pct
    OiClamp,       \* z_clamp
    FlowMin,       \* flow_imbalance_min, in percent
    MaxOi, MaxRet, PrintSizes,   \* bounds: what is observed
    MaxInputs      \* bound: observations

ASSUME MicrostructureAssumption ==
    /\ OiWindow \in Nat \ {0, 1} /\ RetWindow \in Nat \ {0, 1} /\ FlowWindow \in Nat \ {0}
    /\ {OiDrop, RetEntry, RetReject, RetClamp, RetMin, OiClamp, FlowMin, MaxOi, MaxRet, MaxInputs} \subseteq Nat
    /\ PrintSizes \subseteq Nat

VARIABLES
    prev,       \* _prev_oi, or 0
    oi, rets,   \* RollingStats: of the changes of the open interest, of the bars' returns
    expanding,  \* last_oi_z is at the veto or above
    flow,       \* FlowImbalanceTracker: the trades of the window, the sums of each side
    verdict,    \* the direction of the last bar
    readings, closes, prints   \* ghosts: everything observed

stats == <<prev, oi, rets, expanding, flow, verdict, readings, closes, prints>>

None == 0

-----------------------------------------------------------------------------
\* RollingStats.update.
SquareStays(st, v, w) ==                                   \* mutant: the square is not evicted
    [values |-> Append(IF Len(st.values) = w THEN Tail(st.values) ELSE st.values, v),
     sum    |-> st.sum + v - (IF Len(st.values) = w THEN Head(st.values) ELSE 0),
     sq     |-> st.sq + v * v]
Updated(st, v, w) ==
    LET full == Len(st.values) = w
        out  == IF full THEN Head(st.values) ELSE 0
    IN  [values |-> Append(IF full THEN Tail(st.values) ELSE st.values, v),
         sum    |-> st.sum - out + v,
         sq     |-> st.sq - out * out + v * v]

\* z_score(v) >= k > 0, within the clamp: 0 without two values or without
\* variance.  Both sides are squared; times n * n * (n - 1).
AtLeast(st, v, k, clamp) ==
    LET n      == Len(st.values)
        excess == n * v - st.sum
        spread == n * st.sq - st.sum * st.sum
    IN  /\ k <= clamp
        /\ n >= 2 /\ spread > 0
        /\ excess > 0
        /\ excess * excess * (n - 1) >= k * k * n * spread

\* The same of the other tail.
Mirrored(st) == [st EXCEPT !.sum = -@]
AtMost(st, v, k, clamp) == AtLeast(Mirrored(st), -v, k, clamp)

\* OIZScoreTracker.update: a reading repeated says nothing and is not counted; a
\* change is scored before it joins the window.
Ctx(reading) ==
    LET delta == reading - prev IN
    /\ prev' = reading
    /\ IF prev = None \/ delta = 0 THEN UNCHANGED <<oi, expanding>>
       ELSE /\ expanding' = AtLeast(oi, delta, OiDrop, OiClamp)
            /\ oi' = Updated(oi, delta, OiWindow)
    /\ readings' = Append(readings, reading)
    /\ UNCHANGED <<rets, flow, verdict, closes, prints>>

\* FlowImbalanceTracker.update: a side it does not know counts for none.
Sides == {"buy", "sell", "unknown"}
Trade(side, size) ==
    LET full == Len(flow.window) = FlowWindow
        out  == IF full THEN Head(flow.window) ELSE [buy |-> 0, sell |-> 0]
        in   == [buy |-> IF side = "buy" THEN size ELSE 0, sell |-> IF side = "sell" THEN size ELSE 0]
    IN  /\ flow' = [window |-> Append(IF full THEN Tail(flow.window) ELSE flow.window, in),
                    buys   |-> flow.buys - out.buy + in.buy,
                    sells  |-> flow.sells - out.sell + in.sell]
        /\ prints' = Append(prints, in)
        /\ UNCHANGED <<prev, oi, rets, expanding, verdict, readings, closes>>

\* _flow_confirms: (buys - sells) / (buys + sells), 0 without volume.
Confirms(up) ==
    LET lead  == IF up THEN flow.buys - flow.sells ELSE flow.sells - flow.buys
        total == flow.buys + flow.sells
    IN  IF total = 0 THEN FlowMin = 0 ELSE 100 * lead >= FlowMin * total

\* _classify_cascade.
Classified(ret) ==
    IF AtMost(rets, ret, RetEntry, RetClamp) THEN "down"
    ELSE IF AtLeast(rets, ret, RetEntry, RetClamp) THEN "up" ELSE "none"

\* _on_bar_close, as far as the statistics go: a move large enough, unusual but
\* not absurd, with the flow behind it, and no fresh money against it (the engine
\* fades a cascade unless dvsla_invert says otherwise, and vetoes by default).
Direction(ret) ==
    LET real   == ret >= RetMin \/ ret <= -RetMin
        absurd == RetReject > 0 /\ (AtLeast(rets, ret, RetReject, RetClamp) \/ AtMost(rets, ret, RetReject, RetClamp))
        is     == Classified(ret)
    IN  IF real /\ ~absurd /\ is # "none" /\ Confirms(is = "up") /\ ~expanding THEN is ELSE "none"

Bar(ret) ==
    /\ verdict' = Direction(ret)
    /\ rets' = Updated(rets, ret, RetWindow)
    /\ closes' = Append(closes, ret)
    /\ UNCHANGED <<prev, oi, expanding, flow, readings, prints>>

-----------------------------------------------------------------------------
NoStats == [values |-> <<>>, sum |-> 0, sq |-> 0]

StatsInit ==
    /\ prev = None
    /\ oi = NoStats /\ rets = NoStats
    /\ expanding = FALSE
    /\ flow = [window |-> <<>>, buys |-> 0, sells |-> 0]
    /\ verdict = "none"
    /\ readings = <<>> /\ closes = <<>> /\ prints = <<>>

StatsNext ==
    /\ Len(readings) + Len(closes) + Len(prints) < MaxInputs
    /\ \/ \E reading \in 1..MaxOi : Ctx(reading)
       \/ \E side \in Sides, size \in PrintSizes : Trade(side, size)
       \/ \E ret \in (-MaxRet)..MaxRet : Bar(ret)

StatsSpec == StatsInit /\ [][StatsNext]_stats

-----------------------------------------------------------------------------
(* Properties. *)

\* The changes in a history of readings.
Changes(seen) ==
    LET found[i \in 0..Len(seen)] ==
            IF i < 2 THEN <<>>
            ELSE IF seen[i] # seen[i - 1] THEN Append(found[i - 1], seen[i] - seen[i - 1]) ELSE found[i - 1]
    IN  found[Len(seen)]

\* The last w of a sequence.
Recent(s, w) == SubSeq(s, IF Len(s) > w THEN Len(s) - w + 1 ELSE 1, Len(s))

Total(s) ==
    LET upTo[i \in 0..Len(s)] == IF i = 0 THEN 0 ELSE upTo[i - 1] + s[i]
    IN  upTo[Len(s)]

\* The statistics of a window from its values alone.
StatsOf(s) == [values |-> s, sum |-> Total(s), sq |-> Total([i \in DOMAIN s |-> s[i] * s[i]])]

\* The running sums are those of the last observations, after any number of
\* evictions; a repeated open interest is in no window (oi_zscore.py:28).
SumsExact ==
    /\ oi = StatsOf(Recent(Changes(readings), OiWindow))
    /\ rets = StatsOf(Recent(closes, RetWindow))
    /\ flow.window = Recent(prints, FlowWindow)
    /\ flow.buys = Total([i \in DOMAIN flow.window |-> flow.window[i].buy])
    /\ flow.sells = Total([i \in DOMAIN flow.window |-> flow.window[i].sell])

\* The veto is that of the latest change, scored against the changes before it,
\* however many repeated readings came since.
VetoExact ==
    LET changes == Changes(readings) IN
    expanding <=> /\ changes # <<>>
                  /\ AtLeast(StatsOf(Recent(Front(changes), OiWindow)), Last(changes), OiDrop, OiClamp)

\* A bar has a direction only if its return is large, and unusual but not absurd
\* on that side of the returns before it, its own not among them.
DirectionJustified ==
    LET before == StatsOf(Recent(Front(closes), RetWindow))
        ret    == Last(closes)
    IN  verdict # "none" =>
            /\ closes # <<>>
            /\ ret >= RetMin \/ ret <= -RetMin
            /\ IF verdict = "up" THEN AtLeast(before, ret, RetEntry, RetClamp)
               ELSE AtMost(before, ret, RetEntry, RetClamp)
            /\ RetReject > 0 => ~AtLeast(before, ret, RetReject, RetClamp) /\ ~AtMost(before, ret, RetReject, RetClamp)

\* The windows, and what is read off them, are those of the history: the three
\* parts above.
WindowsExact == SumsExact /\ VetoExact /\ DirectionJustified
=============================================================================
