------------------------- MODULE StopEngineProofs -------------------------
(***************************************************************************)
(* StopNeverLoosens, ArmedNeverUnderwater, HoldEnds and PeakLagBounded of  *)
(* StopEngine, for every set of prices and every setting.  They rest on    *)
(* the same invariant: the file holds the position as it is, but for its   *)
(* peak, so a restart brings back the stop and the break-even mark; and an *)
(* armed stop covers the fees.                                             *)
(***************************************************************************)
EXTENDS StopEngine, TLAPS

Position ==
    [side : {1, -1}, entry : Nat, stop : Int, armed : BOOLEAN, peak : Nat, opened : Int]

\* All of a position but its peak.
SameButPeak(p, q) ==
    /\ p.side = q.side /\ p.entry = q.entry /\ p.stop = q.stop
    /\ p.armed = q.armed /\ p.opened = q.opened

Covers(p) == p.armed => p.side * (p.stop - BreakEvenStop(p)) >= 0

StopInv ==
    /\ now \in Int /\ mark \in Nat
    /\ pos = NoPosition => saved = NoPosition
    /\ pos # NoPosition => pos \in Position /\ saved \in Position /\ SameButPeak(pos, saved)
    /\ pos # NoPosition => Covers(pos)

LEMMA Settings == FeeBuffer \in Int /\ MinHold \in Int
  BY RateAssumption, TimeAssumption

LEMMA OpenPosition == (\A p \in Position : Open(p)) /\ ~Open(NoPosition)
  BY DEF Position, Open, NoPosition

\* Multiplying by a side and by Unit stays in the integers.
LEMMA Levels ==
  ASSUME NEW side \in {1, -1}, NEW price \in Nat, NEW rate \in Int
  PROVE  Shifted(side, price, rate) \in Int
<1>1. Unit + side * rate \in Int
  BY DEF Unit
<1> QED
  BY <1>1 DEF Shifted

\* What a mark does to a position: same trade, a stop at least as tight, and one
\* that covers the fees when it is armed.
LEMMA UpdateTightens ==
  ASSUME NEW p \in Position, NEW m \in Nat, Covers(p)
  PROVE  /\ Updated(p, m) \in Position /\ WithPeak(p, m) \in Position
         /\ SameButPeak(p, WithPeak(p, m))
         /\ ~Arms(WithPeak(p, m), m) => Updated(p, m) = WithPeak(p, m)
         /\ Updated(p, m).side = p.side
         /\ p.side * (Updated(p, m).stop - p.stop) >= 0
         /\ Covers(Updated(p, m))
<1> DEFINE q == WithPeak(p, m)
<1>1. q \in Position /\ SameButPeak(p, q)
  <2>1. BetterPeak(p, m) \in Nat
    BY DEF BetterPeak, Position
  <2> QED
    BY <2>1 DEF WithPeak, Position, SameButPeak
<1>2. BreakEvenStop(q) \in Int /\ BreakEvenStop(q) = BreakEvenStop(p)
  <2> HIDE DEF q
  <2>1. q.side = p.side /\ q.entry = p.entry /\ q.side \in {1, -1} /\ q.entry \in Nat
    BY <1>1 DEF SameButPeak, Position
  <2>2. Shifted(q.side, q.entry, FeeBuffer) \in Int
    BY <2>1, Levels, Settings
  <2> QED
    BY <2>1, <2>2 DEF BreakEvenStop
<1>3. CASE ~Arms(q, m)
  <2>1. Updated(p, m) = q
    BY <1>3 DEF Updated
  <2> QED
    BY <1>1, <1>2, <1>3, <2>1 DEF SameButPeak, Covers, Position
<1>4. CASE Arms(q, m)
  <2> DEFINE s == Tighter(q, BreakEvenStop(q))
  <2>1. Updated(p, m) = Armed(q)
    BY <1>4 DEF Updated
  <2>2. s \in Int /\ q.side * (s - q.stop) >= 0 /\ q.side * (s - BreakEvenStop(q)) >= 0
    BY <1>1, <1>2 DEF Tighter, Position
  <2>3. Armed(q) = [q EXCEPT !.armed = TRUE, !.stop = s]
    BY DEF Armed
  <2> HIDE DEF q, s
  <2>4. /\ Armed(q) \in Position /\ Armed(q).side = q.side /\ Armed(q).stop = s
        /\ Armed(q).entry = q.entry
    BY <1>1, <2>2, <2>3 DEF Position
  <2>5. BreakEvenStop(Armed(q)) = BreakEvenStop(q)
    BY <2>4 DEF BreakEvenStop
  <2> QED
    BY <1>1, <1>4, <2>1, <2>2, <2>4, <2>5 DEF Covers, SameButPeak, q
<1> QED
  BY <1>3, <1>4

\* The record the upserts of a mark leave agrees with the position.
LEMMA SavedAgrees ==
  ASSUME NEW p \in Position, NEW m \in Nat, NEW t, Covers(p), pos = p,
         saved \in Position, SameButPeak(p, saved)
  PROVE  SavedAfter(p, m, t) \in Position /\ SameButPeak(Updated(p, m), SavedAfter(p, m, t))
<1>1. CASE Arms(WithPeak(p, m), m)
  BY <1>1, UpdateTightens DEF SavedAfter, SameButPeak
<1>2. CASE ~Arms(WithPeak(p, m), m)
  BY <1>2, UpdateTightens DEF SavedAfter, SameButPeak
<1> QED
  BY <1>1, <1>2

LEMMA StopInit == Init => StopInv
  BY PriceAssumption DEF Init, StopInv

\* A mark keeps the invariant and never loosens the stop of a trade that goes on.
LEMMA TickKeeps ==
  ASSUME StopInv, NEW m \in Prices, NEW t \in Int, Tick(m, t)
  PROVE  StopInv' /\ (SameTrade => pos.side * (pos'.stop - pos.stop) >= 0)
<1>0. m \in Nat /\ now' \in Int /\ mark' = m
  BY PriceAssumption DEF Tick
<1>1. CASE UNCHANGED <<pos, saved>>
  BY <1>0, <1>1, OpenPosition DEF StopInv, Covers, SameButPeak, BreakEvenStop, SameTrade, Position
<1>2. CASE pos # NoPosition /\ pos' = Updated(pos, m) /\ saved' = SavedAfter(pos, m, t)
  BY <1>0, <1>2, UpdateTightens, SavedAgrees, OpenPosition DEF StopInv, SameTrade
<1>3. CASE pos' = NoPosition /\ saved' = NoPosition
  BY <1>0, <1>3, OpenPosition DEF StopInv, SameTrade
<1> QED
  BY <1>1, <1>2, <1>3, OpenPosition DEF Tick, StopInv

LEMMA StopNext ==
  StopInv /\ [Next]_vars => StopInv' /\ (SameTrade => pos.side * (pos'.stop - pos.stop) >= 0)
<1> SUFFICES ASSUME StopInv, [Next]_vars
             PROVE  StopInv' /\ (SameTrade => pos.side * (pos'.stop - pos.stop) >= 0)
  OBVIOUS
<1>1. ASSUME NEW m \in Prices, NEW dt \in 1..MaxStep, Tick(m, now + dt)
      PROVE  StopInv' /\ (SameTrade => pos.side * (pos'.stop - pos.stop) >= 0)
  <2>1. now + dt \in Int
    BY TimeAssumption DEF StopInv
  <2> QED
    BY <1>1, <2>1, TickKeeps
<1>2. ASSUME NEW side \in Sides, NEW width \in StopWidths, Enter(side, width)
      PROVE  StopInv' /\ ~SameTrade
  <2>1. width \in Int /\ side \in {1, -1}
    BY RateAssumption DEF Sides, Unit
  <2>2. Stop0(side, mark, width) \in Int
    BY <2>1, Levels DEF Stop0, StopInv
  <2>3. pos' \in Position /\ saved' = pos' /\ ~pos'.armed
    BY <1>2, <2>1, <2>2 DEF Enter, Position, StopInv
  <2> QED
    BY <1>2, <2>3, OpenPosition DEF Enter, StopInv, SameButPeak, Covers, SameTrade
<1>3. CASE OtherCoinSaved
  BY <1>3, OpenPosition DEF OtherCoinSaved, StopInv, SameButPeak, Covers, BreakEvenStop,
     SameTrade, Position
<1>4. CASE Restart
  <2>1. CASE pos = NoPosition
    BY <1>4, <2>1, OpenPosition DEF Restart, StopInv, SameTrade
  <2>2. CASE pos # NoPosition
    <3>1. pos' = saved /\ saved' = saved /\ saved \in Position /\ pos \in Position
          /\ SameButPeak(pos, saved) /\ Covers(pos)
      BY <1>4, <2>2 DEF Restart, StopInv
    <3>2. Covers(saved) /\ SameButPeak(saved, saved)
      BY <3>1 DEF Covers, SameButPeak, BreakEvenStop
    <3>3. pos.side * (saved.stop - pos.stop) >= 0
      BY <3>1 DEF SameButPeak, Position
    <3>4. UNCHANGED <<now, mark>>
      BY <1>4 DEF Restart
    <3> QED
      BY <3>1, <3>2, <3>3, <3>4, OpenPosition DEF StopInv, Covers, BreakEvenStop
  <2> QED
    BY <2>1, <2>2
<1>5. CASE UNCHANGED vars
  BY <1>5, OpenPosition DEF vars, StopInv, SameButPeak, Covers, BreakEvenStop, SameTrade, Position
<1> QED
  BY <1>1, <1>2, <1>3, <1>4, <1>5 DEF Next

\* No mark, refused exit, upsert or restart loosens the stop of a trade.
THEOREM StopsTighten == Spec => StopNeverLoosens
<1>1. StopInv /\ [Next]_vars => [SameTrade => pos.side * (pos'.stop - pos.stop) >= 0]_vars
  BY StopNext
<1> QED
  BY <1>1, StopInit, StopNext, PTL DEF Spec, StopNeverLoosens

\* A decision to hold means the stop has not been reached.
LEMMA HeldAboveStop ==
  ASSUME NEW p \in Position, NEW m \in Nat, NEW t \in Int, "hold" \in Decision(p, m, t),
         Covers(p), p.armed, t - p.opened >= MinHold
  PROVE  p.side * (m * Unit - BreakEvenStop(p)) > 0
<1>1. ~StopDue(p, m, t)
  BY DEF Decision
<1>2. p.side * (m * Unit - p.stop) > 0
  <2>1. p.side \in {1, -1} /\ p.stop \in Int /\ p.opened \in Int /\ m * Unit \in Int
    BY DEF Position, Unit
  <2>2. ~(t - p.opened < MinHold)
    BY <2>1, Settings
  <2>3. ~(p.side * (m * Unit - p.stop) <= 0)
    BY <1>1, <2>2 DEF StopDue, WithinMinHold, Past
  <2> QED
    BY <2>1, <2>3
<1>3. BreakEvenStop(p) \in Int
  <2>1. p.side \in {1, -1} /\ p.entry \in Nat
    BY DEF Position
  <2> QED
    BY <2>1, Levels, Settings DEF BreakEvenStop
<1>4. p.side * (p.stop - BreakEvenStop(p)) >= 0 /\ p.side \in {1, -1} /\ p.stop \in Int
  BY DEF Covers, Position
<1>5. m * Unit \in Int
  BY DEF Unit
<1> QED
  BY <1>2, <1>3, <1>4, <1>5

LEMMA UnderwaterTick ==
  ASSUME StopInv, NEW m \in Prices, NEW t \in Int, Tick(m, t)
  PROVE  ArmedNeverUnderwater'
<1>0. live' = live
  BY DEF Tick
<1> SUFFICES ASSUME ~live, Fresh', Open(pos'), pos'.armed, now' - pos'.opened >= MinHold
             PROVE  pos'.side * (mark' * Unit - BreakEvenStop(pos')) > 0
  BY <1>0 DEF ArmedNeverUnderwater, BreakEvenStop, Shifted
<1>1. now' = t /\ mark' = m /\ m \in Nat
  BY PriceAssumption DEF Tick
<1>2. /\ Open(pos) /\ pos' = Updated(pos, m) /\ tick' = "hold"
      /\ "hold" \in Decision(Updated(pos, m), m, t)
  BY OpenPosition DEF Tick, Fresh, ExitTaken
<1>3. pos \in Position /\ Covers(pos)
  BY <1>2, OpenPosition DEF StopInv
<1>4. Updated(pos, m) \in Position /\ Covers(Updated(pos, m))
  BY <1>1, <1>3, UpdateTightens
<1> QED
  BY <1>1, <1>2, <1>4, HeldAboveStop

LEMMA UnderwaterNext ==
  StopInv /\ ArmedNeverUnderwater /\ [Next]_vars => ArmedNeverUnderwater'
<1> SUFFICES ASSUME StopInv, ArmedNeverUnderwater, [Next]_vars PROVE ArmedNeverUnderwater'
  OBVIOUS
<1>1. ASSUME NEW m \in Prices, NEW dt \in 1..MaxStep, Tick(m, now + dt)
      PROVE  ArmedNeverUnderwater'
  <2>1. now + dt \in Int
    BY TimeAssumption DEF StopInv
  <2> QED
    BY <1>1, <2>1, UnderwaterTick
<1>2. CASE UNCHANGED <<live, pos, tick, now, mark>>
  BY <1>2 DEF ArmedNeverUnderwater, Fresh, Open
<1>3. CASE tick' \in {"entered", "restarted"}
  BY <1>3 DEF ArmedNeverUnderwater, Fresh
<1> QED
  BY <1>1, <1>2, <1>3 DEF Next, Enter, OtherCoinSaved, Restart, vars

\* With exits that are taken, an armed position that is still open after a fresh
\* mark past the minimum hold covers its entry and its fees.
THEOREM ArmedCovers == Spec => []ArmedNeverUnderwater
<1>1. Init => ArmedNeverUnderwater
  BY DEF Init, ArmedNeverUnderwater, Fresh
<1> QED
  BY <1>1, StopInit, StopNext, UnderwaterNext, PTL DEF Spec

-----------------------------------------------------------------------------
(* The hold window. *)

LEMMA HoldTick ==
  ASSUME StopInv, NEW m \in Prices, NEW t \in Int, Tick(m, t)
  PROVE  HoldEnds'
<1> SUFFICES ASSUME ~live, Fresh', Open(pos'), MaxHold # 0
             PROVE  now' - pos'.opened < MaxHold
  BY DEF HoldEnds, Tick
<1>1. m \in Nat /\ MaxHold \in Nat
  BY PriceAssumption, TimeAssumption
<1>2. /\ Open(pos) /\ pos' = Updated(pos, m) /\ now' = t
      /\ "hold" \in Decision(Updated(pos, m), m, t)
  BY OpenPosition DEF Tick, Fresh, ExitTaken
<1>3. pos' \in Position
  BY <1>1, <1>2, OpenPosition, UpdateTightens DEF StopInv
<1>4. ~ExceededMaxHold(pos', t)
  BY <1>2 DEF Decision
<1> QED
  BY <1>1, <1>2, <1>3, <1>4 DEF ExceededMaxHold, Position

LEMMA HoldNext == StopInv /\ HoldEnds /\ [Next]_vars => HoldEnds'
<1> SUFFICES ASSUME StopInv, HoldEnds, [Next]_vars PROVE HoldEnds'
  OBVIOUS
<1>1. ASSUME NEW m \in Prices, NEW dt \in 1..MaxStep, Tick(m, now + dt) PROVE HoldEnds'
  <2>1. now + dt \in Int
    BY TimeAssumption DEF StopInv
  <2> QED
    BY <1>1, <2>1, HoldTick
<1>2. CASE UNCHANGED <<live, pos, tick, now>>
  BY <1>2 DEF HoldEnds, Fresh, Open
<1>3. CASE tick' \in {"entered", "restarted"}
  BY <1>3 DEF HoldEnds, Fresh
<1> QED
  BY <1>1, <1>2, <1>3 DEF Next, Enter, OtherCoinSaved, Restart, vars

\* With exits that are taken, no fresh mark leaves a trade open past the hold
\* window, whatever a young position, a stale gap or a restart put off.
THEOREM HoldIsBounded == Spec => []HoldEnds
<1>1. Init => HoldEnds
  BY DEF Init, HoldEnds, Fresh
<1> QED
  BY <1>1, StopInit, StopNext, HoldNext, PTL DEF Spec

-----------------------------------------------------------------------------
(* The peak in the file.  The debounce is measured from the last save of a peak,
   the lag from the last time the file held it: the file is never older than the
   save. *)

LagInv ==
    /\ peakAt \in Int /\ syncedAt \in Int /\ persisted \in Int
    /\ persisted # Never => persisted <= now /\ persisted <= syncedAt
    /\ PeakLagBounded

LEMMA PeakOfUpdate ==
  ASSUME NEW p \in Position, NEW m \in Nat
  PROVE  Updated(p, m).peak = BetterPeak(p, m) /\ WithPeak(p, m).peak = BetterPeak(p, m)
<1> DEFINE q == WithPeak(p, m)
<1>1. q \in Position /\ q.peak = BetterPeak(p, m)
  <2>1. BetterPeak(p, m) \in Nat
    BY DEF BetterPeak, Position
  <2> QED
    BY <2>1 DEF WithPeak, Position
<1>2. Armed(q).peak = q.peak
  <2> HIDE DEF q
  <2> QED
    BY <1>1 DEF Armed, Position
<1> QED
  BY <1>1, <1>2 DEF Updated

LEMMA LagTick ==
  ASSUME StopInv, LagInv, NEW m \in Prices, NEW t \in Int, now < t, Tick(m, t)
  PROVE  LagInv'
<1> USE DEF LagInv
<1>0. m \in Nat /\ now' = t /\ now \in Int /\ Debounce \in Nat
  BY PriceAssumption, TimeAssumption DEF Tick, StopInv
<1>1. CASE UNCHANGED <<pos, saved, persisted, peakAt, syncedAt>>
  BY <1>0, <1>1 DEF PeakLagBounded, Open
<1>2. CASE pos' = NoPosition /\ persisted' = Never /\ syncedAt' = t /\ Open(pos)
  <2>1. peakAt' \in Int
    BY <1>2, OpenPosition DEF Tick
  <2> QED
    BY <1>0, <1>2, <2>1, OpenPosition DEF PeakLagBounded, Never
<1>3. CASE /\ Open(pos) /\ pos' = Updated(pos, m) /\ saved' = SavedAfter(pos, m, t)
           /\ peakAt' = IF BetterPeak(pos, m) # pos.peak THEN t ELSE peakAt
           /\ persisted' = IF PeakSaved(pos, m, t) THEN t ELSE persisted
           /\ syncedAt' = IF saved'.peak = pos'.peak THEN t ELSE syncedAt
  <2>1. pos \in Position
    BY <1>3, OpenPosition DEF StopInv
  <2>2. pos'.peak = BetterPeak(pos, m) /\ WithPeak(pos, m).peak = BetterPeak(pos, m)
    BY <1>0, <1>3, <2>1, PeakOfUpdate
  <2>3. PeakSaved(pos, m, t) \/ Arms(WithPeak(pos, m), m) => saved'.peak = pos'.peak
    BY <1>3, <2>2 DEF SavedAfter
  <2>4. peakAt' \in Int /\ persisted' \in Int /\ syncedAt' \in Int
    BY <1>0, <1>3
  <2>5. persisted' # Never => persisted' <= t /\ persisted' <= syncedAt'
    BY <1>0, <1>3, <2>3
  <2>6. ASSUME saved'.peak # pos'.peak PROVE peakAt' - syncedAt' < Debounce
    <3>1. saved' = saved /\ syncedAt' = syncedAt /\ ~PeakSaved(pos, m, t)
      BY <1>3, <2>3, <2>6 DEF SavedAfter
    <3>2. CASE BetterPeak(pos, m) # pos.peak
      <4>1. persisted # Never /\ t - persisted < Debounce
        BY <1>0, <3>1, <3>2 DEF PeakSaved
      <4> QED
        BY <1>0, <1>3, <3>1, <3>2, <4>1
    <3>3. CASE BetterPeak(pos, m) = pos.peak
      BY <1>3, <2>2, <2>6, <3>1, <3>3 DEF PeakLagBounded
    <3> QED
      BY <3>2, <3>3
  <2> QED
    BY <1>0, <2>4, <2>5, <2>6 DEF PeakLagBounded
<1> QED
  BY <1>1, <1>2, <1>3 DEF Tick

LEMMA LagNext == StopInv /\ LagInv /\ [Next]_vars => LagInv'
<1> SUFFICES ASSUME StopInv, LagInv, [Next]_vars PROVE LagInv'
  OBVIOUS
<1> USE DEF LagInv
<1>0. now \in Int
  BY DEF StopInv
<1>1. ASSUME NEW m \in Prices, NEW dt \in 1..MaxStep, Tick(m, now + dt) PROVE LagInv'
  <2>1. now + dt \in Int /\ now < now + dt
    BY <1>0, TimeAssumption
  <2> QED
    BY <1>1, <2>1, LagTick
<1>2. ASSUME NEW side \in Sides, NEW width \in StopWidths, Enter(side, width) PROVE LagInv'
  BY <1>0, <1>2 DEF Enter, PeakLagBounded
<1>3. CASE OtherCoinSaved
  BY <1>0, <1>3 DEF OtherCoinSaved, PeakLagBounded
<1>4. CASE Restart
  BY <1>0, <1>4 DEF Restart, PeakLagBounded, Never
<1>5. CASE UNCHANGED vars
  BY <1>5 DEF vars, PeakLagBounded, Open
<1> QED
  BY <1>1, <1>2, <1>3, <1>4, <1>5 DEF Next

\* A crash costs less than the debounce of peak: the file lags the peak only by
\* what came within Debounce of the last time it held it.
THEOREM LagIsBounded == Spec => []PeakLagBounded
<1>1. Init => LagInv
  BY DEF Init, LagInv, PeakLagBounded, Open, NoPosition, Never
<1>2. LagInv => PeakLagBounded
  BY DEF LagInv
<1> QED
  BY <1>1, <1>2, StopInit, StopNext, LagNext, PTL DEF Spec
=============================================================================
