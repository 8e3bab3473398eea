---------------------------- MODULE SimulatorProofs -----------------------------
(***************************************************************************)
(* The simulator implements TradeLife for every finite set of coins, every *)
(* price, fee and parameter of the bracket.  The mapping is that of        *)
(* Simulator!Life: a coin's stage, the two counters, the number of trades. *)
(* Its counters lose nothing, and its money is the live journal's.         *)
(***************************************************************************)
EXTENDS Simulator, FiniteSetTheorems, SequenceTheorems, WellFoundedInduction, TLAPS

\* What the mapping needs to know of the simulator's state: the book has an entry
\* of a known stage for every coin, the counters count, the trades are a list.
IsList(s) == \E S : s \in Seq(S)

Entry(e) == "stage" \in DOMAIN e /\ e.stage \in Life!Stages

Shape ==
    /\ book = [c \in Coins |-> book[c]]
    /\ \A c \in Coins : Entry(book[c])
    /\ result \in [signals : Nat, skipped : Nat, placed : Nat, filled : Nat, expired : Nat]
    /\ IsList(trades)

-----------------------------------------------------------------------------
(* Lists. *)

\* The length of a list that is appended to.
LEMMA Concatenated ==
    ASSUME NEW s, NEW t, IsList(s), IsList(t)
    PROVE  IsList(s \o t) /\ Len(s) \in Nat /\ Len(t) \in Nat /\ Len(s \o t) = Len(s) + Len(t)
<1>1. PICK S : s \in Seq(S)
  BY DEF IsList
<1>2. PICK T : t \in Seq(T)
  BY DEF IsList
<1>3. s \in Seq(S \cup T) /\ t \in Seq(S \cup T)
  BY <1>1, <1>2, SeqMonotonic
<1> QED
  BY <1>3, ConcatProperties, LenProperties DEF IsList

\* A list of one, a list of none.
LEMMA Short ==
    /\ IsList(<<>>) /\ Len(<<>>) = 0
    /\ \A x : IsList(<<x>>) /\ Len(<<x>>) = 1 /\ <<x>> # <<>>
<1>1. \A x : <<x>> \in Seq({x})
  OBVIOUS
<1>2. <<>> \in Seq({})
  OBVIOUS
<1> QED
  BY <1>1, <1>2 DEF IsList

\* A function of the first numbers is a list.
LEMMA Indexed ==
    ASSUME NEW S, NEW k \in Nat, NEW f \in [1..k -> S]
    PROVE  IsList(f) /\ Len(f) = k
<1>1. f \in Seq(S)
  BY SeqDef
<1>2. Len(f) = k
  BY <1>1, LenProperties, DOMAIN f = 1..k
<1> QED
  BY <1>1, <1>2 DEF IsList

\* A finite set as a list has its size.
LEMMA Listed ==
    ASSUME NEW S, IsFiniteSet(S)
    PROVE  /\ Cardinality(S) \in Nat
           /\ SetToSeq(S) \in [1..Cardinality(S) -> S]
<1> DEFINE n == Cardinality(S)
<1>1. n \in Nat
  BY FS_CardinalityType
<1>2. IsFiniteSet(1..n) /\ Cardinality(1..n) = n
  BY <1>1, FS_Interval
<1>3. ExistsBijection(1..n, S)
  BY <1>1, <1>2, FS_SameCardinalityBij
<1>4. \E f \in [1..n -> S] : IsInjective(f)
  BY <1>3 DEF ExistsBijection, Bijection, Injection
<1> QED
  BY <1>1, <1>4 DEF SetToSeq

\* TradeLife counts coins as the simulator does.
LEMMA SameCount == \A S : Life!Cardinality(S) = Cardinality(S)
  BY DEF Life!Cardinality, Cardinality

-----------------------------------------------------------------------------
(* One coin and one print. *)

\* A position leaves at most one trade.
LEMMA ExitLength ==
    ASSUME NEW pos, NEW price, NEW at
    PROVE  /\ IsList(ExitTrades(pos, price, at))
           /\ Len(ExitTrades(pos, price, at)) = IF ExitTrades(pos, price, at) = <<>> THEN 0 ELSE 1
<1>1. ExitTrades(pos, price, at) = <<>> \/ \E x : ExitTrades(pos, price, at) = <<x>>
  <2>1. CASE Stopped(pos, price)
    BY <2>1 DEF ExitTrades
  <2>2. CASE ~Stopped(pos, price) /\ Reached(pos, price)
    BY <2>2 DEF ExitTrades
  <2>3. CASE ~Stopped(pos, price) /\ ~Reached(pos, price) /\ Trailed(pos, price)
    BY <2>3 DEF ExitTrades
  <2>4. CASE ~Stopped(pos, price) /\ ~Reached(pos, price) /\ ~Trailed(pos, price) /\ TimedOut(pos, at)
    BY <2>4 DEF ExitTrades
  <2>5. CASE ~Stopped(pos, price) /\ ~Reached(pos, price) /\ ~Trailed(pos, price) /\ ~TimedOut(pos, at)
    BY <2>5 DEF ExitTrades
  <2> QED
    BY <2>1, <2>2, <2>3, <2>4, <2>5
<1> QED
  BY <1>1, Short

\* The exits' first half moves prices and no stage.
LEMMA MovedStage ==
    ASSUME NEW pos, NEW price, Entry(pos)
    PROVE  Entry(Moved(pos, price)) /\ Moved(pos, price).stage = pos.stage
  BY DEF Moved, Entry

\* What a print leaves of a coin is a stage that TradeLife allows.
LEMMA SettledStage ==
    ASSUME NEW pos, NEW price, NEW at, Entry(pos)
    PROVE  LET left == Settled(pos, price, at) IN
           /\ Entry(left)
           /\ left.stage \in Life!After(pos.stage)
           /\ pos.stage = "held" => (left.stage = "none" <=> ExitTrades(Moved(pos, price), price, at) # <<>>)
           /\ pos.stage = "resting" => (left.stage = "none" <=> Expired(pos, at))
<1>1. Entry(Nothing) /\ Nothing.stage = "none"
  BY DEF Nothing, Entry, Life!Stages
<1>2. CASE pos.stage = "held"
  <2>1. Settled(pos, price, at) =
           IF ExitTrades(Moved(pos, price), price, at) = <<>> THEN Moved(pos, price) ELSE Nothing
    BY <1>2 DEF Settled
  <2> QED
    BY <1>1, <1>2, <2>1, MovedStage DEF Life!After
<1>3. CASE pos.stage = "resting"
  <2>1. Settled(pos, price, at) =
           IF Expired(pos, at) THEN Nothing
           ELSE IF Fills(pos, price, at) THEN Opened(pos.side, pos.px, at) ELSE pos
    BY <1>3 DEF Settled
  <2>2. Entry(Opened(pos.side, pos.px, at)) /\ Opened(pos.side, pos.px, at).stage = "held"
    BY DEF Opened, Entry, Life!Stages
  <2> QED
    BY <1>1, <1>3, <2>1, <2>2 DEF Life!After
<1>4. CASE pos.stage = "none"
  <2>1. Settled(pos, price, at) = Nothing
    BY <1>4 DEF Settled
  <2> QED
    BY <1>1, <1>4, <2>1 DEF Life!After
<1> QED
  BY <1>2, <1>3, <1>4 DEF Entry, Life!Stages

-----------------------------------------------------------------------------
(* Steps. *)

\* The stage of each coin: what the mapping makes of a book.
StageOf(b) == [c \in Coins |-> b[c].stage]

\* One entry changed in the book is one stage changed.
LEMMA StageOfOne ==
    ASSUME Shape, NEW c \in Coins, NEW e, Entry(e)
    PROVE  LET b == [book EXCEPT ![c] = e] IN
           /\ b = [d \in Coins |-> b[d]]
           /\ \A d \in Coins : Entry(b[d])
           /\ b[c] = e
           /\ StageOf(b) = [StageOf(book) EXCEPT ![c] = e.stage]
           /\ Live(b) = Life!Live(StageOf(b))
<1> DEFINE b == [book EXCEPT ![c] = e]
<1>1. b = [d \in Coins |-> IF d = c THEN e ELSE book[d]]
  BY Zenon DEF Shape
<1>2. b[c] = e /\ \A d \in Coins : b[d] = IF d = c THEN e ELSE book[d]
  BY <1>1
<1> HIDE DEF b
<1>3. \A d \in Coins : Entry(b[d])
  BY <1>2 DEF Shape
<1>4. b = [d \in Coins |-> b[d]]
  BY <1>1
<1>5. StageOf(b) = [StageOf(book) EXCEPT ![c] = e.stage]
  BY <1>2 DEF StageOf
<1>6. Live(b) = Life!Live(StageOf(b))
  BY DEF Live, Life!Live, StageOf
<1> QED
  BY <1>2, <1>3, <1>4, <1>5, <1>6 DEF b

\* Initially there is nothing on either side.
LEMMA InitMaps == Init => Shape /\ Life!Init
<1> SUFFICES ASSUME Init PROVE Shape /\ Life!Init
  OBVIOUS
<1>1. \A c \in Coins : book[c] = Nothing
  BY DEF Init
<1>2. Entry(Nothing) /\ Nothing.stage = "none"
  BY DEF Nothing, Entry, Life!Stages
<1>3. book = [c \in Coins |-> book[c]]
  BY DEF Init
<1>4. Shape
  BY <1>1, <1>2, <1>3, Short DEF Init, Shape
<1> QED
  BY <1>1, <1>2, <1>4, Short DEF Init, Life!Init

\* A turn of run_async is an event of TradeLife: the coin's own order or position
\* first, and an answer that is none, taken or skipped.
LEMMA EventMaps ==
    ASSUME Shape, NEW c \in Coins, NEW price, NEW at, NEW signal, Event(c, price, at, signal)
    PROVE  Shape' /\ Life!Event(c)
<1> DEFINE was     == book[c]
           left    == Settled(was, price, at)
           settled == [book EXCEPT ![c] = left]
           expired == was.stage = "resting" /\ Expired(was, at)
           filled  == was.stage = "resting" /\ Fills(was, price, at)
           refused == \/ settled[c].stage # "none"
                      \/ Cardinality(Live(settled)) >= MaxConcurrent
                      \/ signal.px <= 0
           given   == signal.side # "none"
           new     == IF maker THEN [stage |-> "resting", side |-> signal.side, px |-> signal.px, ts |-> at]
                      ELSE Opened(signal.side, signal.px, at)
           exits   == ExitTrades(Moved(was, price), price, at)
<1>1. /\ trades' = IF was.stage = "held" THEN trades \o exits ELSE trades
      /\ book' = IF ~(given /\ ~refused) THEN settled ELSE [book EXCEPT ![c] = new]
      /\ result' = [signals |-> result.signals + Count(given),
                    skipped |-> result.skipped + SkippedBy(expired) + Count(given /\ refused),
                    placed |-> result.placed + Count((given /\ ~refused) /\ maker),
                    filled |-> result.filled + Count(filled),
                    expired |-> result.expired + Count(expired)]
  BY DEF Event
<1>2. Entry(was) /\ was.stage \in Life!Stages
  BY DEF Shape, Entry
<1>3. /\ Entry(left) /\ left.stage \in Life!After(was.stage)
      /\ was.stage = "held" => (left.stage = "none" <=> exits # <<>>)
      /\ was.stage = "resting" => (left.stage = "none" <=> Expired(was, at))
  BY <1>2, SettledStage
<1>4. Entry(new) /\ new.stage \in {"resting", "held"}
  BY DEF Opened, Entry, Life!Stages
<1>5. /\ settled = [d \in Coins |-> settled[d]] /\ \A d \in Coins : Entry(settled[d])
      /\ settled[c] = left
      /\ StageOf(settled) = [StageOf(book) EXCEPT ![c] = left.stage]
      /\ Live(settled) = Life!Live(StageOf(settled))
  BY <1>3, StageOfOne
<1> HIDE DEF left, new, exits, was, settled
<1>6. /\ IsList(trades')
      /\ Len(trades') = Len(trades) + (IF was.stage = "held" /\ left.stage = "none" THEN 1 ELSE 0)
  <2>1. IsList(trades) /\ Len(trades) \in Nat
    BY Concatenated DEF Shape
  <2>2. IsList(exits) /\ Len(exits) = IF exits = <<>> THEN 0 ELSE 1
    BY ExitLength DEF exits
  <2>3. CASE was.stage = "held"
    <3>1. IsList(trades \o exits) /\ Len(trades \o exits) = Len(trades) + Len(exits)
      BY <2>1, <2>2, Concatenated
    <3> QED
      BY <1>1, <1>3, <2>1, <2>2, <2>3, <3>1
  <2>4. CASE was.stage # "held"
    BY <1>1, <2>1, <2>4
  <2> QED
    BY <2>3, <2>4
<1>7. /\ result.signals \in Nat /\ result.skipped \in Nat /\ result.placed \in Nat
      /\ result.filled \in Nat /\ result.expired \in Nat
  BY DEF Shape
<1>8. result' \in [signals : Nat, skipped : Nat, placed : Nat, filled : Nat, expired : Nat]
  <2>1. \A x : Count(x) \in Nat /\ SkippedBy(x) \in Nat
    BY DEF Count, SkippedBy
  <2> HIDE DEF expired, filled, refused, given
  <2>2. /\ result.signals + Count(given) \in Nat
        /\ result.skipped + SkippedBy(expired) + Count(given /\ refused) \in Nat
        /\ result.placed + Count((given /\ ~refused) /\ maker) \in Nat
        /\ result.filled + Count(filled) \in Nat /\ result.expired + Count(expired) \in Nat
    BY <1>7, <2>1
  <2> QED
    BY <1>1, <2>2
<1>9. (was.stage = "resting" /\ left.stage = "none") <=> expired
  BY <1>3
<1>10. Cardinality(Live(settled)) \in Nat
  BY SimulatorAssumption, FS_Subset, FS_CardinalityType DEF Live
<1>11. book' = [d \in Coins |-> book'[d]] /\ \A d \in Coins : Entry(book'[d])
  <2>1. CASE ~(given /\ ~refused)
    BY <1>1, <1>5, <2>1
  <2>2. CASE given /\ ~refused
    BY <1>1, <1>4, <2>2, StageOfOne
  <2> QED
    BY <2>1, <2>2
<1>12. Shape'
  BY <1>6, <1>8, <1>11 DEF Shape
<1>13. Life!Event(c)
  <2> DEFINE mapped == [StageOf(book) EXCEPT ![c] = left.stage]
             gone   == Life!One(StageOf(book)[c] = "resting" /\ left.stage = "none")
  <2>1. StageOf(book)[c] = was.stage
    BY DEF StageOf, was
  <2>2. Len(trades') = Len(trades) + Life!One(StageOf(book)[c] = "held" /\ left.stage = "none")
    BY <1>6, <2>1 DEF Life!One
  <2>3. gone = IF expired THEN 1 ELSE 0
    BY <1>9, <2>1 DEF Life!One
  <2>4. \/ StageOf(book') = mapped /\ result'.signals = result.signals /\ result'.skipped = result.skipped + gone
        \/ /\ left.stage = "none"
           /\ Cardinality(Life!Live(mapped)) < MaxConcurrent
           /\ \E x \in {"resting", "held"} : StageOf(book') = [StageOf(book) EXCEPT ![c] = x]
           /\ result'.signals = result.signals + 1
           /\ result'.skipped = result.skipped + gone
        \/ StageOf(book') = mapped /\ result'.signals = result.signals + 1
           /\ result'.skipped = result.skipped + gone + 1
    <3> HIDE DEF gone
    <3>1. CASE ~given
      <4>1. book' = settled /\ result'.signals = result.signals /\ result'.skipped = result.skipped + gone
        BY <1>1, <1>7, <2>3, <3>1 DEF Count, SkippedBy
      <4> QED
        BY <1>5, <4>1
    <3>2. CASE given /\ refused
      <4>1. /\ book' = settled /\ result'.signals = result.signals + 1
            /\ result'.skipped = result.skipped + gone + 1
        BY <1>1, <1>7, <2>3, <3>2 DEF Count, SkippedBy
      <4> QED
        BY <1>5, <4>1
    <3>3. CASE given /\ ~refused
      <4>1. /\ book' = [book EXCEPT ![c] = new] /\ result'.signals = result.signals + 1
            /\ result'.skipped = result.skipped + gone
        BY <1>1, <1>7, <2>3, <3>3 DEF Count, SkippedBy
      <4>2. StageOf(book') = [StageOf(book) EXCEPT ![c] = new.stage]
        BY <1>4, <4>1, StageOfOne
      <4>3. left.stage = "none" /\ Cardinality(Live(settled)) < MaxConcurrent
        BY <1>5, <1>10, <3>3, SimulatorAssumption
      <4> QED
        BY <1>4, <1>5, <4>1, <4>2, <4>3
    <3> QED
      BY <3>1, <3>2, <3>3
  <2>5. left.stage \in Life!After(StageOf(book)[c])
    BY <1>3, <2>1
  <2>6. \E s \in Life!After(StageOf(book)[c]) :
          /\ Len(trades') = Len(trades) + Life!One(StageOf(book)[c] = "held" /\ s = "none")
          /\ \/ /\ StageOf(book') = [StageOf(book) EXCEPT ![c] = s]
                /\ result'.signals = result.signals
                /\ result'.skipped = result.skipped + Life!One(StageOf(book)[c] = "resting" /\ s = "none")
             \/ /\ s = "none"
                /\ Life!Cardinality(Life!Live([StageOf(book) EXCEPT ![c] = s])) < MaxConcurrent
                /\ \E x \in {"resting", "held"} : StageOf(book') = [StageOf(book) EXCEPT ![c] = x]
                /\ result'.signals = result.signals + 1
                /\ result'.skipped = result.skipped + Life!One(StageOf(book)[c] = "resting" /\ s = "none")
             \/ /\ StageOf(book') = [StageOf(book) EXCEPT ![c] = s]
                /\ result'.signals = result.signals + 1
                /\ result'.skipped = result.skipped + Life!One(StageOf(book)[c] = "resting" /\ s = "none") + 1
    BY <2>2, <2>4, <2>5, SameCount
  <2> QED
    BY <2>6, Zenon DEF Life!Event, StageOf
<1> QED
  BY <1>12, <1>13

\* The end of the recording: what rests is skipped, what is held is a trade.
LEMMA EndMaps ==
    ASSUME Shape, Finish
    PROVE  Shape' /\ Life!End
<1> DEFINE resting == {c \in Coins : book[c].stage = "resting"}
           open    == {c \in Coins : book[c].stage = "held"}
           held    == SetToSeq(open)
           closed  == [i \in DOMAIN held |->
                         Booked(book[held[i]], maker, mark[held[i]] * Unit, book[held[i]].ts, "eod_mark")]
           n       == Cardinality(resting)
<1>1. /\ trades' = trades \o closed
      /\ book' = [c \in Coins |-> Nothing]
      /\ result' = [result EXCEPT !.expired = @ + n, !.skipped = @ + n]
  BY Zenon DEF Finish
<1>2. IsFiniteSet(resting) /\ IsFiniteSet(open)
  BY SimulatorAssumption, FS_Subset
<1> HIDE DEF resting, open
<1>3. n \in Nat /\ Cardinality(open) \in Nat /\ held \in [1..Cardinality(open) -> open]
  BY <1>2, Listed, FS_CardinalityType
<1>4. IsList(closed) /\ Len(closed) = Cardinality(open)
  <2> HIDE DEF held
  <2> DEFINE e(i) == Booked(book[held[i]], maker, mark[held[i]] * Unit, book[held[i]].ts, "eod_mark")
             k    == Cardinality(open)
  <2>1. DOMAIN held = 1..k /\ k \in Nat
    BY <1>3
  <2>2. closed = [i \in 1..k |-> e(i)]
    BY <2>1
  <2> HIDE DEF e, closed, k
  <2>3. closed \in [1..k -> {e(i) : i \in 1..k}]
    BY <2>2
  <2> QED
    BY <2>1, <2>3, Indexed DEF k
<1> HIDE DEF closed, held, n
<1>5. IsList(trades') /\ Len(trades') = Len(trades) + Cardinality(open)
  BY <1>1, <1>4, Concatenated DEF Shape
<1>6. /\ result' \in [signals : Nat, skipped : Nat, placed : Nat, filled : Nat, expired : Nat]
      /\ result'.signals = result.signals /\ result'.skipped = result.skipped + n
  <2>1. result' = [signals |-> result.signals, skipped |-> result.skipped + n, placed |-> result.placed,
                   filled |-> result.filled, expired |-> result.expired + n]
    BY <1>1 DEF Shape
  <2> QED
    BY <1>3, <2>1 DEF Shape
<1>7. Entry(Nothing) /\ Nothing.stage = "none"
  BY DEF Nothing, Entry, Life!Stages
<1>8. /\ book' = [c \in Coins |-> book'[c]]
      /\ \A c \in Coins : Entry(book'[c]) /\ book'[c].stage = "none"
  BY <1>1, <1>7
<1>9. Shape'
  BY <1>5, <1>6, <1>8 DEF Shape
<1>10. StageOf(book') = [c \in Coins |-> "none"]
  BY <1>8 DEF StageOf
<1>11. /\ open = {c \in Coins : StageOf(book)[c] = "held"}
       /\ resting = {c \in Coins : StageOf(book)[c] = "resting"}
  BY DEF open, resting, StageOf
<1>12. /\ Len(trades') = Len(trades) + Life!Cardinality({c \in Coins : StageOf(book)[c] = "held"})
       /\ result'.skipped = result.skipped + Life!Cardinality({c \in Coins : StageOf(book)[c] = "resting"})
  BY <1>5, <1>6, <1>11, SameCount DEF n
<1>13. Life!End
  BY <1>6, <1>10, <1>12, Zenon DEF Life!End, StageOf
<1> QED
  BY <1>9, <1>13

-----------------------------------------------------------------------------
(* The refinement. *)

\* The simulator implements TradeLife (Simulator!KeepsTheBook): whatever the
\* recording prints and the strategy answers, every turn of run_async is one
\* print of TradeLife, and _close_remaining is its end.
THEOREM Refinement == Spec => KeepsTheBook
<1>1. Init => Shape /\ Life!Init
  BY InitMaps
<1>2. Shape /\ [Next]_vars => Shape' /\ [Life!Next]_(Life!vars)
  <2> SUFFICES ASSUME Shape, [Next]_vars PROVE Shape' /\ [Life!Next]_(Life!vars)
    OBVIOUS
  <2>1. ASSUME NEW c \in Coins, NEW price, NEW at, NEW signal, Event(c, price, at, signal)
        PROVE  Shape' /\ Life!Next
    BY <2>1, EventMaps DEF Life!Next
  <2>2. CASE Finish
    BY <2>2, EndMaps DEF Life!Next
  <2>3. CASE UNCHANGED vars
    BY <2>3 DEF vars, Shape, Life!vars, IsList
  <2> QED
    BY <2>1, <2>2, <2>3 DEF Next
<1> QED
  BY <1>1, <1>2, PTL DEF Spec, KeepsTheBook, Life!Spec

-----------------------------------------------------------------------------
(* The counters.  What TradeLife promises of signals is proved of TradeLife and
   comes with the refinement.  The argument is a count: a print moves one coin,
   so it changes the set of the coins that are under way by that coin at most. *)

\* Setting one coin's stage changes who is under way by that coin at most.
LEMMA LiveOfOne ==
    ASSUME NEW s \in [Coins -> Life!Stages], NEW c \in Coins, NEW x \in Life!Stages
    PROVE  Life!Live([s EXCEPT ![c] = x]) =
              IF x = "none" THEN Life!Live(s) \ {c} ELSE Life!Live(s) \cup {c}
<1>1. CASE x = "none"
  BY <1>1 DEF Life!Live
<1>2. CASE x # "none"
  BY <1>2 DEF Life!Live
<1> QED
  BY <1>1, <1>2

\* The same in numbers.
LEMMA CountOfOne ==
    ASSUME NEW s \in [Coins -> Life!Stages], NEW c \in Coins, NEW x \in Life!Stages
    PROVE  /\ Cardinality(Life!Live(s)) \in Nat
           /\ Cardinality(Life!Live([s EXCEPT ![c] = x])) =
                 Cardinality(Life!Live(s)) - Life!One(s[c] # "none") + Life!One(x # "none")
<1> DEFINE before == Life!Live(s)
           after  == Life!Live([s EXCEPT ![c] = x])
<1>1. IsFiniteSet(before) /\ Cardinality(before) \in Nat
  BY SimulatorAssumption, FS_Subset, FS_CardinalityType DEF Life!Live
<1>2. c \in before <=> s[c] # "none"
  BY DEF Life!Live
<1>3. after = IF x = "none" THEN before \ {c} ELSE before \cup {c}
  BY LiveOfOne
<1> HIDE DEF before, after
<1>4. Cardinality(before \ {c}) = IF c \in before THEN Cardinality(before) - 1 ELSE Cardinality(before)
  BY <1>1, FS_RemoveElement
<1>5. Cardinality(before \cup {c}) = IF c \in before THEN Cardinality(before) ELSE Cardinality(before) + 1
  BY <1>1, FS_AddElement
<1>6. Life!One(s[c] # "none") = IF c \in before THEN 1 ELSE 0
  BY <1>2 DEF Life!One
<1>7. Life!One(x # "none") = IF x = "none" THEN 0 ELSE 1
  BY DEF Life!One
<1>8. Cardinality(after) = Cardinality(before) - Life!One(s[c] # "none") + Life!One(x # "none")
  <2>1. CASE x = "none"
    BY <1>1, <1>3, <1>4, <1>6, <1>7, <2>1
  <2>2. CASE x # "none"
    BY <1>1, <1>3, <1>5, <1>6, <1>7, <2>2
  <2> QED
    BY <2>1, <2>2
<1> QED
  BY <1>1, <1>8 DEF before, after

\* What a print may make of a stage.
LEMMA AfterStage ==
    ASSUME NEW s \in Life!Stages, NEW x \in Life!After(s)
    PROVE  x \in Life!Stages /\ (s = "none" => x = "none")
  BY DEF Life!After, Life!Stages

\* An account of the signals: the stage of each coin, and three counters that add up.
Balanced(stage, signals, skipped, closed) ==
    /\ stage \in [Coins -> Life!Stages]
    /\ signals \in Nat /\ skipped \in Nat /\ closed \in Nat
    /\ signals = closed + skipped + Cardinality(Life!Live(stage))
    /\ Cardinality(Life!Live(stage)) <= MaxConcurrent

\* A print keeps the account: the coin's signal ends as a trade or a skip, or
\* stays under way; a new one is skipped or finds room.
LEMMA PrintBalanced ==
    ASSUME NEW stage, NEW signals, NEW skipped, NEW closed,
           NEW stage2, NEW signals2, NEW skipped2, NEW closed2,
           Balanced(stage, signals, skipped, closed), NEW c \in Coins, NEW s \in Life!After(stage[c]),
           closed2 = closed + Life!One(stage[c] = "held" /\ s = "none"),
           LET settled == [stage EXCEPT ![c] = s]
               expired == Life!One(stage[c] = "resting" /\ s = "none")
           IN  \/ stage2 = settled /\ signals2 = signals /\ skipped2 = skipped + expired
               \/ /\ s = "none"
                  /\ Cardinality(Life!Live(settled)) < MaxConcurrent
                  /\ \E new \in {"resting", "held"} : stage2 = [stage EXCEPT ![c] = new]
                  /\ signals2 = signals + 1
                  /\ skipped2 = skipped + expired
               \/ stage2 = settled /\ signals2 = signals + 1 /\ skipped2 = skipped + expired + 1
    PROVE  Balanced(stage2, signals2, skipped2, closed2)
<1> DEFINE settled == [stage EXCEPT ![c] = s]
           expired == Life!One(stage[c] = "resting" /\ s = "none")
           ended2  == Life!One(stage[c] = "held" /\ s = "none")
           was     == Cardinality(Life!Live(stage))
<1>1. stage \in [Coins -> Life!Stages] /\ stage[c] \in Life!Stages /\ s \in Life!Stages
      /\ (stage[c] = "none" => s = "none")
  BY AfterStage DEF Balanced
<1>2. was \in Nat
      /\ Cardinality(Life!Live(settled)) = was - Life!One(stage[c] # "none") + Life!One(s # "none")
  BY <1>1, CountOfOne
<1>3. Life!One(stage[c] # "none") = Life!One(s # "none") + expired + ended2
      /\ Life!One(stage[c] # "none") \in {0, 1} /\ Life!One(s # "none") \in {0, 1}
      /\ expired \in {0, 1} /\ ended2 \in {0, 1}
  BY <1>1 DEF Life!One, Life!Stages
<1>4. /\ signals \in Nat /\ skipped \in Nat /\ closed \in Nat
      /\ signals = closed + skipped + was /\ was <= MaxConcurrent
  BY DEF Balanced
<1>5. Cardinality(Life!Live(settled)) = was - expired - ended2
  BY <1>2, <1>3
<1>6. settled \in [Coins -> Life!Stages]
  BY <1>1
<1>7. closed2 = closed + ended2 /\ MaxConcurrent \in Nat
  BY SimulatorAssumption
<1>8. \/ stage2 = settled /\ signals2 = signals /\ skipped2 = skipped + expired
      \/ /\ s = "none"
         /\ Cardinality(Life!Live(settled)) < MaxConcurrent
         /\ \E new \in {"resting", "held"} : stage2 = [stage EXCEPT ![c] = new]
         /\ signals2 = signals + 1
         /\ skipped2 = skipped + expired
      \/ stage2 = settled /\ signals2 = signals + 1 /\ skipped2 = skipped + expired + 1
  OBVIOUS
<1> HIDE DEF settled, expired, ended2, was
<1>9. CASE stage2 = settled /\ signals2 = signals /\ skipped2 = skipped + expired
  <2>1. stage2 \in [Coins -> Life!Stages] /\ Cardinality(Life!Live(stage2)) = was - expired - ended2
    BY <1>5, <1>6, <1>9
  <2>2. signals2 \in Nat /\ skipped2 \in Nat /\ closed2 \in Nat
    BY <1>3, <1>4, <1>7, <1>9
  <2>3. signals2 = closed2 + skipped2 + (was - expired - ended2)
    BY <1>2, <1>3, <1>4, <1>7, <1>9
  <2>4. was - expired - ended2 <= MaxConcurrent
    BY <1>2, <1>3, <1>4, <1>7
  <2> QED
    BY <2>1, <2>2, <2>3, <2>4 DEF Balanced
<1>10. CASE stage2 = settled /\ signals2 = signals + 1 /\ skipped2 = skipped + expired + 1
  <2>1. stage2 \in [Coins -> Life!Stages] /\ Cardinality(Life!Live(stage2)) = was - expired - ended2
    BY <1>5, <1>6, <1>10
  <2>2. signals2 \in Nat /\ skipped2 \in Nat /\ closed2 \in Nat
    BY <1>3, <1>4, <1>7, <1>10
  <2>3. signals2 = closed2 + skipped2 + (was - expired - ended2)
    BY <1>2, <1>3, <1>4, <1>7, <1>10
  <2>4. was - expired - ended2 <= MaxConcurrent
    BY <1>2, <1>3, <1>4, <1>7
  <2> QED
    BY <2>1, <2>2, <2>3, <2>4 DEF Balanced
<1>11. CASE /\ s = "none"
            /\ Cardinality(Life!Live(settled)) < MaxConcurrent
            /\ \E new \in {"resting", "held"} : stage2 = [stage EXCEPT ![c] = new]
            /\ signals2 = signals + 1
            /\ skipped2 = skipped + expired
  <2>1. PICK new \in {"resting", "held"} : stage2 = [stage EXCEPT ![c] = new]
    BY <1>11
  <2>2. new \in Life!Stages /\ new # "none"
    BY DEF Life!Stages
  <2>3. stage2 \in [Coins -> Life!Stages]
    BY <1>1, <2>1, <2>2
  <2>4. Cardinality(Life!Live(stage2)) = was - Life!One(stage[c] # "none") + 1
    BY <1>1, <2>1, <2>2, CountOfOne DEF Life!One, was
  <2>5. Life!One(stage[c] # "none") = expired + ended2
    BY <1>3, <1>11 DEF Life!One
  <2>6. Cardinality(Life!Live(stage2)) = was - expired - ended2 + 1
    BY <1>2, <1>3, <2>4, <2>5
  <2> QED
    BY <1>2, <1>3, <1>4, <1>5, <1>7, <1>11, <2>3, <2>6 DEF Balanced
<1> QED
  BY <1>8, <1>9, <1>10, <1>11

\* The end closes what is held and skips what rests: the two parts of what was
\* under way.
LEMMA EndBalanced ==
    ASSUME NEW stage, NEW signals, NEW skipped, NEW closed, Balanced(stage, signals, skipped, closed)
    PROVE  Balanced([c \in Coins |-> "none"], signals,
                    skipped + Cardinality({c \in Coins : stage[c] = "resting"}),
                    closed + Cardinality({c \in Coins : stage[c] = "held"}))
<1> DEFINE held    == {c \in Coins : stage[c] = "held"}
           resting == {c \in Coins : stage[c] = "resting"}
           over    == [c \in Coins |-> "none"]
<1>1. IsFiniteSet(held) /\ IsFiniteSet(resting) /\ Cardinality(held) \in Nat /\ Cardinality(resting) \in Nat
  BY SimulatorAssumption, FS_Subset, FS_CardinalityType
<1>2. Life!Live(stage) = held \cup resting /\ held \cap resting = {}
  BY DEF Life!Live, Balanced, Life!Stages
<1>3. over \in [Coins -> Life!Stages] /\ Life!Live(over) = {}
  BY DEF Life!Stages, Life!Live
<1> HIDE DEF held, resting, over
<1>4. Cardinality(Life!Live(stage)) = Cardinality(held) + Cardinality(resting)
  <2>1. Cardinality(held \cap resting) = 0
    BY <1>2, FS_EmptySet
  <2>2. Cardinality(held \cup resting) = Cardinality(held) + Cardinality(resting) - Cardinality(held \cap resting)
    BY <1>1, FS_Union
  <2> QED
    BY <1>1, <1>2, <2>1, <2>2
<1>5. Cardinality(Life!Live(over)) = 0
  BY <1>3, FS_EmptySet
<1>6. Balanced(over, signals, skipped + Cardinality(resting), closed + Cardinality(held))
  BY <1>1, <1>3, <1>4, <1>5, SimulatorAssumption DEF Balanced
<1> QED
  BY <1>6 DEF held, resting, over

\* The account of the simulator's signals.
SignalsOf == Balanced(StageOf(book), result.signals, result.skipped, Len(trades))

\* Initially nothing is under way.
LEMMA InitSignals == Life!Init => SignalsOf
<1> SUFFICES ASSUME Life!Init PROVE SignalsOf
  OBVIOUS
<1>1. StageOf(book) = [c \in Coins |-> "none"]
  BY Zenon DEF Life!Init, StageOf
<1>2. StageOf(book) \in [Coins -> Life!Stages] /\ Life!Live(StageOf(book)) = {}
  BY <1>1 DEF Life!Stages, Life!Live
<1>3. Cardinality(Life!Live(StageOf(book))) = 0
  BY <1>2, FS_EmptySet
<1>4. result.signals = 0 /\ result.skipped = 0 /\ Len(trades) = 0
  BY DEF Life!Init
<1> QED
  BY <1>2, <1>3, <1>4, SimulatorAssumption DEF SignalsOf, Balanced

\* An event of TradeLife keeps the account.
LEMMA EventSignals ==
    ASSUME SignalsOf, NEW c \in Coins, Life!Event(c)
    PROVE  SignalsOf'
<1>1. PICK s \in Life!After(StageOf(book)[c]) :
          /\ Len(trades') = Len(trades) + Life!One(StageOf(book)[c] = "held" /\ s = "none")
          /\ \/ /\ StageOf(book') = [StageOf(book) EXCEPT ![c] = s]
                /\ result'.signals = result.signals
                /\ result'.skipped = result.skipped + Life!One(StageOf(book)[c] = "resting" /\ s = "none")
             \/ /\ s = "none"
                /\ Life!Cardinality(Life!Live([StageOf(book) EXCEPT ![c] = s])) < MaxConcurrent
                /\ \E x \in {"resting", "held"} : StageOf(book') = [StageOf(book) EXCEPT ![c] = x]
                /\ result'.signals = result.signals + 1
                /\ result'.skipped = result.skipped + Life!One(StageOf(book)[c] = "resting" /\ s = "none")
             \/ /\ StageOf(book') = [StageOf(book) EXCEPT ![c] = s]
                /\ result'.signals = result.signals + 1
                /\ result'.skipped = result.skipped + Life!One(StageOf(book)[c] = "resting" /\ s = "none") + 1
  BY Zenon DEF Life!Event, StageOf
<1>2. Balanced(StageOf(book), result.signals, result.skipped, Len(trades))
  BY DEF SignalsOf
<1> DEFINE st  == StageOf(book)
           st2 == StageOf(book')
           sg  == result.signals
           sg2 == result'.signals
           sk  == result.skipped
           sk2 == result'.skipped
           cl  == Len(trades)
           cl2 == Len(trades')
<1>3. Balanced(st, sg, sk, cl) /\ s \in Life!After(st[c])
      /\ cl2 = cl + Life!One(st[c] = "held" /\ s = "none")
  BY <1>1, <1>2
<1>4. \/ /\ st2 = [st EXCEPT ![c] = s]
         /\ sg2 = sg
         /\ sk2 = sk + Life!One(st[c] = "resting" /\ s = "none")
      \/ /\ s = "none"
         /\ Life!Cardinality(Life!Live([st EXCEPT ![c] = s])) < MaxConcurrent
         /\ \E new \in {"resting", "held"} : st2 = [st EXCEPT ![c] = new]
         /\ sg2 = sg + 1
         /\ sk2 = sk + Life!One(st[c] = "resting" /\ s = "none")
      \/ /\ st2 = [st EXCEPT ![c] = s]
         /\ sg2 = sg + 1
         /\ sk2 = sk + Life!One(st[c] = "resting" /\ s = "none") + 1
  BY <1>1
<1> HIDE DEF st, st2, sg, sg2, sk, sk2, cl, cl2
<1>5. Life!Cardinality(Life!Live([st EXCEPT ![c] = s])) = Cardinality(Life!Live([st EXCEPT ![c] = s]))
  BY SameCount
<1>6. Balanced(st2, sg2, sk2, cl2)
  <2>1. CASE st2 = [st EXCEPT ![c] = s] /\ sg2 = sg
             /\ sk2 = sk + Life!One(st[c] = "resting" /\ s = "none")
    BY <2>1, <1>3, PrintBalanced
  <2>2. CASE /\ s = "none"
             /\ Life!Cardinality(Life!Live([st EXCEPT ![c] = s])) < MaxConcurrent
             /\ \E new \in {"resting", "held"} : st2 = [st EXCEPT ![c] = new]
             /\ sg2 = sg + 1
             /\ sk2 = sk + Life!One(st[c] = "resting" /\ s = "none")
    <3>1. Cardinality(Life!Live([st EXCEPT ![c] = s])) < MaxConcurrent
      BY <2>2, <1>5
    <3> QED
      BY <3>1, <2>2, <1>3, PrintBalanced
  <2>3. CASE st2 = [st EXCEPT ![c] = s] /\ sg2 = sg + 1
             /\ sk2 = sk + Life!One(st[c] = "resting" /\ s = "none") + 1
    BY <2>3, <1>3, PrintBalanced
  <2> QED
    BY <1>4, <2>1, <2>2, <2>3
<1>7. Balanced(StageOf(book'), result'.signals, result'.skipped, Len(trades'))
  BY <1>6 DEF st2, sg2, sk2, cl2
<1> QED
  BY <1>7 DEF SignalsOf, StageOf

\* So does the end.
LEMMA EndSignals ==
    ASSUME SignalsOf, Life!End
    PROVE  SignalsOf'
<1>1. /\ StageOf(book') = [c \in Coins |-> "none"]
      /\ Len(trades') = Len(trades) + Life!Cardinality({c \in Coins : StageOf(book)[c] = "held"})
      /\ result'.skipped = result.skipped + Life!Cardinality({c \in Coins : StageOf(book)[c] = "resting"})
      /\ result'.signals = result.signals
  BY Zenon DEF Life!End, StageOf
<1>2. Balanced(StageOf(book), result.signals, result.skipped, Len(trades))
  BY DEF SignalsOf
<1>3. Balanced(StageOf(book'), result'.signals, result'.skipped, Len(trades'))
  BY <1>1, <1>2, SameCount, EndBalanced
<1> QED
  BY <1>3 DEF SignalsOf, StageOf

\* What TradeLife promises of the signals, whatever is printed and whatever the
\* strategy answers: a signal is a trade, a skip or under way, and no more than
\* MaxConcurrent are (simulator.py: run_async, _close_remaining).
THEOREM SignalsAccounted == KeepsTheBook => [](Life!TypeOK /\ Life!Accounted)
<1>1. Life!Init => SignalsOf
  BY InitSignals
<1>2. SignalsOf /\ [Life!Next]_(Life!vars) => SignalsOf'
  <2> SUFFICES ASSUME SignalsOf, [Life!Next]_(Life!vars) PROVE SignalsOf'
    OBVIOUS
  <2>1. CASE Life!End
    BY <2>1, EndSignals
  <2>2. CASE \E c \in Coins : Life!Event(c)
    BY <2>2, EventSignals
  <2>3. CASE UNCHANGED Life!vars
    BY <2>3 DEF Life!vars, SignalsOf, StageOf
  <2> QED
    BY <2>1, <2>2, <2>3 DEF Life!Next
<1>3. SignalsOf => Life!TypeOK /\ Life!Accounted
  BY SameCount DEF SignalsOf, Balanced, StageOf, Life!TypeOK, Life!Accounted
<1> QED
  BY <1>1, <1>2, <1>3, PTL DEF KeepsTheBook, Life!Spec

-----------------------------------------------------------------------------
(* The orders: a print takes at most one of its coin, by its timeout or by its
   fill, and rests at most one. *)

RestingOf(b) == {c \in Coins : b[c].stage = "resting"}

Orders == result.placed = result.filled + result.expired + Cardinality(RestingOf(book))

\* One entry changed in the book is one resting order more, less, or the same.
LEMMA RestingOfOne ==
    ASSUME Shape, NEW c \in Coins, NEW e
    PROVE  /\ Cardinality(RestingOf(book)) \in Nat
           /\ Cardinality(RestingOf([book EXCEPT ![c] = e])) =
                 Cardinality(RestingOf(book)) - Count(book[c].stage = "resting")
                 + Count(e.stage = "resting")
<1> DEFINE before == RestingOf(book)
           b      == [book EXCEPT ![c] = e]
           after  == RestingOf(b)
<1>1. IsFiniteSet(before) /\ Cardinality(before) \in Nat
  BY SimulatorAssumption, FS_Subset, FS_CardinalityType DEF RestingOf
<1>2. c \in before <=> book[c].stage = "resting"
  BY DEF RestingOf
<1>3. \A d \in Coins : b[d] = IF d = c THEN e ELSE book[d]
  BY DEF Shape
<1>4. after = IF e.stage = "resting" THEN before \cup {c} ELSE before \ {c}
  <2> HIDE DEF b
  <2> QED
    BY <1>3 DEF RestingOf
<1> HIDE DEF before, after
<1>5. Cardinality(before \ {c}) = IF c \in before THEN Cardinality(before) - 1 ELSE Cardinality(before)
  BY <1>1, FS_RemoveElement
<1>6. Cardinality(before \cup {c}) = IF c \in before THEN Cardinality(before) ELSE Cardinality(before) + 1
  BY <1>1, FS_AddElement
<1>7. Count(book[c].stage = "resting") = IF c \in before THEN 1 ELSE 0
  BY <1>2 DEF Count
<1>8. Count(e.stage = "resting") = IF e.stage = "resting" THEN 1 ELSE 0
  BY DEF Count
<1>9. Cardinality(after) = Cardinality(before) - Count(book[c].stage = "resting") + Count(e.stage = "resting")
  BY <1>1, <1>4, <1>5, <1>6, <1>7, <1>8
<1> QED
  BY <1>1, <1>9 DEF before, after

\* A print and the strategy's answer keep the account of the orders.
LEMMA EventOrders ==
    ASSUME Shape, Orders, NEW c \in Coins, NEW price, NEW at, NEW signal, Event(c, price, at, signal)
    PROVE  Orders'
<1> DEFINE was     == book[c]
           left    == Settled(was, price, at)
           expired == was.stage = "resting" /\ Expired(was, at)
           filled  == was.stage = "resting" /\ Fills(was, price, at)
           settled == [book EXCEPT ![c] = left]
           refused == \/ settled[c].stage # "none"
                      \/ Cardinality(Live(settled)) >= MaxConcurrent
                      \/ signal.px <= 0
           taken   == signal.side # "none" /\ ~refused
           new     == IF maker THEN [stage |-> "resting", side |-> signal.side, px |-> signal.px, ts |-> at]
                      ELSE Opened(signal.side, signal.px, at)
           n       == Cardinality(RestingOf(book))
<1>1. /\ book' = IF ~taken THEN settled ELSE [book EXCEPT ![c] = new]
      /\ result'.placed = result.placed + Count(taken /\ maker)
      /\ result'.filled = result.filled + Count(filled)
      /\ result'.expired = result.expired + Count(expired)
  BY DEF Event
<1>2. taken => left.stage = "none"
  BY DEF Shape
<1>3. Count(left.stage = "resting") = Count(was.stage = "resting") - Count(expired) - Count(filled)
  <2>1. CASE was.stage = "resting"
    <3>1. left = IF Expired(was, at) THEN Nothing
                 ELSE IF Fills(was, price, at) THEN Opened(was.side, was.px, at) ELSE was
      BY <2>1 DEF Settled
    <3>2. Nothing.stage = "none" /\ Opened(was.side, was.px, at).stage = "held"
      BY DEF Nothing, Opened
    <3>3. Fills(was, price, at) => ~Expired(was, at)
      BY DEF Fills
    <3> HIDE DEF left, was
    <3> QED
      BY <2>1, <3>1, <3>2, <3>3 DEF Count
  <2>2. CASE was.stage # "resting"
    <3>1. Entry(was)
      BY DEF Shape
    <3>2. left.stage # "resting"
      BY <2>2, <3>1, SettledStage DEF Life!After, Entry, Life!Stages
    <3> HIDE DEF left, was
    <3> QED
      BY <2>2, <3>2 DEF Count
  <2> QED
    BY <2>1, <2>2
<1>4. Count(new.stage = "resting") = Count(maker)
  BY DEF Opened, Count
<1>5. n \in Nat /\ \A e : Cardinality(RestingOf([book EXCEPT ![c] = e])) =
                            n - Count(was.stage = "resting") + Count(e.stage = "resting")
  BY RestingOfOne
<1>6. /\ result.placed \in Nat /\ result.filled \in Nat /\ result.expired \in Nat
      /\ result.placed = result.filled + result.expired + n
  BY DEF Shape, Orders
<1>7. \A x : Count(x) \in Nat
  BY DEF Count
<1> HIDE DEF was, left, expired, filled, settled, refused, new, n
<1>8. CASE ~taken
  <2>1. Cardinality(RestingOf(book')) = n - Count(was.stage = "resting") + Count(left.stage = "resting")
    BY <1>1, <1>5, <1>8 DEF settled
  <2>2. Count(taken /\ maker) = 0
    BY <1>8 DEF Count
  <2> HIDE DEF taken
  <2>3. result'.placed = result'.filled + result'.expired + Cardinality(RestingOf(book'))
    BY <1>1, <1>3, <1>5, <1>6, <1>7, <2>1, <2>2
  <2> QED
    BY <2>3 DEF Orders, RestingOf
<1>9. CASE taken
  <2>1. Cardinality(RestingOf(book')) = n - Count(was.stage = "resting") + Count(maker)
    BY <1>1, <1>4, <1>5, <1>9
  <2>2. Count(taken /\ maker) = Count(maker)
    BY <1>9 DEF Count
  <2>3. Count(was.stage = "resting") = Count(expired) + Count(filled)
    <3>1. Count(left.stage = "resting") = 0
      BY <1>2, <1>9 DEF Count
    <3> QED
      BY <1>3, <1>7, <3>1
  <2>4. result'.placed = result.placed + Count(maker)
    BY <1>1, <2>2
  <2> DEFINE m == Count(maker)
             e == Count(expired)
             f == Count(filled)
  <2>5. m \in Nat /\ e \in Nat /\ f \in Nat
    BY <1>7
  <2>6. /\ result'.placed = result.placed + m
        /\ result'.filled = result.filled + f
        /\ result'.expired = result.expired + e
        /\ Cardinality(RestingOf(book')) = n - (e + f) + m
    BY <1>1, <2>1, <2>3, <2>4
  <2> HIDE DEF m, e, f
  <2>7. result'.placed = result'.filled + result'.expired + Cardinality(RestingOf(book'))
    BY <1>5, <1>6, <2>5, <2>6
  <2> QED
    BY <2>7 DEF Orders, RestingOf
<1> QED
  BY <1>8, <1>9

\* The end counts what rests as expired.
LEMMA EndOrders == ASSUME Shape, Orders, Finish PROVE Orders'
<1> DEFINE n == Cardinality(RestingOf(book))
<1>1. book' = [c \in Coins |-> Nothing] /\ result' = [result EXCEPT !.expired = @ + n, !.skipped = @ + n]
  BY Zenon DEF Finish, RestingOf
<1>2. n \in Nat
  BY SimulatorAssumption, FS_Subset, FS_CardinalityType DEF RestingOf
<1>3. result.placed \in Nat /\ result.filled \in Nat /\ result.expired \in Nat
      /\ result.placed = result.filled + result.expired + n
  BY DEF Shape, Orders
<1> HIDE DEF n
<1>4. /\ result'.placed = result.placed /\ result'.filled = result.filled
      /\ result'.expired = result.expired + n
  BY <1>1 DEF Shape
<1>5. RestingOf(book)' = {}
  BY <1>1 DEF RestingOf, Nothing
<1>6. Cardinality(RestingOf(book)') = 0
  BY <1>5, FS_EmptySet
<1> QED
  BY <1>2, <1>3, <1>4, <1>6 DEF Orders

\* The counters of a backtest lose nothing: each signal is a trade, skipped or
\* under way, each order placed is filled, expired or resting (Simulator!Accounted).
THEOREM NothingLost == Spec => []Accounted
<1>1. Init => Shape /\ Orders
  <2>1. Init => RestingOf(book) = {}
    BY DEF Init, RestingOf, Nothing
  <2>2. Init => Cardinality(RestingOf(book)) = 0
    BY <2>1, FS_EmptySet
  <2>3. Init => result.placed = 0 /\ result.filled = 0 /\ result.expired = 0
    BY DEF Init
  <2> QED
    BY <2>2, <2>3, InitMaps DEF Orders
<1>2. Shape /\ Orders /\ [Next]_vars => (Shape /\ Orders)'
  <2> SUFFICES ASSUME Shape, Orders, [Next]_vars PROVE Shape' /\ Orders'
    OBVIOUS
  <2>1. ASSUME NEW c \in Coins, NEW price, NEW at, NEW signal, Event(c, price, at, signal)
        PROVE  Shape' /\ Orders'
    BY <2>1, EventMaps, EventOrders
  <2>2. CASE Finish
    BY <2>2, EndMaps, EndOrders
  <2>3. CASE UNCHANGED vars
    BY <2>3 DEF vars, Shape, IsList, Orders, RestingOf
  <2> QED
    BY <2>1, <2>2, <2>3 DEF Next
<1>3. Spec => []Life!Accounted
  BY Refinement, SignalsAccounted, PTL
<1>4. Orders /\ Life!Accounted => Accounted
  BY DEF Orders, Accounted, RestingOf
<1> QED
  BY <1>1, <1>2, <1>3, <1>4, PTL DEF Spec

-----------------------------------------------------------------------------
(* Loops: what a function on 0..N that is defined step by step is. *)

LEMMA LeastNumber ==
    ASSUME NEW S, S \subseteq Nat, S # {}
    PROVE  \E x \in S : \A y \in S : x <= y
<1> DEFINE L == OpToRel(<, Nat)
<1>1. \E x \in S : \A y \in S : ~(<<y, x>> \in L)
  <2>1. IsWellFoundedOn(L, Nat)
    BY NatLessThanWellFounded
  <2> HIDE DEF L
  <2> QED
    BY <2>1, WFMin
<1>2. \A x, y \in Nat : x < y => <<x, y>> \in L
  BY DEF OpToRel
<1> HIDE DEF L
<1>3. PICK x \in S : \A y \in S : ~(<<y, x>> \in L)
  BY <1>1
<1>4. \A y \in S : x <= y
  <2> TAKE y \in S
  <2>1. x \in Nat /\ y \in Nat /\ ~(<<y, x>> \in L)
    BY <1>3
  <2>2. ~(y < x)
    BY <1>2, <2>1
  <2> QED
    BY <2>1, <2>2
<1> QED
  BY <1>4

\* What holds of 0, and of each number after the one before it.
LEMMA UpTo ==
    ASSUME NEW N \in Nat, NEW G, 0 \in G, \A n \in 1..N : n - 1 \in G => n \in G
    PROVE  0..N \subseteq G
<1> DEFINE Bad == (0..N) \ G
<1> SUFFICES ASSUME Bad # {} PROVE FALSE
  OBVIOUS
<1>1. Bad \subseteq Nat /\ \A n \in 0..N : n \in Bad <=> n \notin G
  OBVIOUS
<1>2. PICK m \in Bad : \A y \in Bad : m <= y
  <2> HIDE DEF Bad
  <2> QED
    BY <1>1, LeastNumber
<1>3. m \in 1..N
  OBVIOUS
<1>4. m - 1 \in 0..N /\ m - 1 \in Nat /\ ~(m <= m - 1)
  BY <1>3
<1>5. m - 1 \in G
  <2> HIDE DEF Bad
  <2> QED
    BY <1>1, <1>2, <1>4
<1> QED
  BY <1>3, <1>5

\* A loop: each turn F[n] leads from the (n - 1)-th of the sets T to the n-th.
IsLoop(N, T, base, F) == base \in T[0] /\ \A n \in 1..N : \A x \in T[n - 1] : F[n][x] \in T[n]
RunsAs(f, N, T, base, F) ==
    /\ f[0] = base /\ \A n \in 1..N : f[n] = F[n][f[n - 1]]
    /\ \A n \in 0..N : f[n] \in T[n]

LEMMA LoopExists ==
    ASSUME NEW N \in Nat, NEW T, NEW base, NEW F, IsLoop(N, T, base, F)
    PROVE  \E f : RunsAs(f, N, T, base, F)
<1> USE DEF IsLoop
<1> DEFINE Runs(f, m) == /\ f[0] = base /\ \A n \in 1..m : f[n] = F[n][f[n - 1]]
                         /\ \A n \in 0..m : f[n] \in T[n]
           G == {m \in 0..N : \E f : Runs(f, m)}
<1>1. 0 \in G
  <2> DEFINE f == [n \in {0} |-> base]
  <2>1. f[0] = base
    OBVIOUS
  <2> HIDE DEF f
  <2>2. Runs(f, 0)
    BY <2>1
  <2> HIDE DEF Runs
  <2> QED
    BY <2>2
<1>2. ASSUME NEW m \in 1..N, m - 1 \in G PROVE m \in G
  <2>1. PICK f : Runs(f, m - 1)
    BY <1>2
  <2> DEFINE g == [n \in 0..m |-> IF n = m THEN F[m][f[m - 1]] ELSE f[n]]
  <2>2. g[m] = F[m][f[m - 1]] /\ \A n \in 0..(m - 1) : g[n] = f[n]
    OBVIOUS
  <2>3. 0 \in 0..(m - 1) /\ m - 1 \in 0..(m - 1) /\ \A n \in 1..(m - 1) : n - 1 \in 0..(m - 1) /\ n \in 0..(m - 1)
    OBVIOUS
  <2> HIDE DEF g
  <2>4. g[0] = base /\ \A n \in 1..(m - 1) : g[n] = F[n][g[n - 1]]
    BY <2>1, <2>2, <2>3
  <2>5. g[m] = F[m][g[m - 1]]
    BY <2>2, <2>3
  <2>6. \A n \in 0..(m - 1) : g[n] \in T[n]
    BY <2>1, <2>2
  <2>7. g[m] \in T[m]
    BY <2>3, <2>5, <2>6
  <2>8. \A n \in 1..m : n = m \/ n \in 1..(m - 1)
    OBVIOUS
  <2>9. \A n \in 0..m : n = m \/ n \in 0..(m - 1)
    OBVIOUS
  <2>10. Runs(g, m)
    BY <2>4, <2>5, <2>6, <2>7, <2>8, <2>9
  <2> HIDE DEF Runs
  <2> QED
    BY <2>10
<1>3. N \in G
  <2> HIDE DEF G
  <2> QED
    BY <1>1, <1>2, UpTo
<1> QED
  BY <1>3 DEF RunsAs

\* What a loop's turns keep to.
LEMMA LoopIs ==
    ASSUME NEW N \in Nat, NEW T, NEW f, f[0] \in T[0],
           \A n \in 1..N : f[n - 1] \in T[n - 1] => f[n] \in T[n]
    PROVE  \A n \in 0..N : f[n] \in T[n]
<1> DEFINE G == {n \in 0..N : f[n] \in T[n]}
<1>1. 0 \in G /\ \A n \in 1..N : n - 1 \in G => n \in G
  OBVIOUS
<1>2. 0..N \subseteq G
  <2> HIDE DEF G
  <2> QED
    BY <1>1, UpTo
<1> QED
  BY <1>2

-----------------------------------------------------------------------------
(* Sums and scores. *)

LEMMA SumsAre ==
    ASSUME NEW v, IsList(v), \A i \in 1..Len(v) : v[i] \in Int
    PROVE  /\ Len(v) \in Nat
           /\ Sums(v)[0] = 0 /\ \A i \in 1..Len(v) : Sums(v)[i] = Sums(v)[i - 1] + v[i]
           /\ \A i \in 0..Len(v) : Sums(v)[i] \in Int
<1> DEFINE N == Len(v)
           T == [i \in 0..N |-> Int]
           F == [i \in 1..N |-> [x \in Int |-> x + v[i]]]
           Body(f) == [i \in 0..N |-> IF i = 0 THEN 0 ELSE f[i - 1] + v[i]]
           sum == CHOOSE f : f = Body(f)
<1>0. N \in Nat
  BY LenProperties DEF IsList
<1>1. Sums(v) = sum
  BY DEF Sums
<1> HIDE DEF N
<1>2. /\ \A i \in 0..N : T[i] = Int
      /\ \A i \in 1..N : \A x \in Int : F[i][x] = x + v[i]
      /\ 0 \in 0..N /\ \A i \in 1..N : i \in 0..N /\ i - 1 \in 0..N /\ i # 0
  BY <1>0
<1>3. \A i \in 1..N : v[i] \in Int
  BY DEF N
<1> HIDE DEF T, F
<1>31. 0 \in T[0] /\ \A i \in 1..N : \A x \in T[i - 1] : x \in Int /\ x + v[i] \in T[i]
  <2>1. 0 \in T[0]
    BY <1>2
  <2>2. ASSUME NEW i \in 1..N, NEW x \in T[i - 1] PROVE x \in Int /\ x + v[i] \in T[i]
    <3>1. T[i - 1] = Int /\ T[i] = Int /\ v[i] \in Int
      BY <1>2, <1>3
    <3>2. x \in Int
      BY <3>1
    <3>3. x + v[i] \in Int
      BY <3>1, <3>2
    <3> QED
      BY <3>1, <3>2, <3>3
  <2> QED
    BY <2>1, <2>2
<1>4. \E f : f = Body(f)
  <2>1. PICK f : RunsAs(f, N, T, 0, F)
    <3>1. \A i \in 1..N : \A x \in T[i - 1] : F[i][x] = x + v[i] /\ x + v[i] \in T[i]
      BY <1>2, <1>31
    <3>2. IsLoop(N, T, 0, F)
      BY <1>31, <3>1, Zenon DEF IsLoop
    <3> QED
      BY <1>0, <3>2, LoopExists
  <2> DEFINE g == [i \in 0..N |-> f[i]]
             h == Body(g)
  <2>2. \A i \in 0..N : g[i] = f[i]
    OBVIOUS
  <2>3. \A i \in 0..N : h[i] = IF i = 0 THEN 0 ELSE g[i - 1] + v[i]
    <3> HIDE DEF g
    <3> QED
      OBVIOUS
  <2>4. g = [i \in 0..N |-> g[i]] /\ h = [i \in 0..N |-> h[i]]
    OBVIOUS
  <2> HIDE DEF g, h
  <2>5. ASSUME NEW i \in 0..N PROVE g[i] = h[i]
    <3>1. CASE i = 0
      BY <2>1, <2>2, <2>3, <3>1 DEF RunsAs
    <3>2. CASE i # 0
      <4>1. i \in 1..N /\ i - 1 \in 0..N
        BY <1>0, <3>2
      <4>2. f[i - 1] \in Int /\ f[i] = F[i][f[i - 1]]
        BY <1>2, <2>1, <4>1 DEF RunsAs
      <4>3. f[i] = f[i - 1] + v[i]
        BY <1>2, <4>1, <4>2
      <4> QED
        BY <2>2, <2>3, <3>2, <4>1, <4>3
    <3> QED
      BY <3>1, <3>2
  <2>6. g = h
    BY <2>4, <2>5
  <2> HIDE DEF Body
  <2> QED
    BY <2>6 DEF h
<1>5. sum = Body(sum)
  <2> HIDE DEF Body
  <2> QED
    BY <1>4
<1>6. sum[0] = 0 /\ \A i \in 1..N : sum[i] = sum[i - 1] + v[i]
  <2> DEFINE h == Body(sum)
  <2> HIDE DEF sum
  <2>1. \A i \in 0..N : h[i] = IF i = 0 THEN 0 ELSE sum[i - 1] + v[i]
    OBVIOUS
  <2>2. sum = h
    BY <1>5
  <2> HIDE DEF h, Body
  <2> QED
    BY <1>2, <2>1, <2>2
<1> HIDE DEF sum, Body
<1>7. \A i \in 0..N : sum[i] \in T[i]
  <2>1. sum[0] \in T[0] /\ \A i \in 1..N : sum[i - 1] \in T[i - 1] => sum[i] \in T[i]
    BY <1>31, <1>6
  <2> QED
    BY <1>0, <2>1, LoopIs
<1>8. \A i \in 0..N : sum[i] \in Int
  BY <1>2, <1>7
<1> QED
  BY <1>0, <1>1, <1>6, <1>8 DEF N

\* The score of the first n trades, of which E is the equity and v are the results.
Scores == [equity : Int, peak : Int, drawdown : Int, fees : Int, wins : Int, losses : Int,
           profit : Int, loss : Int]

IsScore(x, E, v, n) ==
    /\ x \in Scores
    /\ x.equity = E[n] /\ x.profit - x.loss = E[n]
    /\ \A i \in 0..n : E[i] <= x.peak
    /\ \E i \in 0..n : x.peak = E[i]
    /\ \A i, j \in 0..n : i <= j => E[i] - E[j] <= x.drawdown
    /\ \E i, j \in 0..n : i <= j /\ x.drawdown = E[i] - E[j]
    /\ x.wins = Cardinality({i \in 1..n : v[i] > 0})
    /\ x.losses = Cardinality({i \in 1..n : v[i] < 0})

\* How many of the first n numbers there are of a kind, with the n-th.
LEMMA OneMoreOf ==
    ASSUME NEW n \in Nat \ {0}, NEW K
    PROVE  /\ Cardinality((1..n) \cap K) \in Nat
           /\ Cardinality((1..n) \cap K) = Cardinality((1..(n - 1)) \cap K) + IF n \in K THEN 1 ELSE 0
<1> DEFINE S == (1..(n - 1)) \cap K
<1>1. IsFiniteSet(S) /\ n \notin S
  <2>1. IsFiniteSet(1..(n - 1))
    BY FS_Interval
  <2>2. S \in SUBSET (1..(n - 1)) /\ n \notin S
    OBVIOUS
  <2> HIDE DEF S
  <2> QED
    BY <2>1, <2>2, FS_Subset
<1>2. Cardinality(S) \in Nat
  BY <1>1, FS_CardinalityType
<1>3. CASE n \in K
  <2>1. (1..n) \cap K = S \cup {n}
    BY <1>3
  <2> HIDE DEF S
  <2>2. Cardinality(S \cup {n}) = Cardinality(S) + 1
    BY <1>1, FS_AddElement
  <2>3. Cardinality((1..n) \cap K) = Cardinality(S) + 1
    BY <2>1, <2>2, Zenon
  <2>4. Cardinality((1..n) \cap K) \in Nat
    BY <1>2, <2>3
  <2> QED
    BY <1>3, <2>3, <2>4 DEF S
<1>4. CASE n \notin K
  <2>1. (1..n) \cap K = S
    BY <1>4
  <2> HIDE DEF S
  <2> QED
    BY <1>2, <1>4, <2>1 DEF S
<1> QED
  BY <1>3, <1>4

LEMMA ScoredKeeps ==
    ASSUME NEW N \in Nat, NEW n \in 1..N, NEW E, NEW v, NEW t, NEW x,
           \A i \in 0..N : E[i] \in Int, \A i \in 1..N : v[i] \in Int,
           E[n] = E[n - 1] + v[n], t.net = v[n], t.fees \in Int,
           IsScore(x, E, v, n - 1)
    PROVE  IsScore(Scored(x, t), E, v, n)
<1> DEFINE equity == x.equity + t.net
           peak   == MaxOf(x.peak, equity)
           low    == MaxOf(x.drawdown, peak - equity)
           y == Scored(x, t)
           m == n - 1
<1>0. n \in Nat \ {0} /\ n \in 1..N /\ m \in 0..N /\ n \in 0..N /\ m \in 0..m /\ n \in 0..n
  OBVIOUS
<1>1. /\ E[n] \in Int /\ E[m] \in Int /\ v[n] \in Int /\ E[n] = E[m] + v[n]
      /\ \A i \in 0..n : E[i] \in Int
  BY <1>0
<1>2. /\ x.equity \in Int /\ x.peak \in Int /\ x.drawdown \in Int /\ x.fees \in Int /\ x.wins \in Int
      /\ x.losses \in Int /\ x.profit \in Int /\ x.loss \in Int
      /\ x.equity = E[m] /\ x.profit - x.loss = E[m]
  BY DEF IsScore, Scores
<1>3. equity = E[n] /\ equity \in Int
  BY <1>1, <1>2
<1>4. y = [equity |-> equity, peak |-> peak, drawdown |-> low, fees |-> x.fees + t.fees,
           wins |-> x.wins + (IF t.net > 0 THEN 1 ELSE 0),
           losses |-> x.losses + (IF t.net < 0 THEN 1 ELSE 0),
           profit |-> x.profit + MaxOf(t.net, 0), loss |-> x.loss + MaxOf(-t.net, 0)]
  BY DEF Scored
<1> HIDE DEF equity, y
<1>5. peak \in Int /\ peak >= x.peak /\ peak >= equity /\ (peak = x.peak \/ peak = equity)
  BY <1>2, <1>3 DEF MaxOf
<1> HIDE DEF peak
<1>6. low \in Int /\ low >= x.drawdown /\ low >= peak - equity /\ (low = x.drawdown \/ low = peak - equity)
  BY <1>2, <1>3, <1>5 DEF MaxOf
<1> HIDE DEF low, m
<1>m. m = n - 1
  BY DEF m
<1>7. \A i \in 0..n : i = n \/ i \in 0..m
  BY <1>0, <1>m
<1>8. \A i \in 0..m : i \in 0..n /\ i <= n
  BY <1>0, <1>m
<1>9. /\ \A i \in 0..m : E[i] <= x.peak
      /\ \E i \in 0..m : x.peak = E[i]
      /\ \A i, j \in 0..m : i <= j => E[i] - E[j] <= x.drawdown
      /\ \E i, j \in 0..m : i <= j /\ x.drawdown = E[i] - E[j]
  BY <1>m DEF IsScore
<1>10. \A i \in 0..n : E[i] <= peak
  <2> SUFFICES ASSUME NEW i \in 0..n PROVE E[i] <= peak
    OBVIOUS
  <2>1. CASE i = n
    BY <1>3, <1>5, <2>1
  <2>2. CASE i \in 0..m
    BY <1>1, <1>2, <1>5, <1>9, <2>2
  <2> QED
    BY <1>7, <2>1, <2>2
<1>11. \E i \in 0..n : peak = E[i]
  BY <1>0, <1>3, <1>5, <1>8, <1>9
<1>12. \A i, j \in 0..n : i <= j => E[i] - E[j] <= low
  <2> SUFFICES ASSUME NEW i \in 0..n, NEW j \in 0..n, i <= j PROVE E[i] - E[j] <= low
    OBVIOUS
  <2>0. E[i] \in Int /\ E[j] \in Int
    BY <1>1
  <2>1. CASE j = n
    BY <1>3, <1>5, <1>6, <1>10, <2>0, <2>1
  <2>2. CASE j # n
    <3>1. i \in 0..m /\ j \in 0..m
      BY <1>0, <1>m, <2>2
    <3> QED
      BY <1>2, <1>6, <1>9, <2>0, <3>1
  <2> QED
    BY <2>1, <2>2
<1>13. \E i, j \in 0..n : i <= j /\ low = E[i] - E[j]
  <2>1. CASE low = x.drawdown
    BY <1>8, <1>9, <2>1
  <2>2. CASE low = peak - equity
    <3>1. PICK i \in 0..n : peak = E[i]
      BY <1>11
    <3>2. i <= n
      BY <1>0
    <3> QED
      BY <1>0, <1>3, <2>2, <3>1, <3>2
  <2> QED
    BY <1>6, <2>1, <2>2
<1>14. /\ x.wins + (IF t.net > 0 THEN 1 ELSE 0) = Cardinality({i \in 1..n : v[i] > 0})
       /\ x.losses + (IF t.net < 0 THEN 1 ELSE 0) = Cardinality({i \in 1..n : v[i] < 0})
  <2> DEFINE W == {i \in 1..n : v[i] > 0}
             L == {i \in 1..n : v[i] < 0}
  <2>1. /\ (1..n) \cap W = W /\ (1..(n - 1)) \cap W = {i \in 1..(n - 1) : v[i] > 0} /\ (n \in W <=> v[n] > 0)
        /\ (1..n) \cap L = L /\ (1..(n - 1)) \cap L = {i \in 1..(n - 1) : v[i] < 0} /\ (n \in L <=> v[n] < 0)
    BY <1>0
  <2>2. /\ x.wins = Cardinality({i \in 1..(n - 1) : v[i] > 0})
        /\ x.losses = Cardinality({i \in 1..(n - 1) : v[i] < 0})
    BY DEF IsScore
  <2> HIDE DEF W, L
  <2>3. Cardinality(W) = x.wins + (IF n \in W THEN 1 ELSE 0)
    BY <1>0, <2>1, <2>2, OneMoreOf
  <2>4. Cardinality(L) = x.losses + (IF n \in L THEN 1 ELSE 0)
    BY <1>0, <2>1, <2>2, OneMoreOf
  <2> QED
    BY <2>1, <2>3, <2>4 DEF W, L
<1>15. /\ x.profit + MaxOf(t.net, 0) \in Int /\ x.loss + MaxOf(-t.net, 0) \in Int
       /\ (x.profit + MaxOf(t.net, 0)) - (x.loss + MaxOf(-t.net, 0)) = E[n]
  BY <1>1, <1>2 DEF MaxOf
<1>16. y \in Scores
  <2>1. /\ x.wins + (IF t.net > 0 THEN 1 ELSE 0) \in Int /\ x.losses + (IF t.net < 0 THEN 1 ELSE 0) \in Int
        /\ x.fees + t.fees \in Int
    BY <1>2
  <2> QED
    BY <1>3, <1>4, <1>5, <1>6, <1>15, <2>1 DEF Scores
<1> QED
  BY <1>3, <1>4, <1>10, <1>11, <1>12, <1>13, <1>14, <1>15, <1>16 DEF IsScore, y

-----------------------------------------------------------------------------
\* The scorecard of any list of trades is that of its definition.
LEMMA MetricsScore ==
    ASSUME NEW list, IsList(list), \A i \in 1..Len(list) : list[i].net \in Int /\ list[i].fees \in Int
    PROVE  LET v == [i \in DOMAIN list |-> list[i].net] IN
           /\ Len(list) \in Nat /\ DOMAIN list = 1..Len(list)
           /\ \A i \in 0..Len(list) : Equity(list)[i] \in Int
           /\ IsScore(Metrics(list), Equity(list), v, Len(list))
<1> DEFINE N == Len(list)
           v == [i \in DOMAIN list |-> list[i].net]
           E == Equity(list)
           At(n) == {x \in Scores : IsScore(x, E, v, n)}
           T == [n \in 0..N |-> At(n)]
           F == [n \in 1..N |-> [x \in Scores |-> Scored(x, list[n])]]
           Body(f) == [n \in 0..N |-> IF n = 0 THEN Unscored ELSE Scored(f[n - 1], list[n])]
           scored == CHOOSE f : f = Body(f)
<1>0. N \in Nat /\ DOMAIN list = 1..N
  BY LenProperties DEF IsList
<1>1. /\ Len(v) = N /\ IsList(v)
      /\ \A i \in 1..N : v[i] = list[i].net /\ v[i] \in Int
  <2>1. v = [i \in 1..N |-> list[i].net] /\ \A i \in 1..N : list[i].net \in Int
    BY <1>0
  <2>2. v \in [1..N -> Int]
    BY <2>1
  <2> HIDE DEF N
  <2>3. IsList(v) /\ Len(v) = N
    BY <1>0, <2>2, Indexed
  <2> QED
    BY <2>1, <2>3
<1>2. /\ E[0] = 0 /\ \A i \in 1..N : E[i] = E[i - 1] + v[i]
      /\ \A i \in 0..N : E[i] \in Int
  <2>1. E = Sums(v)
    BY DEF Equity
  <2> HIDE DEF v, E
  <2> QED
    BY <1>1, <2>1, SumsAre
<1>3. Metrics(list) = scored[N]
  BY DEF Metrics
<1> HIDE DEF N, v, E
<1>4. Unscored \in At(0)
  <2>1. /\ Unscored \in Scores
        /\ Unscored.equity = 0 /\ Unscored.profit - Unscored.loss = 0 /\ Unscored.peak = 0
        /\ Unscored.drawdown = 0 /\ Unscored.wins = 0 /\ Unscored.losses = 0
    BY DEF Unscored, Scores
  <2>2. {i \in 1..0 : v[i] > 0} = {} /\ {i \in 1..0 : v[i] < 0} = {} /\ \A i \in 0..0 : i = 0
    OBVIOUS
  <2>3. Cardinality({i \in 1..0 : v[i] > 0}) = 0 /\ Cardinality({i \in 1..0 : v[i] < 0}) = 0
    BY <2>2, FS_EmptySet, Zenon
  <2>4. 0 \in 0..0 /\ 0 <= 0 /\ E[0] - E[0] = 0
    BY <1>2
  <2>5. IsScore(Unscored, E, v, 0)
    BY <1>2, <2>1, <2>2, <2>3, <2>4 DEF IsScore
  <2> QED
    BY <2>1, <2>5
<1>5. ASSUME NEW n \in 1..N, NEW x \in At(n - 1) PROVE x \in Scores /\ Scored(x, list[n]) \in At(n)
  <2>1. x \in Scores /\ IsScore(x, E, v, n - 1)
    OBVIOUS
  <2>2. /\ E[n] = E[n - 1] + v[n] /\ list[n].net = v[n] /\ list[n].fees \in Int
        /\ \A i \in 1..N : v[i] \in Int
    BY <1>1, <1>2 DEF N
  <2>3. IsScore(Scored(x, list[n]), E, v, n)
    BY <1>0, <1>2, <2>1, <2>2, ScoredKeeps
  <2> QED
    BY <2>1, <2>3 DEF IsScore
<1>6. /\ \A n \in 0..N : T[n] = At(n)
      /\ \A n \in 1..N : \A x \in Scores : F[n][x] = Scored(x, list[n])
      /\ 0 \in 0..N /\ \A n \in 1..N : n \in 0..N /\ n - 1 \in 0..N /\ n # 0
  <2> HIDE DEF At
  <2> QED
    BY <1>0
<1> HIDE DEF T, F, At
<1>7. Unscored \in T[0] /\ \A n \in 1..N : \A x \in T[n - 1] : x \in Scores /\ Scored(x, list[n]) \in T[n]
  BY <1>4, <1>5, <1>6
<1>8. \E f : f = Body(f)
  <2>1. PICK f : RunsAs(f, N, T, Unscored, F)
    <3>1. IsLoop(N, T, Unscored, F)
      BY <1>6, <1>7 DEF IsLoop
    <3> QED
      BY <1>0, <3>1, LoopExists
  <2> DEFINE g == [n \in 0..N |-> f[n]]
             h == Body(g)
  <2>2. \A n \in 0..N : g[n] = f[n]
    OBVIOUS
  <2>3. \A n \in 0..N : h[n] = IF n = 0 THEN Unscored ELSE Scored(g[n - 1], list[n])
    <3> HIDE DEF g
    <3> QED
      OBVIOUS
  <2>4. g = [n \in 0..N |-> g[n]] /\ h = [n \in 0..N |-> h[n]]
    OBVIOUS
  <2> HIDE DEF g, h
  <2>5. ASSUME NEW n \in 0..N PROVE g[n] = h[n]
    <3>1. CASE n = 0
      BY <2>1, <2>2, <2>3, <3>1 DEF RunsAs
    <3>2. CASE n # 0
      <4>1. n \in 1..N /\ n - 1 \in 0..N
        BY <1>0, <3>2
      <4>2. f[n - 1] \in T[n - 1] /\ f[n] = F[n][f[n - 1]]
        BY <2>1, <4>1 DEF RunsAs
      <4>3. f[n] = Scored(f[n - 1], list[n])
        BY <1>6, <1>7, <4>1, <4>2
      <4> QED
        BY <2>2, <2>3, <3>2, <4>1, <4>3
    <3> QED
      BY <3>1, <3>2
  <2>6. g = h
    BY <2>4, <2>5
  <2> HIDE DEF Body
  <2> QED
    BY <2>6 DEF h
<1>9. scored = Body(scored)
  <2> HIDE DEF Body
  <2> QED
    BY <1>8
<1>10. scored[0] = Unscored /\ \A n \in 1..N : scored[n] = Scored(scored[n - 1], list[n])
  <2> DEFINE h == Body(scored)
  <2> HIDE DEF scored
  <2>1. \A n \in 0..N : h[n] = IF n = 0 THEN Unscored ELSE Scored(scored[n - 1], list[n])
    OBVIOUS
  <2>2. scored = h
    BY <1>9
  <2> HIDE DEF h, Body
  <2> QED
    BY <1>6, <2>1, <2>2
<1> HIDE DEF scored, Body
<1>11. \A n \in 0..N : scored[n] \in T[n]
  <2>1. scored[0] \in T[0] /\ \A n \in 1..N : scored[n - 1] \in T[n - 1] => scored[n] \in T[n]
    BY <1>7, <1>10
  <2> QED
    BY <1>0, <2>1, LoopIs
<1>12. IsScore(Metrics(list), E, v, N)
  <2>1. scored[N] \in At(N)
    BY <1>0, <1>6, <1>11
  <2> QED
    BY <1>3, <2>1 DEF At
<1> QED
  BY <1>0, <1>2, <1>12 DEF N, E, v

-----------------------------------------------------------------------------
(* The trades of a backtest. *)

\* A trade that the journal would record with the same money.
Agrees(t) ==
    /\ t.net = Recorded(t, maker).net_pnl /\ t.fees = Recorded(t, maker).fee
    /\ t.net \in Int /\ t.fees \in Int /\ t.closed \in Nat

LEMMA BookedAgrees ==
    ASSUME NEW pos, pos.px \in Int, NEW level \in Int, NEW at \in Nat, NEW reason
    PROVE  Agrees(Booked(pos, maker, level, at, reason))
<1> DEFINE long  == pos.side = "long"
           fill  == level * (IF long THEN Unit - Slippage ELSE Unit + Slippage)
           px    == Scaled(pos.px)
           gross == (IF long THEN fill - px ELSE px - fill) * Unit
           fees  == px * EntryRate(maker) + fill * TakerFee
           t     == Booked(pos, maker, level, at, reason)
<1>1. t = [side |-> pos.side, entry |-> pos.px, fill |-> fill, gross |-> gross, fees |-> fees,
           net |-> gross - fees, closed |-> at, reason |-> reason]
  BY DEF Booked
<1>2. Unit \in Int /\ Slippage \in Int /\ MakerFee \in Int /\ TakerFee \in Int
  BY AccountingAssumption
<1>3. fill \in Int
  <2>1. (IF long THEN Unit - Slippage ELSE Unit + Slippage) \in Int
    BY <1>2
  <2> QED
    BY <2>1
<1>4. px \in Int
  BY <1>2 DEF Scaled
<1>5. EntryRate(maker) \in Int /\ EntryRate(maker) = IF maker THEN MakerFee ELSE TakerFee
  BY <1>2 DEF EntryRate
<1>6. t.side = pos.side /\ t.fill = fill /\ Scaled(t.entry) = px /\ t.net = gross - fees /\ t.fees = fees /\ t.closed = at
  BY <1>1
<1> HIDE DEF t, fill, px
<1>7. CalcPnl(t) = gross
  BY <1>6 DEF CalcPnl
<1>8. CalcFee(t, maker) = fees
  BY <1>5, <1>6 DEF CalcFee
<1>9. gross \in Int
  <2>1. (IF long THEN fill - px ELSE px - fill) \in Int
    BY <1>3, <1>4
  <2> QED
    BY <1>2, <2>1
<1>10. fees \in Int
  BY <1>2, <1>3, <1>4, <1>5
<1> HIDE DEF gross, fees
<1>11. Recorded(t, maker).net_pnl = gross - fees /\ Recorded(t, maker).fee = fees
  BY <1>7, <1>8 DEF Recorded
<1> QED
  BY <1>6, <1>9, <1>10, <1>11 DEF Agrees, t

\* The book with its prices, and the trades booked so far.
Sides   == {"long", "short"}
Resting == [stage : {"resting"}, side : Sides, px : Int, ts : Nat]
Held    == [stage : {"held"}, side : Sides, px : Int, ts : Nat, peak : Int, armed : BOOLEAN, stop : Int]
Entries == {Nothing} \cup Resting \cup Held

AllAgree(list) == IsList(list) /\ \A i \in 1..Len(list) : Agrees(list[i])

Money ==
    /\ book \in [Coins -> Entries] /\ mark \in [Coins -> Int] /\ ts \in Nat
    /\ AllAgree(trades)

LEMMA EntryKinds ==
    ASSUME NEW e \in Entries
    PROVE  /\ e.stage = "held" => e \in Held
           /\ e.stage = "resting" => e \in Resting
BY DEF Entries, Held, Resting, Nothing

LEMMA MoreAgree ==
    ASSUME NEW s, NEW t, AllAgree(s), AllAgree(t)
    PROVE  AllAgree(s \o t)
<1>1. PICK S : s \in Seq(S)
  BY DEF AllAgree, IsList
<1>2. PICK T : t \in Seq(T)
  BY DEF AllAgree, IsList
<1>3. s \in Seq(S \cup T) /\ t \in Seq(S \cup T)
  BY <1>1, <1>2, SeqMonotonic
<1>4. /\ s \o t \in Seq(S \cup T) /\ Len(s \o t) = Len(s) + Len(t)
      /\ \A i \in 1..(Len(s) + Len(t)) : (s \o t)[i] = IF i <= Len(s) THEN s[i] ELSE t[i - Len(s)]
      /\ Len(s) \in Nat /\ Len(t) \in Nat
  BY <1>3, ConcatProperties, LenProperties
<1>5. ASSUME NEW i \in 1..Len(s \o t) PROVE Agrees((s \o t)[i])
  <2>1. i \in 1..(Len(s) + Len(t))
    BY <1>4, <1>5
  <2>2. CASE i <= Len(s)
    <3>1. i \in 1..Len(s) /\ (s \o t)[i] = s[i]
      BY <1>4, <2>1, <2>2
    <3> QED
      BY <3>1 DEF AllAgree
  <2>3. CASE ~(i <= Len(s))
    <3>1. i - Len(s) \in 1..Len(t) /\ (s \o t)[i] = t[i - Len(s)]
      BY <1>4, <2>1, <2>3
    <3> QED
      BY <3>1 DEF AllAgree
  <2> QED
    BY <2>2, <2>3
<1> QED
  BY <1>4, <1>5 DEF AllAgree, IsList

LEMMA MovedHeld ==
    ASSUME NEW pos \in Held, NEW price \in Int
    PROVE  Moved(pos, price) \in Held
<1> DEFINE long  == pos.side = "long"
           arm   == Trigger > 0 /\ ~pos.armed /\ Gain(pos, price) * Unit >= Trigger * pos.px
           floor == pos.px * (IF long THEN Unit + Buffer ELSE Unit - Buffer)
           peak  == IF (long /\ price > pos.peak) \/ (~long /\ price < pos.peak) THEN price ELSE pos.peak
           stop  == IF arm /\ ((long /\ floor > pos.stop) \/ (~long /\ floor < pos.stop)) THEN floor ELSE pos.stop
           armed == pos.armed \/ arm
<1>1. Moved(pos, price) = [pos EXCEPT !.peak = peak, !.armed = armed, !.stop = stop]
  BY DEF Moved
<1>2. floor \in Int
  <2>1. Unit \in Int /\ Buffer \in Int
    BY AccountingAssumption, SimulatorAssumption
  <2>2. pos.px \in Int /\ (IF long THEN Unit + Buffer ELSE Unit - Buffer) \in Int
    BY <2>1 DEF Held
  <2> QED
    BY <2>2
<1>3. armed \in BOOLEAN
  <2> HIDE DEF arm
  <2> QED
    BY Zenon
<1> HIDE DEF floor, arm, armed
<1>4. peak \in Int /\ stop \in Int
  BY <1>2 DEF Held
<1> HIDE DEF peak, stop
<1> QED
  BY <1>1, <1>3, <1>4 DEF Held

LEMMA OpenedHeld ==
    ASSUME NEW side \in Sides, NEW px \in Int, NEW at \in Nat
    PROVE  Opened(side, px, at) \in Held
<1> DEFINE stop == px * (IF side = "long" THEN Unit - StopLoss ELSE Unit + StopLoss)
<1>1. stop \in Int
  <2>1. Unit \in Int /\ StopLoss \in Int
    BY AccountingAssumption, SimulatorAssumption
  <2>2. (IF side = "long" THEN Unit - StopLoss ELSE Unit + StopLoss) \in Int
    BY <2>1
  <2> QED
    BY <2>2
<1>2. Opened(side, px, at) = [stage |-> "held", side |-> side, px |-> px, ts |-> at, peak |-> px,
                              armed |-> FALSE, stop |-> stop]
  BY DEF Opened
<1> HIDE DEF stop
<1> QED
  BY <1>1, <1>2 DEF Held

LEMMA SettledEntry ==
    ASSUME NEW pos \in Entries, NEW price \in Int, NEW at \in Nat
    PROVE  Settled(pos, price, at) \in Entries
<1>0. Nothing \in Entries /\ Held \subseteq Entries
  BY DEF Entries
<1>1. CASE pos.stage = "held"
  <2>1. Settled(pos, price, at) =
           IF ExitTrades(Moved(pos, price), price, at) = <<>> THEN Moved(pos, price) ELSE Nothing
    BY <1>1 DEF Settled
  <2>2. Moved(pos, price) \in Held
    BY <1>1, EntryKinds, MovedHeld
  <2> QED
    BY <1>0, <2>1, <2>2
<1>2. CASE pos.stage = "resting"
  <2>1. Settled(pos, price, at) =
           IF Expired(pos, at) THEN Nothing
           ELSE IF Fills(pos, price, at) THEN Opened(pos.side, pos.px, at) ELSE pos
    BY <1>2 DEF Settled
  <2>2. pos.side \in Sides /\ pos.px \in Int
    BY <1>2, EntryKinds DEF Resting
  <2>3. Opened(pos.side, pos.px, at) \in Held
    BY <2>2, OpenedHeld
  <2> QED
    BY <1>0, <2>1, <2>3
<1>3. CASE pos.stage = "none"
  BY <1>0, <1>3 DEF Settled
<1> QED
  BY <1>1, <1>2, <1>3 DEF Entries, Held, Resting, Nothing

LEMMA ExitsAgree ==
    ASSUME NEW pos \in Held, NEW price \in Int, NEW at \in Nat
    PROVE  AllAgree(ExitTrades(pos, price, at))
<1>0. pos.px \in Int /\ pos.stop \in Int
  BY DEF Held
<1>1. Unit \in Int /\ TakeProfit \in Int
  BY AccountingAssumption, SimulatorAssumption
<1>2. TargetOf(pos) \in Int
  <2>1. (IF pos.side = "long" THEN Unit + TakeProfit ELSE Unit - TakeProfit) \in Int
    BY <1>1
  <2> QED
    BY <1>0, <2>1 DEF TargetOf
<1>3. price * Unit \in Int
  BY <1>1
<1>4. ASSUME NEW level \in Int, NEW reason PROVE AllAgree(<<Booked(pos, maker, level, at, reason)>>)
  <2> DEFINE t == Booked(pos, maker, level, at, reason)
  <2>1. Agrees(t)
    BY <1>0, BookedAgrees
  <2> HIDE DEF t
  <2>2. IsList(<<t>>) /\ Len(<<t>>) = 1 /\ <<t>>[1] = t
    BY Short
  <2> QED
    BY <2>1, <2>2 DEF AllAgree, t
<1>5. AllAgree(<<>>)
  BY Short DEF AllAgree
<1>6. CASE Stopped(pos, price)
  BY <1>0, <1>4, <1>6 DEF ExitTrades
<1>7. CASE ~Stopped(pos, price) /\ Reached(pos, price)
  BY <1>2, <1>4, <1>7 DEF ExitTrades
<1>8. CASE ~Stopped(pos, price) /\ ~Reached(pos, price) /\ Trailed(pos, price)
  BY <1>3, <1>4, <1>8 DEF ExitTrades
<1>9. CASE ~Stopped(pos, price) /\ ~Reached(pos, price) /\ ~Trailed(pos, price) /\ TimedOut(pos, at)
  BY <1>3, <1>4, <1>9 DEF ExitTrades
<1>10. CASE ~Stopped(pos, price) /\ ~Reached(pos, price) /\ ~Trailed(pos, price) /\ ~TimedOut(pos, at)
  BY <1>5, <1>10 DEF ExitTrades
<1> QED
  BY <1>6, <1>7, <1>8, <1>9, <1>10

\* A turn of run_async books only trades that agree.
LEMMA EventMoney ==
    ASSUME Money, NEW c \in Coins, NEW price \in Prices, NEW signal \in Signals(c, price),
           Event(c, price, ts + 1, signal)
    PROVE  Money'
<1> DEFINE at      == ts + 1
           was     == book[c]
           left    == Settled(was, price, at)
           settled == [book EXCEPT ![c] = left]
           refused == \/ settled[c].stage # "none"
                      \/ Cardinality(Live(settled)) >= MaxConcurrent
                      \/ signal.px <= 0
           given   == signal.side # "none"
           new     == IF maker THEN [stage |-> "resting", side |-> signal.side, px |-> signal.px, ts |-> at]
                      ELSE Opened(signal.side, signal.px, at)
           exits   == ExitTrades(Moved(was, price), price, at)
<1>1. /\ trades' = IF was.stage = "held" THEN trades \o exits ELSE trades
      /\ book' = IF ~(given /\ ~refused) THEN settled ELSE [book EXCEPT ![c] = new]
      /\ mark' = [mark EXCEPT ![c] = price] /\ ts' = at /\ maker' = maker
  BY DEF Event
<1>2. was \in Entries /\ price \in Int /\ at \in Nat /\ mark[c] \in Int
  BY SimulatorAssumption DEF Money
<1> HIDE DEF at
<1>3. left \in Entries
  BY <1>2, SettledEntry
<1>4. given => new \in Entries
  <2> SUFFICES ASSUME given PROVE new \in Entries
    OBVIOUS
  <2>1. signal.side \in Sides /\ signal.px \in Int
    BY <1>2 DEF Signals, Sides
  <2>2. Opened(signal.side, signal.px, at) \in Held
    BY <1>2, <2>1, OpenedHeld
  <2>3. [stage |-> "resting", side |-> signal.side, px |-> signal.px, ts |-> at] \in Resting
    BY <1>2, <2>1 DEF Resting
  <2> QED
    BY <2>2, <2>3 DEF Entries
<1>5. was.stage = "held" => AllAgree(exits)
  <2> SUFFICES ASSUME was.stage = "held" PROVE AllAgree(exits)
    OBVIOUS
  <2>1. was \in Held
    BY <1>2, EntryKinds
  <2>2. Moved(was, price) \in Held
    BY <1>2, <2>1, MovedHeld
  <2> QED
    BY <1>2, <2>2, ExitsAgree
<1> HIDE DEF left, new, exits, refused, given
<1>6. AllAgree(trades')
  BY <1>1, <1>5, MoreAgree DEF Money
<1>7. book' \in [Coins -> Entries]
  <2>1. settled \in [Coins -> Entries]
    BY <1>3 DEF Money
  <2>2. given => [book EXCEPT ![c] = new] \in [Coins -> Entries]
    BY <1>4 DEF Money
  <2> HIDE DEF settled
  <2> QED
    BY <1>1, <2>1, <2>2
<1>8. mark' \in [Coins -> Int] /\ ts' \in Nat
  BY <1>1, <1>2 DEF Money
<1> QED
  BY <1>1, <1>6, <1>7, <1>8 DEF Money, AllAgree, Agrees

LEMMA EndMoney == ASSUME Money, Finish PROVE Money'
<1> DEFINE open == {c \in Coins : book[c].stage = "held"}
           held == SetToSeq(open)
           e(i) == Booked(book[held[i]], maker, mark[held[i]] * Unit, book[held[i]].ts, "eod_mark")
           closed == [i \in DOMAIN held |-> e(i)]
           k == Cardinality(open)
<1>1. trades' = trades \o closed /\ book' = [c \in Coins |-> Nothing] /\ UNCHANGED <<maker, mark, ts>>
  BY Zenon DEF Finish
<1>2. IsFiniteSet(open)
  BY SimulatorAssumption, FS_Subset
<1>3. k \in Nat /\ held \in [1..k -> open]
  <2> HIDE DEF open
  <2> QED
    BY <1>2, Listed
<1>4. \A c \in open : c \in Coins /\ book[c] \in Held /\ mark[c] \in Int
  BY EntryKinds DEF Money
<1> HIDE DEF held, open, k
<1>5. \A i \in 1..k : Agrees(e(i))
  <2> SUFFICES ASSUME NEW i \in 1..k PROVE Agrees(e(i))
    OBVIOUS
  <2> DEFINE c == held[i]
  <2>1. c \in open
    BY <1>3
  <2> HIDE DEF c
  <2>2. book[c].px \in Int /\ book[c].ts \in Nat /\ mark[c] * Unit \in Int
    BY <1>4, <2>1, AccountingAssumption DEF Held
  <2>3. Agrees(Booked(book[c], maker, mark[c] * Unit, book[c].ts, "eod_mark"))
    BY <2>2, BookedAgrees
  <2> QED
    BY <2>3 DEF c
<1>6. closed = [i \in 1..k |-> e(i)]
  BY <1>3
<1> HIDE DEF e, closed
<1>7. AllAgree(closed)
  <2>1. closed \in [1..k -> {e(i) : i \in 1..k}] /\ \A i \in 1..k : closed[i] = e(i)
    BY <1>6
  <2>2. IsList(closed) /\ Len(closed) = k
    BY <1>3, <2>1, Indexed
  <2> QED
    BY <1>5, <2>1, <2>2 DEF AllAgree
<1>8. AllAgree(trades')
  BY <1>1, <1>7, MoreAgree DEF Money
<1>9. book' \in [Coins -> Entries]
  BY <1>1 DEF Entries
<1> QED
  BY <1>1, <1>8, <1>9 DEF Money, AllAgree, Agrees

LEMMA MoneyHolds == Spec => []Money
<1>1. Init => Money
  <2> SUFFICES ASSUME Init PROVE Money
    OBVIOUS
  <2>1. AllAgree(trades)
    BY Short DEF Init, AllAgree
  <2> QED
    BY <2>1 DEF Init, Money, Entries
<1>2. Money /\ [Next]_vars => Money'
  <2> SUFFICES ASSUME Money, [Next]_vars PROVE Money'
    OBVIOUS
  <2>1. ASSUME NEW c \in Coins, NEW price \in Prices, NEW signal \in Signals(c, price),
               Event(c, price, ts + 1, signal)
        PROVE  Money'
    BY <2>1, EventMoney
  <2>2. CASE Finish
    BY <2>2, EndMoney
  <2>3. CASE UNCHANGED vars
    BY <2>3 DEF vars, Money, AllAgree, Agrees, IsList
  <2> QED
    BY <2>1, <2>2, <2>3 DEF Next
<1> QED
  BY <1>1, <1>2, PTL DEF Spec

\* The backtest's books agree with the live journal's, trade by trade and in sum,
\* and its scorecard is that of its definition (Simulator!BooksAgree).
THEOREM BooksAlwaysAgree == Spec => []BooksAgree
<1>1. ASSUME Money PROVE BooksAgree
  <2> DEFINE N       == Len(trades)
             records == [i \in DOMAIN trades |-> Recorded(trades[i], maker)]
             v       == [i \in DOMAIN trades |-> trades[i].net]
             E       == Equity(trades)
             m       == Metrics(trades)
             within  == {i \in DOMAIN records : records[i].closed >= 0}
             nets    == [i \in DOMAIN records |-> IF i \in within THEN records[i].net_pnl ELSE 0]
             stats   == PeriodStats(records, 0)
  <2>1. /\ N \in Nat /\ DOMAIN trades = 1..N
        /\ \A i \in 0..N : E[i] \in Int
        /\ IsScore(m, E, v, N)
    <3>1. IsList(trades) /\ \A i \in 1..Len(trades) : trades[i].net \in Int /\ trades[i].fees \in Int
      BY <1>1 DEF Money, AllAgree, Agrees
    <3> QED
      BY <3>1, MetricsScore
  <2>2. \A i \in DOMAIN trades : Agrees(trades[i])
    BY <1>1, <2>1 DEF Money, AllAgree
  <2> HIDE DEF N
  <2>3. /\ DOMAIN records = 1..N
        /\ \A i \in 1..N : /\ records[i] = Recorded(trades[i], maker) /\ v[i] = trades[i].net
                           /\ records[i].net_pnl = v[i] /\ records[i].fee = trades[i].fees
                           /\ records[i].closed \in Nat
    <3>1. DOMAIN records = 1..N /\ \A i \in 1..N : records[i] = Recorded(trades[i], maker) /\ v[i] = trades[i].net
      BY <2>1
    <3>2. \A t : Recorded(t, maker).closed = t.closed
      BY DEF Recorded
    <3> HIDE DEF records, v
    <3>3. \A i \in 1..N : /\ trades[i].net = Recorded(trades[i], maker).net_pnl
                         /\ trades[i].fees = Recorded(trades[i], maker).fee
                         /\ trades[i].closed \in Nat
      BY <2>1, <2>2 DEF Agrees
    <3>4. ASSUME NEW i \in 1..N
          PROVE  /\ records[i].net_pnl = v[i] /\ records[i].fee = trades[i].fees
                 /\ records[i].closed \in Nat
      <4>1. records[i] = Recorded(trades[i], maker) /\ v[i] = trades[i].net
        BY <3>1
      <4> QED
        BY <3>2, <3>3, <4>1
    <3> QED
      BY <3>1, <3>4
  <2>4. v = [i \in 1..N |-> v[i]]
    BY <2>1
  <2>5. stats = [count |-> Cardinality(within),
                 wins |-> Cardinality({i \in within : records[i].net_pnl > 0}),
                 losses |-> Cardinality({i \in within : records[i].net_pnl < 0}),
                 net |-> Sums(nets)[Len(records)]]
    BY DEF PeriodStats
  <2>6. IsList(records) /\ Len(records) = N
    <3>1. records \in [1..N -> {Recorded(trades[i], maker) : i \in 1..N}]
      BY <2>1
    <3> HIDE DEF records
    <3> QED
      BY <2>1, <3>1, Indexed
  <2>7. E = Sums(v)
    BY DEF Equity
  <2> HIDE DEF records, v, E, m, stats
  <2>8. within = 1..N
    BY <2>3
  <2>9. nets = v
    <3>1. nets = [i \in 1..N |-> nets[i]] /\ \A i \in 1..N : nets[i] = records[i].net_pnl
      BY <2>3, <2>8
    <3> HIDE DEF nets, within
    <3> QED
      BY <2>3, <2>4, <3>1
  <2>10. /\ {i \in within : records[i].net_pnl > 0} = {i \in 1..N : v[i] > 0}
         /\ {i \in within : records[i].net_pnl < 0} = {i \in 1..N : v[i] < 0}
    BY <2>3, <2>8
  <2>11. Cardinality(within) = N
    <3>1. Cardinality(1..N) = N
      BY <2>1, FS_Interval
    <3> QED
      BY <2>8, <3>1, Zenon
  <2> HIDE DEF nets, within
  <2>12. stats = [count |-> N, wins |-> m.wins, losses |-> m.losses, net |-> m.equity]
    <3>1. m.wins = Cardinality({i \in 1..N : v[i] > 0}) /\ m.losses = Cardinality({i \in 1..N : v[i] < 0}) /\ m.equity = E[N]
      BY <2>1 DEF IsScore
    <3> QED
      BY <2>5, <2>6, <2>7, <2>9, <2>10, <2>11, <3>1
  <2>13. m.equity = m.profit - m.loss
    BY <2>1 DEF IsScore
  <2>14. m.drawdown \in Drawdowns(trades) /\ \A d \in Drawdowns(trades) : d <= m.drawdown
    <3> DEFINE pairs == {p \in (0..N) \X (0..N) : p[1] <= p[2]}
    <3>1. Drawdowns(trades) = {E[p[1]] - E[p[2]] : p \in pairs}
      BY DEF Drawdowns, N, E
    <3>2. PICK i \in 0..N, j \in 0..N : i <= j /\ m.drawdown = E[i] - E[j]
      BY <2>1 DEF IsScore
    <3>3. <<i, j>> \in pairs /\ m.drawdown = E[<<i, j>>[1]] - E[<<i, j>>[2]]
      BY <3>2
    <3>4. \A p \in pairs : E[p[1]] - E[p[2]] <= m.drawdown
      <4>1. \A k, l \in 0..N : k <= l => E[k] - E[l] <= m.drawdown
        BY <2>1 DEF IsScore
      <4>2. \A p \in pairs : p[1] \in 0..N /\ p[2] \in 0..N /\ p[1] <= p[2]
        OBVIOUS
      <4> HIDE DEF pairs
      <4> QED
        BY <4>1, <4>2
    <3> HIDE DEF pairs
    <3> QED
      BY <3>1, <3>3, <3>4
  <2>15. \A i \in DOMAIN trades : trades[i].net = records[i].net_pnl /\ trades[i].fees = records[i].fee
    BY <2>1, <2>3
  <2> QED
    BY <2>12, <2>13, <2>14, <2>15 DEF BooksAgree, N, records, stats, m
<1> QED
  BY <1>1, MoneyHolds, PTL
================================================================================
