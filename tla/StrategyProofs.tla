----------------------------- MODULE StrategyProofs -----------------------------
(***************************************************************************)
(* What the strategies signal, and the breadth of the market they share,   *)
(* for any coins, sizes, periods and limits.  And the statistics that give *)
(* a bar its direction, for any windows and histories of any length.       *)
(***************************************************************************)
EXTENDS Strategy, Microstructure, SequenceTheorems, WellFoundedInduction, TLAPS

\* A set of numbers has a least one: the induction of what follows.
LEMMA LeastNumber ==
    ASSUME NEW T, T \subseteq Nat, T # {}
    PROVE  \E x \in T : \A y \in T : x <= y
<1> DEFINE R == OpToRel(<, Nat)
<1>1. \E x \in T : \A y \in T : ~(<<y, x>> \in R)
  <2>1. IsWellFoundedOn(R, Nat)
    BY NatLessThanWellFounded
  <2> HIDE DEF R
  <2> QED
    BY <2>1, WFMin
<1>2. \A x, y \in Nat : x < y => <<x, y>> \in R
  BY DEF OpToRel
<1> HIDE DEF R
<1>3. PICK x \in T : \A y \in T : ~(<<y, x>> \in R)
  BY <1>1
<1>4. \A y \in T : x <= y
  <2> TAKE y \in T
  <2>1. x \in Nat /\ y \in Nat /\ ~(<<y, x>> \in R)
    BY <1>3
  <2>2. ~(y < x)
    BY <1>2, <2>1
  <2> QED
    BY <2>1, <2>2
<1> QED
  BY <1>4

LEMMA MinIsLeast ==
    ASSUME NEW T, T \subseteq Nat, T # {}
    PROVE  Min(T) \in T /\ \A y \in T : Min(T) <= y
<1>1. \E x \in T : \A y \in T : x <= y
  BY LeastNumber
<1> QED
  BY <1>1 DEF Min

LEMMA MaxIsGreatest ==
    ASSUME NEW T, T \subseteq Int, T # {}, NEW n \in Int, \A x \in T : x <= n
    PROVE  Max(T) \in T /\ \A y \in T : Max(T) >= y
<1> DEFINE U == {n - x : x \in T}
<1>1. U \subseteq Nat /\ U # {}
  OBVIOUS
<1>2. PICK u \in U : \A v \in U : u <= v
  BY <1>1, LeastNumber
<1>3. PICK x \in T : u = n - x
  BY <1>2
<1>4. \A y \in T : x >= y
  <2> TAKE y \in T
  <2>1. n - y \in U
    OBVIOUS
  <2>2. u <= n - y
    BY <1>2, <2>1
  <2> QED
    BY <1>3, <2>2
<1>5. \E z \in T : \A y \in T : z >= y
  BY <1>4
<1> QED
  BY <1>5 DEF Max

------------------------------------------------------------------------------
(* The breadth of the market. *)

Mark == [coin : Coins, direction : Directions, ts : Int]

\* The marks come in the order of their times but for the skew, none of the
\* future; those within the window of the latest are among them.
Kept(s, h, n) ==
    /\ s \in Seq(Mark)
    /\ h \subseteq ToSet(s)
    /\ \A i \in 1..Len(s) : s[i].ts <= n
    /\ \A i, j \in 1..Len(s) : i < j => s[j].ts >= s[i].ts - Skew
    /\ \A i \in 1..Len(s) : s[i].ts >= s[Len(s)].ts - Window - Skew

LEMMA SameBreadth ==
    ASSUME NEW s, NEW h, NEW c, NEW d, NEW t
    PROVE  /\ M!Recorded(s, c, d, t) = Recorded(s, c, d, t)
           /\ D!Recorded(s, c, d, t) = Recorded(s, c, d, t)
           /\ M!InWindow(h, c, d, t) = InWindow(h, c, d, t)
           /\ D!InWindow(h, c, d, t) = InWindow(h, c, d, t)
<1>1. M!Recorded(s, c, d, t) = Recorded(s, c, d, t)
  BY DEF M!Recorded, Recorded, M!Pruned, Pruned, M!Min, Min
<1>2. D!Recorded(s, c, d, t) = Recorded(s, c, d, t)
  BY DEF D!Recorded, Recorded, D!Pruned, Pruned, D!Min, Min
<1>3. M!InWindow(h, c, d, t) = InWindow(h, c, d, t)
  BY DEF M!InWindow, InWindow, M!Max, Max
<1>4. D!InWindow(h, c, d, t) = InWindow(h, c, d, t)
  BY DEF D!InWindow, InWindow, D!Max, Max
<1> QED
  BY <1>1, <1>2, <1>3, <1>4

LEMMA PrunedIsSuffix ==
    ASSUME NEW s \in Seq(Mark), NEW t \in Int, Len(s) > 0, s[Len(s)].ts >= t
    PROVE  \E k \in 1..Len(s) :
              /\ Pruned(s, t) = SubSeq(s, k, Len(s))
              /\ s[k].ts >= t
              /\ \A i \in 1..Len(s) : s[i].ts >= t => k <= i
<1> DEFINE recent == {i \in DOMAIN s : s[i].ts >= t}
<1>1. recent \subseteq Nat /\ Len(s) \in recent
  OBVIOUS
<1>2. Min(recent) \in recent /\ \A y \in recent : Min(recent) <= y
  BY <1>1, MinIsLeast
<1>3. Pruned(s, t) = SubSeq(s, Min(recent), Len(s))
  BY <1>1 DEF Pruned
<1> DEFINE k == Min(recent)
<1>4. k \in 1..Len(s) /\ s[k].ts >= t
  BY <1>2
<1>5. \A i \in 1..Len(s) : s[i].ts >= t => k <= i
  BY <1>2
<1> HIDE DEF recent, k
<1> QED
  BY <1>3, <1>4, <1>5 DEF k

LEMMA RecordedKept ==
    ASSUME NEW s, NEW h, NEW n \in Int, Kept(s, h, n), NEW c \in Coins, NEW d \in Directions,
           NEW ts \in (n - Skew)..n
    PROVE  Kept(Recorded(s, c, d, ts), InWindow(h, c, d, ts), n)
<1> USE BreadthAssumption
<1> DEFINE e == [coin |-> c, direction |-> d, ts |-> ts]
           a == Append(s, e)
           r == Recorded(s, c, d, ts)
           all == h \cup {e}
           w == InWindow(h, c, d, ts)
<1>0. ts \in Int /\ e \in Mark /\ e.ts = ts /\ ts <= n /\ ts >= n - Skew
  BY DEF Mark
<1>1. s \in Seq(Mark) /\ h \subseteq ToSet(s)
  BY DEF Kept
<1>2. /\ a \in Seq(Mark) /\ Len(a) = Len(s) + 1 /\ a[Len(a)] = e
      /\ \A i \in 1..Len(s) : a[i] = s[i]
  BY <1>0, <1>1
<1>3. \A i \in 1..Len(a) : a[i].ts <= n /\ a[i] \in Mark /\ a[i].ts \in Int
  <2> SUFFICES ASSUME NEW i \in 1..Len(a) PROVE a[i].ts <= n /\ a[i] \in Mark /\ a[i].ts \in Int
    OBVIOUS
  <2>1. CASE i = Len(a)
    BY <1>0, <1>2, <2>1
  <2>2. CASE i # Len(a)
    <3>1. i \in 1..Len(s) /\ a[i] = s[i]
      BY <1>1, <1>2, <2>2
    <3>2. s[i] \in Mark /\ s[i].ts <= n
      BY <1>1, <3>1 DEF Kept
    <3>3. s[i].ts \in Int
      BY <3>2 DEF Mark
    <3> QED
      BY <3>1, <3>2, <3>3
  <2> QED
    BY <2>1, <2>2
<1>4. \A i, j \in 1..Len(a) : i < j => a[j].ts >= a[i].ts - Skew
  <2> SUFFICES ASSUME NEW i \in 1..Len(a), NEW j \in 1..Len(a), i < j
               PROVE  a[j].ts >= a[i].ts - Skew
    OBVIOUS
  <2>1. CASE j = Len(a)
    <3>1. a[j].ts = ts /\ a[i].ts <= n /\ a[i].ts \in Int
      BY <1>0, <1>2, <1>3, <2>1
    <3> QED
      BY <1>0, <3>1
  <2>2. CASE j # Len(a)
    <3>1. i \in 1..Len(s) /\ j \in 1..Len(s)
      BY <1>1, <1>2, <2>2
    <3> QED
      BY <1>2, <3>1 DEF Kept
  <2> QED
    BY <2>1, <2>2
<1>5. r = Pruned(a, ts - Window)
  BY DEF Recorded
<1>6. PICK k \in 1..Len(a) :
          /\ r = SubSeq(a, k, Len(a))
          /\ a[k].ts >= ts - Window
          /\ \A i \in 1..Len(a) : a[i].ts >= ts - Window => k <= i
  <2>1. ts - Window \in Int /\ Len(a) > 0 /\ a[Len(a)].ts >= ts - Window
    BY <1>0, <1>1, <1>2
  <2> HIDE DEF a, r
  <2> QED
    BY <1>2, <1>5, <2>1, PrunedIsSuffix
<1> HIDE DEF a, r
<1>7. /\ r \in Seq(Mark) /\ Len(r) = Len(a) - k + 1
      /\ \A i \in 1..Len(r) : r[i] = a[i + k - 1] /\ i + k - 1 \in 1..Len(a)
  <2> DEFINE top == Len(a)
  <2>1. top \in Int /\ k \in Int /\ 1 <= k /\ k <= top
    BY <1>2
  <2>2. \A i \in k..top : a[i] \in Mark
    <3>1. \A i \in k..top : i \in 1..Len(a)
      BY <2>1
    <3> QED
      BY <1>3, <3>1
  <2>3. r = SubSeq(a, k, top)
    BY <1>6
  <2> HIDE DEF top
  <2>4. /\ r \in Seq(Mark) /\ Len(r) = IF k <= top THEN top - k + 1 ELSE 0
        /\ \A i \in 1..(top - k + 1) : r[i] = a[k + i - 1]
    BY <2>1, <2>2, <2>3, SubSeqProperties
  <2>5. Len(r) = top - k + 1
    BY <2>1, <2>4
  <2>6. \A i \in 1..Len(r) : i + k - 1 = k + i - 1 /\ i + k - 1 \in 1..top
    BY <2>1, <2>5
  <2> QED
    BY <2>4, <2>5, <2>6 DEF top
<1>8. \A i \in 1..Len(r) : r[i].ts <= n
  BY <1>3, <1>7
<1>9. \A i, j \in 1..Len(r) : i < j => r[j].ts >= r[i].ts - Skew
  <2> SUFFICES ASSUME NEW i \in 1..Len(r), NEW j \in 1..Len(r), i < j
               PROVE  r[j].ts >= r[i].ts - Skew
    OBVIOUS
  <2>1. i + k - 1 \in 1..Len(a) /\ j + k - 1 \in 1..Len(a) /\ i + k - 1 < j + k - 1
    BY <1>7
  <2>2. a[j + k - 1].ts >= a[i + k - 1].ts - Skew
    BY <1>4, <2>1
  <2> QED
    BY <1>7, <2>2
<1>10. \A i \in 1..Len(r) : r[i].ts >= r[Len(r)].ts - Window - Skew
  <2> TAKE i \in 1..Len(r)
  <2>1. Len(r) \in 1..Len(r) /\ r[Len(r)] = a[Len(a)] /\ r[Len(r)].ts = ts
    BY <1>0, <1>2, <1>7, SMTT(30)
  <2>2. r[1] = a[k] /\ 1 \in 1..Len(r) /\ r[1].ts >= ts - Window
    <3>1. k \in Int /\ Len(a) \in Int /\ k <= Len(a)
      BY <1>2
    <3>2. 1 \in 1..Len(r) /\ 1 + k - 1 = k
      BY <1>7, <3>1
    <3>3. r[1] = a[k]
      BY <1>7, <3>2
    <3> QED
      BY <1>6, <3>2, <3>3
  <2>3. r[i].ts \in Int /\ r[1].ts \in Int
    BY <1>3, <1>7, <2>2
  <2>4. r[i].ts >= r[1].ts - Skew
    <3>1. CASE i = 1
      BY <1>0, <2>3, <3>1
    <3>2. CASE i # 1
      <4>1. 1 < i
        BY <1>0, <1>7, <3>2
      <4> QED
        BY <1>9, <2>2, <4>1
    <3> QED
      BY <3>1, <3>2
  <2> DEFINE x == r[i].ts
             y == r[1].ts
  <2>5. x \in Int /\ y \in Int /\ x >= y - Skew /\ y >= ts - Window /\ ts \in Int
    BY <1>0, <2>2, <2>3, <2>4
  <2>6. x >= ts - Window - Skew
    <3> HIDE DEF x, y
    <3> QED
      BY <2>5
  <2> QED
    BY <2>1, <2>6
<1>11. w \subseteq ToSet(r)
  <2> DEFINE latest == Max({m.ts : m \in all})
  <2>1. \A m \in all : \E i \in 1..Len(a) : m = a[i]
    <3> SUFFICES ASSUME NEW m \in all PROVE \E i \in 1..Len(a) : m = a[i]
      OBVIOUS
    <3>1. CASE m = e
      BY <1>1, <1>2, <3>1
    <3>2. CASE m \in h
      <4>1. PICK i \in 1..Len(s) : m = s[i]
        BY <1>1, <3>2 DEF ToSet
      <4> QED
        BY <1>1, <1>2, <4>1
    <3> QED
      BY <3>1, <3>2
  <2>2. \A m \in all : m.ts \in Int /\ m.ts <= n
    BY <1>3, <2>1
  <2>3. latest \in Int /\ latest >= ts
    <3> DEFINE T == {m.ts : m \in all}
    <3>1. T \subseteq Int /\ ts \in T /\ \A x \in T : x <= n
      BY <1>0, <2>2
    <3> HIDE DEF T, all
    <3>2. Max(T) \in T /\ \A y \in T : Max(T) >= y
      BY <3>1, MaxIsGreatest
    <3> QED
      BY <3>1, <3>2 DEF T
  <2>4. w = {m \in all : m.ts >= latest - Window}
    BY DEF InWindow
  <2> HIDE DEF w, latest, all
  <2> SUFFICES ASSUME NEW m \in w PROVE m \in ToSet(r)
    OBVIOUS
  <2>5. m \in all /\ m.ts >= ts - Window /\ m.ts \in Int
    BY <1>0, <2>2, <2>3, <2>4
  <2>6. PICK i \in 1..Len(a) : m = a[i]
    BY <2>1, <2>5
  <2>7. k <= i
    BY <1>6, <2>5, <2>6
  <2> DEFINE x == i - k + 1
  <2>8. x \in 1..Len(r) /\ x + k - 1 = i
    BY <1>2, <1>7, <2>7
  <2>9. r[x] = m
    BY <1>7, <2>6, <2>8
  <2> HIDE DEF x
  <2> QED
    BY <1>7, <2>8, <2>9 DEF ToSet
<1> HIDE DEF w
<1>12. Kept(r, w, n)
  BY <1>7, <1>8, <1>9, <1>10, <1>11 DEF Kept
<1> QED
  BY <1>12 DEF r, w

\* What a step of either strategy does to the breadth.
Moved(c, ts) ==
    \/ \E d \in Directions : /\ marks' = Recorded(marks, c, d, ts)
                             /\ moves' = InWindow(moves, c, d, ts)
    \/ UNCHANGED <<marks, moves>>

LEMMA MovedKept ==
    ASSUME now \in Nat, Kept(marks, moves, now), NEW c \in Coins, NEW ts \in (now - Skew)..now,
           Moved(c, ts), now' = now
    PROVE  Kept(marks', moves', now')
<1>1. CASE UNCHANGED <<marks, moves>>
  BY <1>1
<1>2. CASE \E d \in Directions : /\ marks' = Recorded(marks, c, d, ts)
                                /\ moves' = InWindow(moves, c, d, ts)
  <2>1. PICK d \in Directions : /\ marks' = Recorded(marks, c, d, ts)
                              /\ moves' = InWindow(moves, c, d, ts)
    BY <1>2
  <2>2. now \in Int
    OBVIOUS
  <2>3. Kept(Recorded(marks, c, d, ts), InWindow(moves, c, d, ts), now)
    BY <2>2, RecordedKept
  <2> QED
    BY <2>1, <2>3
<1> QED
  BY <1>1, <1>2 DEF Moved

------------------------------------------------------------------------------
(* The momentum strategy. *)

Candidate == [side : M!Sides, baseline : Int]
CoinState == [oi : Int, prev : Int, pending : Candidate]

\* What a coin knows of the reports there were, the last of them in h: a
\* breakout that waits was measured against the last but one.
Informed(st, h) ==
    /\ st.oi = IF Len(h) > 0 THEN h[Len(h)] ELSE M!NoReport
    /\ st.prev = IF Len(h) > 1 THEN h[Len(h) - 1] ELSE M!NoReport
    /\ st.pending # M!None => st.pending.baseline = st.prev /\ st.prev > 0

MomentumInv ==
    /\ coins \in [Coins -> CoinState]
    /\ reports \in [Coins -> Seq(Nat)]
    /\ \A c \in Coins : Informed(coins[c], reports[c])
    /\ SignalBacked

WithPending(st, p) == [st EXCEPT !.pending = p]

LeftPending(c, st, p) == coins' = [coins EXCEPT ![c] = WithPending(st, p)]

Settles(c, st, cand, waited) ==
    \E p : LeftPending(c, st, p) /\ (p # M!None => ~waited /\ p \in {st.pending, cand})

\* The step signals the candidate of a coin.
Backed(c, st, cand) ==
    /\ cand # M!None
    /\ M!Grown(st.oi, cand.baseline)
    /\ M!Allowed(cand.side, regime'.is)
    /\ signal' = [side |-> cand.side, regime |-> regime'.is, reports |-> reports'[c]]

LEMMA NoneCandidate == M!None \in Candidate
BY DEF M!None, Candidate, M!Sides, M!NoReport

LEMMA JudgedStep ==
    ASSUME NEW c \in Coins, NEW st \in CoinState, NEW cand, NEW waited \in BOOLEAN, NEW ts,
           M!Judged(c, st, cand, waited, ts)
    PROVE  /\ Moved(c, ts)
           /\ Settles(c, st, cand, waited)
           /\ \/ signal' = M!None
              \/ Backed(c, st, cand)
<1> DEFINE known   == cand # M!None /\ M!Allowed(cand.side, regime'.is)
           grown   == known /\ M!Grown(st.oi, cand.baseline)
           settled == coins' = [coins EXCEPT ![c] = [st EXCEPT !.pending = IF waited THEN M!None ELSE @]]
<1>1. M!Direction(cand.side) \in Directions
  BY DEF M!Direction, Directions
<1>2. M!BreadthRecord(c, cand.side, ts) => Moved(c, ts)
  <2> SUFFICES ASSUME M!BreadthRecord(c, cand.side, ts) PROVE Moved(c, ts)
    OBVIOUS
  <2> DEFINE d == M!Direction(cand.side)
  <2>1. /\ marks' = M!Recorded(marks, c, d, ts)
        /\ moves' = M!InWindow(moves, c, d, ts)
    BY DEF M!BreadthRecord
  <2> HIDE DEF d
  <2>2. /\ marks' = Recorded(marks, c, d, ts)
        /\ moves' = InWindow(moves, c, d, ts)
    BY <2>1, SameBreadth
  <2> QED
    BY <1>1, <2>2 DEF Moved, d
<1>3. settled => Settles(c, st, cand, waited)
  <2> DEFINE p == IF waited THEN M!None ELSE st.pending
  <2>1. p # M!None => ~waited /\ p \in {st.pending, cand}
    OBVIOUS
  <2>2. [st EXCEPT !.pending = IF waited THEN M!None ELSE @] = [st EXCEPT !.pending = p]
    OBVIOUS
  <2> HIDE DEF p
  <2> QED
    BY <2>1, <2>2 DEF WithPending, LeftPending, Settles
<1>4. CASE /\ grown
           /\ settled
           /\ M!BreadthRecord(c, cand.side, ts)
           /\ IF M!BreadthBlocks(c, cand.side) THEN M!Silent ELSE M!Publish(c, cand.side)
  BY <1>2, <1>3, <1>4 DEF M!Silent, M!Publish, Backed
<1>5. CASE known /\ ~grown /\ ~waited /\ M!Arm(c, st, cand, ts)
  <2> QED
    BY <1>2, <1>5 DEF M!Arm, M!Silent, WithPending, LeftPending, Settles
<1>6. CASE /\ ~known \/ (~grown /\ waited)
           /\ settled
           /\ UNCHANGED <<marks, moves>>
           /\ M!Silent
  BY <1>3, <1>6 DEF M!Silent, Moved
<1> QED
  BY <1>4, <1>5, <1>6 DEF M!Judged

LEMMA LastThreeKeeps ==
    ASSUME NEW h \in Seq(Nat), NEW interest \in Nat
    PROVE  LET q == M!LastThree(Append(h, interest)) IN
           /\ q \in Seq(Nat) /\ Len(q) > 0 /\ q[Len(q)] = interest
           /\ Len(q) > 1 <=> Len(h) > 0
           /\ Len(h) > 0 => q[Len(q) - 1] = h[Len(h)]
           /\ Len(h) > 1 => Len(q) > 2 /\ q[Len(q) - 2] = h[Len(h) - 1]
<1> DEFINE a == Append(h, interest)
           k == IF Len(a) > 3 THEN Len(a) - 2 ELSE 1
           q == SubSeq(a, k, Len(a))
<1>1. /\ a \in Seq(Nat) /\ Len(a) = Len(h) + 1 /\ a[Len(a)] = interest
      /\ \A i \in 1..Len(h) : a[i] = h[i]
  OBVIOUS
<1> HIDE DEF a
<1>2. /\ k \in 1..Len(a) /\ Len(a) - k = IF Len(h) > 1 THEN 2 ELSE Len(h)
      /\ q \in Seq(Nat) /\ Len(q) = Len(a) - k + 1
      /\ \A i \in 1..Len(q) : q[i] = a[i + k - 1]
  <2>0. Len(h) \in Nat /\ Len(a) = Len(h) + 1
    BY <1>1
  <2>1. k \in 1..Len(a) /\ Len(a) - k = IF Len(h) > 1 THEN 2 ELSE Len(h)
    <3> DEFINE n == Len(h)
    <3>0. k = IF n > 2 THEN n - 1 ELSE 1
      BY <2>0
    <3>1. n \in Nat /\ Len(a) = n + 1
      BY <2>0
    <3> HIDE DEF k, n, a
    <3>2. CASE n \in {0, 1, 2}
      <4>1. k = 1
        BY <3>0, <3>2
      <4>2. k \in 1..Len(a) /\ Len(a) - k = n
        BY <3>1, <3>2, <4>1
      <4>3. n = IF n > 1 THEN 2 ELSE n
        BY <3>2
      <4> QED
        BY <4>2, <4>3 DEF n
    <3>3. CASE n > 2
      <4>1. k = n - 1
        BY <3>0, <3>3
      <4> QED
        BY <3>1, <3>3, <4>1 DEF n
    <3> QED
      BY <3>1, <3>2, <3>3
  <2> HIDE DEF k
  <2> QED
    BY <1>1, <2>1
<1>3. q = M!LastThree(Append(h, interest))
  BY DEF M!LastThree, a
<1> HIDE DEF q, k
<1>4. /\ Len(h) \in Nat /\ k \in Int /\ Len(q) \in Nat /\ Len(a) \in Nat
      /\ Len(q) = 1 + IF Len(h) > 1 THEN 2 ELSE Len(h)
      /\ Len(q) + k - 1 = Len(a)
  <2>1. Len(h) \in Nat /\ Len(a) \in Nat /\ Len(q) \in Nat
    BY <1>1, <1>2, LenProperties
  <2>2. k \in Int /\ Len(q) = Len(a) - k + 1 /\ Len(a) - k = IF Len(h) > 1 THEN 2 ELSE Len(h)
    BY <1>2, <2>1
  <2> QED
    BY <2>1, <2>2
<1>5. Len(q) > 0 /\ q[Len(q)] = interest
  <2>1. Len(q) \in 1..Len(q) /\ Len(q) > 0
    BY <1>4
  <2>2. q[Len(q)] = a[Len(q) + k - 1]
    BY <1>2, <2>1
  <2>3. q[Len(q)] = a[Len(a)]
    BY <1>4, <2>2
  <2> QED
    BY <1>1, <2>1, <2>3
<1>6. Len(q) > 1 <=> Len(h) > 0
  BY <1>4
<1>7. Len(h) > 0 => q[Len(q) - 1] = h[Len(h)]
  <2> HAVE Len(h) > 0
  <2>1. Len(q) - 1 \in 1..Len(q) /\ (Len(q) - 1) + k - 1 = Len(h) /\ Len(h) \in 1..Len(h)
    BY <1>1, <1>4
  <2>2. q[Len(q) - 1] = a[(Len(q) - 1) + k - 1]
    BY <1>2, <2>1
  <2> QED
    BY <1>1, <2>1, <2>2
<1>8. Len(h) > 1 => Len(q) > 2 /\ q[Len(q) - 2] = h[Len(h) - 1]
  <2> HAVE Len(h) > 1
  <2>1. Len(q) - 2 \in 1..Len(q) /\ (Len(q) - 2) + k - 1 = Len(h) - 1 /\ Len(h) - 1 \in 1..Len(h)
    BY <1>1, <1>4
  <2>2. q[Len(q) - 2] = a[(Len(q) - 2) + k - 1]
    BY <1>2, <2>1
  <2>3. q[Len(q) - 2] = h[Len(h) - 1]
    BY <1>1, <2>1, <2>2
  <2> QED
    BY <1>4, <2>1, <2>3
<1> QED
  BY <1>2, <1>3, <1>5, <1>6, <1>7, <1>8

\* A report becomes the last that the coin knows, and the last the one before.
LEMMA ReportedInformed ==
    ASSUME NEW st \in CoinState, NEW h \in Seq(Nat), Informed(st, h), NEW interest \in Nat
    PROVE  LET new == M!Reported(st, interest)
               q   == M!LastThree(Append(h, interest))
           IN  /\ new \in CoinState /\ new.pending = st.pending
               /\ new.oi = q[Len(q)]
               /\ new.prev = IF Len(q) > 1 THEN q[Len(q) - 1] ELSE M!NoReport
               /\ q \in Seq(Nat) /\ Len(q) > 0
               /\ st.pending # M!None => Len(q) > 2 /\ st.pending.baseline = q[Len(q) - 2]
<1> DEFINE new == M!Reported(st, interest)
           q   == M!LastThree(Append(h, interest))
<1>1. /\ q \in Seq(Nat) /\ Len(q) > 0 /\ q[Len(q)] = interest
      /\ Len(q) > 1 <=> Len(h) > 0
      /\ Len(h) > 0 => q[Len(q) - 1] = h[Len(h)]
      /\ Len(h) > 1 => Len(q) > 2 /\ q[Len(q) - 2] = h[Len(h) - 1]
  BY LastThreeKeeps
<1>2. /\ new \in CoinState /\ new.pending = st.pending /\ new.oi = interest
      /\ new.prev = IF st.oi = M!NoReport THEN st.prev ELSE st.oi
  <2> DEFINE p == IF st.oi = M!NoReport THEN st.prev ELSE st.oi
  <2>1. new = [st EXCEPT !.prev = p, !.oi = interest]
    BY DEF M!Reported
  <2>2. p \in Int
    BY DEF CoinState
  <2> HIDE DEF p, new
  <2> DEFINE mid == [st EXCEPT !.prev = p]
  <2>3. mid \in CoinState /\ mid.pending = st.pending /\ mid.prev = p
    BY <2>2 DEF CoinState
  <2>4. new = [mid EXCEPT !.oi = interest]
    BY <2>1
  <2> HIDE DEF mid
  <2>5. new \in CoinState /\ new.pending = mid.pending /\ new.oi = interest /\ new.prev = mid.prev
    BY <2>3, <2>4 DEF CoinState
  <2> QED
    BY <2>3, <2>5 DEF p
<1> HIDE DEF new, q
<1>3. Len(h) > 0 => h[Len(h)] \in Nat
  OBVIOUS
<1>4. new.prev = IF Len(q) > 1 THEN q[Len(q) - 1] ELSE M!NoReport
  <2>1. CASE Len(h) > 0
    BY <1>1, <1>2, <1>3, <2>1 DEF Informed, M!NoReport
  <2>2. CASE ~(Len(h) > 0)
    BY <1>1, <1>2, <2>2 DEF Informed
  <2> QED
    BY <2>1, <2>2
<1>5. st.pending # M!None => Len(q) > 2 /\ st.pending.baseline = q[Len(q) - 2]
  <2> HAVE st.pending # M!None
  <2>1. st.pending.baseline = st.prev /\ st.prev > 0
    BY DEF Informed
  <2>2. Len(h) > 1 /\ st.prev = h[Len(h) - 1]
    BY <2>1 DEF Informed, M!NoReport
  <2> QED
    BY <1>1, <2>1, <2>2
<1> QED
  BY <1>1, <1>2, <1>4, <1>5 DEF new, q

\* What is made of a candidate keeps what its coin knows, and a signal of it is
\* backed by the reports, of which one of the two before the last is its baseline.
LEMMA JudgedInformed ==
    ASSUME MomentumInv, NEW c \in Coins, NEW st \in CoinState, NEW cand \in Candidate, NEW waited \in BOOLEAN,
           NEW p, LeftPending(c, st, p), p # M!None => ~waited /\ p \in {st.pending, cand},
           signal' = M!None \/ Backed(c, st, cand),
           NEW h \in Seq(Nat), reports' = [reports EXCEPT ![c] = h],
           st.oi = IF Len(h) > 0 THEN h[Len(h)] ELSE M!NoReport,
           st.prev = IF Len(h) > 1 THEN h[Len(h) - 1] ELSE M!NoReport,
           waited \/ (st.pending # M!None => st.pending.baseline = st.prev /\ st.prev > 0),
           waited \/ (cand # M!None => cand.baseline = st.prev /\ st.prev > 0),
           cand # M!None => \E k \in 1..(Len(h) - 1) : cand.baseline = h[Len(h) - k]
    PROVE  MomentumInv'
<1>2. p \in Candidate
  BY NoneCandidate DEF CoinState
<1>3. /\ WithPending(st, p) \in CoinState
      /\ WithPending(st, p).oi = st.oi
      /\ WithPending(st, p).prev = st.prev
      /\ WithPending(st, p).pending = p
  BY <1>2 DEF CoinState, WithPending
<1>4. p # M!None => p.baseline = st.prev /\ st.prev > 0
  OBVIOUS
<1>5. coins' \in [Coins -> CoinState] /\ reports' \in [Coins -> Seq(Nat)]
  BY <1>3 DEF MomentumInv, LeftPending
<1>6. reports'[c] = h
  BY DEF MomentumInv
<1>7. ASSUME NEW x \in Coins PROVE Informed(coins'[x], reports'[x])
  <2>1. CASE x = c
    <3>1. coins'[c] = WithPending(st, p)
      BY DEF MomentumInv, LeftPending
    <3>2. Informed(coins'[c], h)
      BY <1>3, <1>4, <3>1 DEF Informed
    <3> QED
      BY <1>6, <2>1, <3>2
  <2>2. CASE x # c
    BY <2>2 DEF MomentumInv, LeftPending
  <2> QED
    BY <2>1, <2>2
<1>8. SignalBacked'
  <2>1. CASE signal' = M!None
    BY <2>1 DEF SignalBacked, M!SignalBacked
  <2>2. CASE Backed(c, st, cand)
    <3>1. PICK k \in 1..(Len(h) - 1) : cand.baseline = h[Len(h) - k]
      BY <2>2 DEF Backed
    <3>2. st.oi = h[Len(h)]
      BY <3>1
    <3>3. signal'.reports = h /\ signal'.side = cand.side /\ signal'.regime = regime'.is
      BY <1>6, <2>2 DEF Backed
    <3>4. M!Grown(h[Len(h)], h[Len(h) - k])
      BY <2>2, <3>1, <3>2 DEF Backed
    <3> QED
      BY <2>2, <3>1, <3>3, <3>4 DEF Backed, SignalBacked, M!SignalBacked
  <2> QED
    BY <2>1, <2>2
<1> QED
  BY <1>5, <1>7, <1>8 DEF MomentumInv

LEMMA BreakoutCandidate ==
    ASSUME NEW st \in CoinState, NEW side \in M!Sides
    PROVE  /\ M!Breakout(st, side) \in Candidate
           /\ M!Breakout(st, side) # M!None => M!Breakout(st, side).baseline = st.prev /\ st.prev > 0
<1>1. st.prev \in Int
  BY DEF CoinState
<1> QED
  BY <1>1, NoneCandidate DEF M!Breakout, Candidate

LEMMA CtxInv ==
    ASSUME MomentumInv, NEW c \in Coins, NEW interest \in Nat, NEW side \in M!Sides, M!Ctx(c, interest, side)
    PROVE  MomentumInv' /\ Moved(c, now)
<1> DEFINE st == M!Reported(coins[c], interest)
           h  == M!LastThree(Append(reports[c], interest))
           waited == st.pending # M!None
           cand == IF waited THEN st.pending ELSE M!Breakout(st, side)
<1>1. /\ coins[c] \in CoinState /\ reports[c] \in Seq(Nat) /\ Informed(coins[c], reports[c])
  BY DEF MomentumInv
<1>2. /\ st \in CoinState /\ st.pending = coins[c].pending
      /\ st.oi = h[Len(h)]
      /\ st.prev = IF Len(h) > 1 THEN h[Len(h) - 1] ELSE M!NoReport
      /\ h \in Seq(Nat) /\ Len(h) > 0
      /\ coins[c].pending # M!None => Len(h) > 2 /\ coins[c].pending.baseline = h[Len(h) - 2]
  BY <1>1, ReportedInformed
<1>3. reports' = [reports EXCEPT ![c] = h] /\ M!Judged(c, st, cand, waited, now)
  BY DEF M!Ctx
<1> HIDE DEF st, h
<1>4. /\ M!Breakout(st, side) \in Candidate
      /\ M!Breakout(st, side) # M!None => M!Breakout(st, side).baseline = st.prev /\ st.prev > 0
  BY <1>2, BreakoutCandidate
<1>5. cand \in Candidate
  BY <1>2, <1>4 DEF CoinState
<1>6. waited \/ (cand # M!None => cand.baseline = st.prev /\ st.prev > 0)
  BY <1>4
<1>7. cand # M!None => \E k \in 1..(Len(h) - 1) : cand.baseline = h[Len(h) - k]
  <2> HAVE cand # M!None
  <2>1. CASE waited
    <3>1. Len(h) > 2 /\ cand.baseline = h[Len(h) - 2]
      BY <1>2, <2>1
    <3>2. 2 \in 1..(Len(h) - 1)
      BY <1>2, <3>1
    <3> QED
      BY <3>1, <3>2
  <2>2. CASE ~waited
    <3>1. cand.baseline = st.prev /\ st.prev > 0
      BY <1>6, <2>2
    <3>2. Len(h) > 1 /\ st.prev = h[Len(h) - 1]
      BY <1>2, <3>1 DEF M!NoReport
    <3>3. 1 \in 1..(Len(h) - 1)
      BY <1>2, <3>2
    <3> QED
      BY <3>1, <3>2, <3>3
  <2> QED
    BY <2>1, <2>2
<1>8. waited \in BOOLEAN /\ (waited \/ st.pending = M!None)
  OBVIOUS
<1>9. st.oi = IF Len(h) > 0 THEN h[Len(h)] ELSE M!NoReport
  BY <1>2
<1> HIDE DEF cand, waited
<1>10. PICK p : LeftPending(c, st, p) /\ (p # M!None => ~waited /\ p \in {st.pending, cand})
  <2>1. Settles(c, st, cand, waited)
    BY <1>2, <1>3, <1>8, JudgedStep
  <2> QED
    BY <2>1 DEF Settles
<1>11. Moved(c, now) /\ (signal' = M!None \/ Backed(c, st, cand))
  BY <1>2, <1>3, <1>8, JudgedStep
<1>12. MomentumInv'
  BY <1>2, <1>3, <1>5, <1>6, <1>7, <1>8, <1>9, <1>10, <1>11, JudgedInformed
<1> QED
  BY <1>11, <1>12

LEMMA TradeInv ==
    ASSUME MomentumInv, NEW c \in Coins, NEW side \in M!Sides, NEW ts, M!Trade(c, side, ts)
    PROVE  MomentumInv' /\ Moved(c, ts)
<1> DEFINE st == coins[c]
           h  == reports[c]
           cand == M!Breakout(st, side)
<1>1. st \in CoinState /\ h \in Seq(Nat) /\ Informed(st, h)
  BY DEF MomentumInv
<1>2. reports' = [reports EXCEPT ![c] = h]
  BY DEF M!Trade, MomentumInv
<1>3. M!Judged(c, st, cand, FALSE, ts)
  BY DEF M!Trade
<1> HIDE DEF st, h
<1>4. cand \in Candidate /\ (cand # M!None => cand.baseline = st.prev /\ st.prev > 0)
  BY <1>1, BreakoutCandidate
<1> HIDE DEF cand
<1>5. cand # M!None => \E k \in 1..(Len(h) - 1) : cand.baseline = h[Len(h) - k]
  <2> HAVE cand # M!None
  <2>1. cand.baseline = st.prev /\ st.prev > 0
    BY <1>4
  <2>2. Len(h) > 1 /\ st.prev = h[Len(h) - 1]
    BY <1>1, <2>1 DEF Informed, M!NoReport
  <2>3. 1 \in 1..(Len(h) - 1)
    BY <1>1, <2>2
  <2> QED
    BY <2>1, <2>2, <2>3
<1>6. PICK p : LeftPending(c, st, p) /\ (p # M!None => ~FALSE /\ p \in {st.pending, cand})
  <2>1. Settles(c, st, cand, FALSE)
    BY <1>1, <1>3, JudgedStep
  <2> QED
    BY <2>1 DEF Settles
<1>7. Moved(c, ts) /\ (signal' = M!None \/ Backed(c, st, cand))
  BY <1>1, <1>3, JudgedStep
<1>8. MomentumInv'
  BY <1>1, <1>2, <1>4, <1>5, <1>6, <1>7, JudgedInformed DEF Informed
<1> QED
  BY <1>7, <1>8

------------------------------------------------------------------------------
(* The cascade strategy. *)

LEMMA Division ==
    ASSUME NEW T \in Nat \ {0}, NEW x \in Nat
    PROVE  /\ x \div T \in Nat /\ x % T \in 0..(T - 1)
           /\ x < T => x \div T = 0 /\ x % T = x
           /\ (x + T) \div T = x \div T + 1
           /\ (x + T) % T = x % T
<1>1. x \div T \in Nat
  OBVIOUS
<1>2. x % T \in 0..(T - 1)
  OBVIOUS
<1>3. x < T => x \div T = 0
  OBVIOUS
<1>4. x < T => x % T = x
  OBVIOUS
<1>5. (x + T) \div T = x \div T + 1
  OBVIOUS
<1>6. (x + T) % T = x % T
  <2>1. \A y \in Nat : y = T * (y \div T) + (y % T)
    BY Z3
  <2> DEFINE q == x \div T
             u == (x + T) % T
             v == x % T
  <2>2. x + T = T * (q + 1) + u /\ x = T * q + v
    BY <2>1, <1>5
  <2>3. q \in Int /\ u \in Int /\ v \in Int
    OBVIOUS
  <2> HIDE DEF q, u, v
  <2>4. u = v
    BY <2>2, <2>3, Z3
  <2> QED
    BY <2>4 DEF u, v
<1> QED
  BY <1>1, <1>2, <1>3, <1>4, <1>5, <1>6

\* However a trade spreads over the bars, they are as many as its volume and
\* the one before it fill, and what is left is the rest.
LEMMA FillDivides ==
    ASSUME NEW acc \in 0..(Threshold - 1), NEW size \in Nat
    PROVE  D!Fill(acc, size) = [closed |-> (acc + size) \div Threshold, acc |-> (acc + size) % Threshold]
<1> USE StrategyAssumption
<1> DEFINE A == 0..(Threshold - 1)
           Filled(a, n) == [closed |-> (a + n) \div Threshold, acc |-> (a + n) % Threshold]
           Piece(f, n, a) ==
               LET fill == IF n < Threshold - a THEN n ELSE Threshold - a
                   next == f[n - fill]
               IN  IF n = 0 THEN [closed |-> 0, acc |-> a]
                   ELSE IF a + fill < Threshold THEN next[a + fill]
                   ELSE [closed |-> next[0].closed + 1, acc |-> next[0].acc]
           Body(f) == [n \in 0..size |-> [a \in A |-> Piece(f, n, a)]]
           result == [n \in 0..size |-> [a \in A |-> Filled(a, n)]]
           step == CHOOSE f : f = Body(f)
<1>1. ASSUME NEW f, NEW n \in 0..size, NEW a \in A,
             \A m \in 0..size : m < n => \A b \in A : f[m][b] = Filled(b, m)
      PROVE  Piece(f, n, a) = Filled(a, n)
  <2>0. n \in Nat /\ a \in Nat /\ a < Threshold /\ Threshold \in Nat \ {0} /\ a + n \in Nat
    OBVIOUS
  <2>1. CASE n = 0
    <3>1. a \div Threshold = 0 /\ a % Threshold = a
      BY <2>0, Division
    <3>2. a + n = a
      BY <2>0, <2>1
    <3>3. Filled(a, n) = [closed |-> 0, acc |-> a]
      BY <3>1, <3>2
    <3> QED
      BY <2>1, <3>3
  <2>2. CASE n # 0 /\ n < Threshold - a
    <3>1. 0 \in 0..size /\ 0 < n /\ n - n = 0 /\ a + n \in A /\ a + n < Threshold
      BY <2>0, <2>2
    <3>2. Piece(f, n, a) = f[0][a + n]
      BY <2>2, <3>1
    <3> HIDE DEF A, Piece
    <3>3. f[0][a + n] = Filled(a + n, 0)
      BY <1>1, <3>1
    <3>4. Filled(a + n, 0) = Filled(a, n)
      BY <2>0
    <3> QED
      BY <3>2, <3>3, <3>4
  <2>3. CASE n # 0 /\ ~(n < Threshold - a)
    <3> DEFINE m == n - (Threshold - a)
    <3>1. m \in 0..size /\ m < n /\ 0 \in A /\ m \in Nat /\ a + n = m + Threshold
          /\ a + (Threshold - a) = Threshold /\ 0 + m = m
      BY <2>0, <2>3
    <3>2. Piece(f, n, a) = [closed |-> f[m][0].closed + 1, acc |-> f[m][0].acc]
      BY <2>3, <3>1
    <3> HIDE DEF A, Piece, m
    <3>3. f[m][0] = Filled(0, m)
      BY <1>1, <3>1
    <3>4. f[m][0].closed = m \div Threshold /\ f[m][0].acc = m % Threshold
      BY <3>1, <3>3
    <3>5. (a + n) \div Threshold = m \div Threshold + 1 /\ (a + n) % Threshold = m % Threshold
      BY <2>0, <3>1, Division
    <3> QED
      BY <3>2, <3>4, <3>5
  <2> QED
    BY <2>1, <2>2, <2>3
<1>2. \A n \in 0..size : \A a \in A : result[n][a] = Filled(a, n)
  OBVIOUS
<1>3. result = Body(result)
  <2> HIDE DEF Filled, Piece
  <2>1. \A n \in 0..size : \A a \in A : Piece(result, n, a) = Filled(a, n)
    <3> HIDE DEF result, A
    <3> QED
      BY <1>1, <1>2
  <2> QED
    BY <2>1
<1>4. step = Body(step)
  <2> HIDE DEF Body, result
  <2>1. \E f : f = Body(f)
    BY <1>3
  <2> QED
    BY <2>1
<1>5. \A n \in 0..size : \A a \in A : step[n][a] = Filled(a, n)
  <2> DEFINE Bad == {n \in 0..size : ~ \A a \in A : step[n][a] = Filled(a, n)}
  <2>1. \A n \in 0..size : \A a \in A : step[n][a] = Piece(step, n, a)
    <3> DEFINE g == Body(step)
    <3> HIDE DEF Piece, step
    <3>1. \A n \in 0..size : \A a \in A : g[n][a] = Piece(step, n, a)
      OBVIOUS
    <3>2. step = g
      BY <1>4
    <3> HIDE DEF g
    <3> QED
      BY <3>1, <3>2
  <2> HIDE DEF Filled, Piece, step, A
  <2>2. CASE Bad # {}
    <3>1. Bad \subseteq Nat
      OBVIOUS
    <3>2. PICK n \in Bad : \A y \in Bad : n <= y
      BY <2>2, <3>1, LeastNumber
    <3>3. n \in 0..size /\ ~ \A a \in A : step[n][a] = Filled(a, n)
      OBVIOUS
    <3>4. \A m \in 0..size : m < n => \A b \in A : step[m][b] = Filled(b, m)
      <4> TAKE m \in 0..size
      <4> HAVE m < n
      <4>1. m \notin Bad
        <5> HIDE DEF Bad
        <5> QED
          BY <3>2, <3>3
      <4> QED
        BY <4>1
    <3>5. \A a \in A : Piece(step, n, a) = Filled(a, n)
      BY <1>1, <3>3, <3>4
    <3> QED
      BY <2>1, <3>3, <3>5
  <2>3. CASE Bad = {}
    BY <2>3
  <2> QED
    BY <2>2, <2>3
<1>6. D!Fill(acc, size) = step[size][acc]
  BY DEF D!Fill
<1>7. size \in 0..size /\ acc \in A
  OBVIOUS
<1> HIDE DEF step
<1> QED
  BY <1>5, <1>6, <1>7

\* The loop over the bars of a trade: each continues from the one before it.
After(c, ts, start, n, verdicts) ==
    CHOOSE f : f = [i \in 0..n |-> IF i = 0 THEN start ELSE D!Closed(c, ts, f[i - 1], verdicts[i])]

BarByBar(c, ts, start, n, verdicts, f) ==
    f[0] = start /\ \A i \in 1..n : f[i] = D!Closed(c, ts, f[i - 1], verdicts[i])

LEMMA BarAfterBar ==
    ASSUME NEW c, NEW ts, NEW start, NEW n \in Nat, NEW verdicts
    PROVE  BarByBar(c, ts, start, n, verdicts, After(c, ts, start, n, verdicts))
<1> DEFINE BarOf(x, i) == D!Closed(c, ts, x, verdicts[i])
           Body(f, m) == [i \in 0..m |-> IF i = 0 THEN start ELSE BarOf(f[i - 1], i)]
           after == CHOOSE f : f = Body(f, n)
           Bad == {m \in 0..n : ~ \E f : f = Body(f, m)}
<1> HIDE DEF BarOf
<1>1. ASSUME NEW m \in Nat, m = 0 \/ \E f : f = Body(f, m - 1)
      PROVE  \E f : f = Body(f, m)
  <2>1. CASE m = 0
    <3> DEFINE g == [i \in 0..0 |-> start]
    <3>1. g = Body(g, 0)
      OBVIOUS
    <3> HIDE DEF g, Body
    <3> QED
      BY <2>1, <3>1
  <2>2. CASE m # 0
    <3>1. PICK f : f = Body(f, m - 1)
      BY <1>1, <2>2
    <3> DEFINE g == [i \in 0..m |-> IF i = m THEN BarOf(f[m - 1], m) ELSE f[i]]
    <3>2. \A i \in 0..(m - 1) : f[i] = IF i = 0 THEN start ELSE BarOf(f[i - 1], i)
      <4> DEFINE h == Body(f, m - 1)
      <4>1. \A i \in 0..(m - 1) : h[i] = IF i = 0 THEN start ELSE BarOf(f[i - 1], i)
        OBVIOUS
      <4>2. f = h
        BY <3>1
      <4> HIDE DEF h, Body
      <4> QED
        BY <4>1, <4>2
    <3>3. \A i \in 0..m : g[i] = IF i = 0 THEN start ELSE BarOf(g[i - 1], i)
      <4> SUFFICES ASSUME NEW i \in 0..m PROVE g[i] = IF i = 0 THEN start ELSE BarOf(g[i - 1], i)
        OBVIOUS
      <4>1. CASE i = m
        <5>1. g[i - 1] = f[m - 1] /\ i # 0
          BY <2>2, <4>1
        <5>2. g[i] = BarOf(f[m - 1], m)
          BY <4>1
        <5> HIDE DEF g
        <5> QED
          BY <4>1, <5>1, <5>2
      <4>2. CASE i # m
        <5>1. i \in 0..(m - 1) /\ g[i] = f[i] /\ (i # 0 => g[i - 1] = f[i - 1])
          BY <2>2, <4>2
        <5> HIDE DEF g
        <5> QED
          BY <3>2, <5>1
      <4> QED
        BY <4>1, <4>2
    <3> DEFINE r == Body(g, m)
    <3>4. \A i \in 0..m : r[i] = IF i = 0 THEN start ELSE BarOf(g[i - 1], i)
      <4> HIDE DEF g
      <4> QED
        OBVIOUS
    <3>5. g = [i \in 0..m |-> g[i]] /\ r = [i \in 0..m |-> r[i]]
      OBVIOUS
    <3>6. g = r
      <4> HIDE DEF g, r, Body
      <4> QED
        BY <3>3, <3>4, <3>5
    <3> HIDE DEF g, Body
    <3> QED
      BY <3>6
  <2> QED
    BY <2>1, <2>2
<1> HIDE DEF Body
<1>2. Bad = {}
  <2> SUFFICES ASSUME Bad # {} PROVE FALSE
    OBVIOUS
  <2>0. Bad \subseteq Nat
    OBVIOUS
  <2>1. PICK m \in Bad : \A y \in Bad : m <= y
    <3> HIDE DEF Bad
    <3> QED
      BY <2>0, LeastNumber
  <2>2. m \in 0..n /\ ~ \E f : f = Body(f, m)
    OBVIOUS
  <2>3. m = 0 \/ (m - 1 \in 0..n /\ m - 1 \notin Bad)
    <3> HIDE DEF Bad
    <3> QED
      BY <2>1, <2>2
  <2>4. m = 0 \/ \E f : f = Body(f, m - 1)
    BY <2>3
  <2> QED
    BY <1>1, <2>2, <2>4
<1>3. after = Body(after, n)
  <2>1. \E f : f = Body(f, n)
    <3>1. n \in 0..n
      OBVIOUS
    <3> QED
      BY <1>2, <3>1
  <2> QED
    BY <2>1
<1> DEFINE r == Body(after, n)
<1>4. \A i \in 0..n : r[i] = IF i = 0 THEN start ELSE BarOf(after[i - 1], i)
  <2> HIDE DEF after
  <2> QED
    BY DEF Body
<1>5. after[0] = start /\ \A i \in 1..n : after[i] = BarOf(after[i - 1], i)
  <2> HIDE DEF after, r
  <2>1. after = r
    BY <1>3 DEF r
  <2>2. 0 \in 0..n /\ \A i \in 1..n : i \in 0..n /\ i # 0
    OBVIOUS
  <2> QED
    BY <1>4, <2>1, <2>2
<1>6. after = After(c, ts, start, n, verdicts)
  BY DEF Body, BarOf, After
<1> HIDE DEF after
<1> QED
  BY <1>5, <1>6 DEF BarOf, BarByBar

\* What the loop over the bars of a trade carries, and what holds of it.
Progress == [count : Nat, last : Nat, made : Nat, fired : Seq(Nat),
             marks : Seq(Mark), moves : SUBSET Mark, box : Int, raised : BOOLEAN]

Loop(count, last, made, fired, ms, held, queued, raised) ==
    [count |-> count, last |-> last, made |-> made, fired |-> fired,
     marks |-> ms, moves |-> held, box |-> queued, raised |-> raised]

\* Signals come past the warm-up and the cooldown apart; the bars made since
\* the last one are no fewer than those counted since.
Spaced(count, last, made, fired) ==
    /\ count \in Nat /\ last \in Nat /\ made \in Nat /\ fired \in Seq(Nat)
    /\ count <= made /\ last <= count
    /\ last = 0 => fired = <<>>
    /\ fired # <<>> => made - fired[Len(fired)] >= count - last
    /\ \A i \in 1..Len(fired) : fired[i] >= Warmup
    /\ \A i \in 1..(Len(fired) - 1) : fired[i + 1] - fired[i] >= Cooldown

LEMMA AppendSpaced ==
    ASSUME NEW f \in Seq(Nat), NEW bar \in Nat, bar >= Warmup,
           f # <<>> => bar - f[Len(f)] >= Cooldown,
           \A i \in 1..Len(f) : f[i] >= Warmup,
           \A i \in 1..(Len(f) - 1) : f[i + 1] - f[i] >= Cooldown
    PROVE  LET g == Append(f, bar) IN
           /\ g \in Seq(Nat) /\ g # <<>> /\ g[Len(g)] = bar
           /\ \A i \in 1..Len(g) : g[i] >= Warmup
           /\ \A i \in 1..(Len(g) - 1) : g[i + 1] - g[i] >= Cooldown
<1> DEFINE g == Append(f, bar)
<1>1. /\ g \in Seq(Nat) /\ Len(g) = Len(f) + 1 /\ g[Len(g)] = bar
      /\ \A i \in 1..Len(f) : g[i] = f[i]
  OBVIOUS
<1> HIDE DEF g
<1>2. ASSUME NEW i \in 1..Len(g) PROVE g[i] >= Warmup
  <2>1. CASE i = Len(g)
    BY <1>1, <2>1
  <2>2. CASE i # Len(g)
    <3>1. i \in 1..Len(f)
      BY <1>1, <2>2
    <3> QED
      BY <1>1, <3>1
  <2> QED
    BY <2>1, <2>2
<1>3. ASSUME NEW i \in 1..(Len(g) - 1) PROVE g[i + 1] - g[i] >= Cooldown
  <2>1. i \in 1..Len(f) /\ g[i] = f[i]
    BY <1>1
  <2>2. CASE i = Len(f)
    <3>1. f # <<>> /\ g[i + 1] = bar
      BY <1>1, <2>1, <2>2
    <3> QED
      BY <2>1, <2>2, <3>1
  <2>3. CASE i # Len(f)
    <3>1. i + 1 \in 1..Len(f) /\ i \in 1..(Len(f) - 1)
      BY <2>1, <2>3
    <3> QED
      BY <1>1, <2>1, <3>1
  <2> QED
    BY <2>2, <2>3
<1>4. g # <<>>
  BY <1>1
<1> QED
  BY <1>1, <1>2, <1>3, <1>4 DEF g

\* The updates of the loop, field by field.
Counts(s, x, y)        == [s EXCEPT !.count = x, !.made = y]
Sees(s, x, y)          == [s EXCEPT !.marks = x, !.moves = y]
Signals(s, x, y, z, r) == [s EXCEPT !.last = x, !.fired = y, !.box = z, !.raised = r]

LEMMA Unmade ==
    ASSUME NEW s, NEW count, NEW last, NEW made, NEW fired, NEW ms, NEW held, NEW queued, NEW raised,
           s = Loop(count, last, made, fired, ms, held, queued, raised), NEW x
    PROVE  [s EXCEPT !.made = x]
             = Loop(count, last, x, fired, ms, held, queued, raised)
<1> DEFINE a == [s EXCEPT !.made = x]
<1>1. a = Loop(count, last, x, fired, ms, held, queued, raised)
  BY DEF Loop
<1> HIDE DEF a
<1> QED
  BY <1>1 DEF a

LEMMA Counted ==
    ASSUME NEW s, NEW count, NEW last, NEW made, NEW fired, NEW ms, NEW held, NEW queued, NEW raised,
           s = Loop(count, last, made, fired, ms, held, queued, raised), NEW x, NEW y
    PROVE  Counts(s, x, y)
             = Loop(x, last, y, fired, ms, held, queued, raised)
<1> DEFINE a == [s EXCEPT !.count = x]
<1>1. a = Loop(x, last, made, fired, ms, held, queued, raised)
  BY DEF Loop
<1> HIDE DEF a
<1> DEFINE b == [a EXCEPT !.made = y]
<1>2. b = Loop(x, last, y, fired, ms, held, queued, raised)
  BY <1>1 DEF Loop
<1>3. b = Counts(s, x, y)
  BY DEF a, Counts
<1> HIDE DEF b
<1> QED
  BY <1>2, <1>3

LEMMA Seen ==
    ASSUME NEW s, NEW count, NEW last, NEW made, NEW fired, NEW ms, NEW held, NEW queued, NEW raised,
           s = Loop(count, last, made, fired, ms, held, queued, raised), NEW x, NEW y
    PROVE  Sees(s, x, y)
             = Loop(count, last, made, fired, x, y, queued, raised)
<1> DEFINE a == [s EXCEPT !.marks = x]
<1>1. a = Loop(count, last, made, fired, x, held, queued, raised)
  BY DEF Loop
<1> HIDE DEF a
<1> DEFINE b == [a EXCEPT !.moves = y]
<1>2. b = Loop(count, last, made, fired, x, y, queued, raised)
  BY <1>1 DEF Loop
<1>3. b = Sees(s, x, y)
  BY DEF a, Sees
<1> HIDE DEF b
<1> QED
  BY <1>2, <1>3

LEMMA Signalled ==
    ASSUME NEW s, NEW count, NEW last, NEW made, NEW fired, NEW ms, NEW held, NEW queued, NEW raised,
           s = Loop(count, last, made, fired, ms, held, queued, raised), NEW x, NEW y, NEW z, NEW r
    PROVE  Signals(s, x, y, z, r)
             = Loop(count, x, made, y, ms, held, z, r)
<1> DEFINE a == [s EXCEPT !.last = x]
<1>1. a = Loop(count, x, made, fired, ms, held, queued, raised)
  BY DEF Loop
<1> HIDE DEF a
<1> DEFINE b == [a EXCEPT !.fired = y]
<1>2. b = Loop(count, x, made, y, ms, held, queued, raised)
  BY <1>1 DEF Loop
<1> HIDE DEF b
<1> DEFINE c == [b EXCEPT !.box = z]
<1>3. c = Loop(count, x, made, y, ms, held, z, raised)
  BY <1>2 DEF Loop
<1> HIDE DEF c
<1> DEFINE d == [c EXCEPT !.raised = r]
<1>4. d = Loop(count, x, made, y, ms, held, z, r)
  BY <1>3 DEF Loop
<1>5. d = Signals(s, x, y, z, r)
  BY DEF a, b, c, Signals
<1> HIDE DEF d
<1> QED
  BY <1>4, <1>5

\* What holds of the loop over the bars of a trade, n being the host's time.
Looping(s, n) ==
    \E count, last, made, fired, ms, held, queued, raised :
        /\ s = Loop(count, last, made, fired, ms, held, queued, raised)
        /\ Spaced(count, last, made, fired)
        /\ Kept(ms, held, n)
        /\ raised \in BOOLEAN

LEMMA LoopFields ==
    ASSUME NEW count, NEW last, NEW made, NEW fired, NEW ms, NEW held, NEW queued, NEW raised
    PROVE  LET s == Loop(count, last, made, fired, ms, held, queued, raised) IN
           /\ s.count = count /\ s.last = last /\ s.made = made /\ s.fired = fired
           /\ s.marks = ms /\ s.moves = held /\ s.box = queued /\ s.raised = raised
BY DEF Loop

LEMMA SignalSpaced ==
    ASSUME NEW count, NEW last, NEW made, NEW fired, Spaced(count, last, made, fired),
           count + 1 >= Warmup, last = 0 \/ count + 1 - last >= Cooldown
    PROVE  Spaced(count + 1, count + 1, made + 1, Append(fired, made + 1))
<1> USE StrategyAssumption
<1>1. /\ count \in Nat /\ last \in Nat /\ made \in Nat /\ fired \in Seq(Nat)
      /\ count <= made /\ last <= count
  BY DEF Spaced
<1> DEFINE bar == made + 1
           f == Append(fired, bar)
<1>2. bar \in Nat /\ bar >= Warmup
  BY <1>1
<1>3. ASSUME fired # <<>> PROVE bar - fired[Len(fired)] >= Cooldown
  <2> DEFINE latest == fired[Len(fired)]
  <2>1. last # 0 /\ made - latest >= count - last
    BY <1>3 DEF Spaced
  <2>2. latest \in Nat
    BY <1>1, <1>3
  <2> HIDE DEF latest
  <2>3. bar - latest >= Cooldown
    BY <1>1, <2>1, <2>2
  <2> QED
    BY <2>3 DEF latest
<1>4. /\ \A i \in 1..Len(fired) : fired[i] >= Warmup
      /\ \A i \in 1..(Len(fired) - 1) : fired[i + 1] - fired[i] >= Cooldown
  BY DEF Spaced
<1> HIDE DEF bar
<1>5. /\ f \in Seq(Nat) /\ f # <<>> /\ f[Len(f)] = bar
      /\ \A i \in 1..Len(f) : f[i] >= Warmup
      /\ \A i \in 1..(Len(f) - 1) : f[i + 1] - f[i] >= Cooldown
  BY <1>1, <1>2, <1>3, <1>4, AppendSpaced
<1> HIDE DEF f
<1>6. Spaced(count + 1, count + 1, bar, f)
  BY <1>1, <1>2, <1>5 DEF Spaced, bar
<1> QED
  BY <1>6 DEF bar, f

\* A bar: the loop goes on as it was, one bar further, and unless the queue has
\* refused a signal the bar is counted.
LEMMA ClosedLoops ==
    ASSUME NEW n \in Int, NEW c \in Coins, NEW ts \in (n - Skew)..n, NEW s, Looping(s, n), NEW v \in D!Verdicts
    PROVE  LET t == D!Closed(c, ts, s, v) IN
           /\ Looping(t, n)
           /\ t.made = s.made + 1
           /\ ~t.raised => ~s.raised /\ t.count = s.count + 1
<1> USE StrategyAssumption
<1> DEFINE t == D!Closed(c, ts, s, v)
<1> SUFFICES Looping(t, n) /\ t.made = s.made + 1 /\ (~t.raised => ~s.raised /\ t.count = s.count + 1)
  OBVIOUS
<1>1. PICK count, last, made, fired, ms, held, queued, raised :
        /\ s = Loop(count, last, made, fired, ms, held, queued, raised)
        /\ Spaced(count, last, made, fired)
        /\ Kept(ms, held, n)
        /\ raised \in BOOLEAN
  BY DEF Looping
<1>2. /\ s.count = count /\ s.last = last /\ s.made = made /\ s.fired = fired
      /\ s.marks = ms /\ s.moves = held /\ s.box = queued /\ s.raised = raised
  BY <1>1, LoopFields
<1> DEFINE st == [s EXCEPT !.count = @ + 1, !.made = @ + 1]
           cascade == v.move # "none" /\ st.count >= Warmup /\ D!CooldownElapsed(st)
           seen == [st EXCEPT !.marks = D!Recorded(@, c, v.move, ts), !.moves = D!InWindow(@, c, v.move, ts)]
           sent == v.reverting /\ ~D!Synchronized(seen.marks, v.move, c)
           full == seen.box >= SignalCap
           f == Append(fired, made + 1)
           m == Recorded(ms, c, v.move, ts)
           w == InWindow(held, c, v.move, ts)
           old == [s EXCEPT !.made = @ + 1]
           sig == D!Emitted(seen, seen.made)
<1>3. t = IF s.raised THEN old ELSE IF ~cascade THEN st ELSE IF sent THEN sig ELSE seen
  BY DEF D!Closed
<1>4. st = Loop(count + 1, last, made + 1, fired, ms, held, queued, raised)
  <2>1. st = Counts(s, count + 1, made + 1)
    BY <1>2 DEF Counts
  <2> HIDE DEF st
  <2> QED
    BY <1>1, <2>1, Counted
<1>5. old = Loop(count, last, made + 1, fired, ms, held, queued, raised)
  <2>1. old = [s EXCEPT !.made = made + 1]
    BY <1>2
  <2> HIDE DEF old
  <2> QED
    BY <1>1, <2>1, Unmade
<1> HIDE DEF st, old, t
<1>6. /\ st.count = count + 1 /\ st.last = last /\ st.made = made + 1 /\ st.raised = raised
      /\ st.marks = ms /\ st.moves = held
  BY <1>4, LoopFields
<1>7. seen = Loop(count + 1, last, made + 1, fired, m, w, queued, raised)
  <2>1. seen = Sees(st, m, w)
    <3>1. D!Recorded(st.marks, c, v.move, ts) = m /\ D!InWindow(st.moves, c, v.move, ts) = w
      BY <1>6, SameBreadth
    <3> HIDE DEF m, w
    <3> QED
      BY <3>1 DEF Sees
  <2> HIDE DEF seen, m, w
  <2> QED
    BY <1>4, <2>1, Seen
<1> HIDE DEF seen, m, w
<1>8. /\ seen.count = count + 1 /\ seen.made = made + 1 /\ seen.fired = fired /\ seen.box = queued
      /\ seen.raised = raised
  BY <1>7, LoopFields
<1>9. sig = Loop(count + 1, count + 1, made + 1, f, m, w, IF full THEN queued ELSE queued + 1, full)
  <2> DEFINE q == IF full THEN queued ELSE queued + 1
  <2>1. sig = Signals(seen, count + 1, f, q, full)
    BY <1>8 DEF D!Emitted, Signals
  <2> HIDE DEF sig, f, q, full
  <2>2. sig = Loop(count + 1, count + 1, made + 1, f, m, w, q, full)
    BY <1>7, <2>1, Signalled
  <2> QED
    BY <2>2 DEF q
<1> HIDE DEF sig
<1>10. /\ count \in Nat /\ last \in Nat /\ made \in Nat /\ fired \in Seq(Nat)
       /\ fired # <<>> => fired[Len(fired)] \in Nat
  BY <1>1 DEF Spaced
<1>11. Spaced(count, last, made + 1, fired) /\ Spaced(count + 1, last, made + 1, fired)
  BY <1>1, <1>10 DEF Spaced
<1>12. CASE s.raised
  <2>1. t = old
    BY <1>3, <1>12
  <2>2. Looping(t, n)
    BY <1>1, <1>5, <1>11, <2>1 DEF Looping
  <2>3. t.made = made + 1 /\ t.raised = raised
    BY <1>5, <2>1, LoopFields
  <2> QED
    BY <1>2, <1>12, <2>2, <2>3
<1>13. CASE ~s.raised /\ ~cascade
  <2>1. t = st
    BY <1>3, <1>13
  <2>2. Looping(t, n)
    BY <1>1, <1>4, <1>11, <2>1 DEF Looping
  <2> QED
    BY <1>2, <1>6, <1>13, <2>1, <2>2
<1>14. CASE ~s.raised /\ cascade
  <2>1. v.move \in Directions
    BY <1>14 DEF D!Verdicts, D!Directions, Directions
  <2>2. Kept(m, w, n)
    BY <1>1, <2>1, RecordedKept DEF m, w
  <2>3. CASE ~sent
    <3>1. t = seen
      BY <1>3, <1>14, <2>3
    <3>2. Looping(t, n)
      BY <1>1, <1>7, <1>11, <2>2, <3>1 DEF Looping
    <3> QED
      BY <1>2, <1>8, <1>14, <3>1, <3>2
  <2>4. CASE sent
    <3>1. t = sig
      BY <1>3, <1>14, <2>4
    <3>2. st.count >= Warmup /\ D!CooldownElapsed(st)
      BY <1>14
    <3>3. st.last = 0 \/ st.count - st.last >= Cooldown
      BY <3>2 DEF D!CooldownElapsed, D!None
    <3>4. count + 1 >= Warmup /\ (last = 0 \/ count + 1 - last >= Cooldown)
      <4> HIDE DEF cascade, seen, sent, full, f
      <4> QED
        BY <1>6, <1>10, <3>2, <3>3
    <3>5. Spaced(count + 1, count + 1, made + 1, f)
      BY <1>1, <3>4, SignalSpaced
    <3> HIDE DEF f
    <3>6. full \in BOOLEAN
      OBVIOUS
    <3> HIDE DEF full
    <3>7. Looping(t, n)
      BY <1>9, <2>2, <3>1, <3>5, <3>6 DEF Looping
    <3>8. t.made = made + 1 /\ t.count = count + 1
      BY <1>9, <3>1, LoopFields
    <3> QED
      BY <1>2, <1>14, <3>7, <3>8
  <2> QED
    BY <2>3, <2>4
<1> QED
  BY <1>12, <1>13, <1>14

LEMMA DivisionUnique ==
    ASSUME NEW T \in Nat \ {0}, NEW q \in Nat, NEW r \in 0..(T - 1)
    PROVE  (T * q + r) \div T = q /\ (T * q + r) % T = r
<1> DEFINE x == T * q + r
           p == x \div T
           s == x % T
<1>1. T * q \in Nat
  OBVIOUS
<1>2. x \in Nat
  BY <1>1
<1>3. \A y \in Nat : y = T * (y \div T) + (y % T)
  BY Z3
<1>4. p \in Nat /\ s \in 0..(T - 1)
  <2> HIDE DEF x
  <2> QED
    BY <1>2, Division
<1>5. T * q + r = T * p + s
  BY <1>2, <1>3
<1> HIDE DEF x, p, s
<1>6. p = q
  <2>1. CASE p >= q + 1
    <3>1. T * p >= T * (q + 1)
      BY <1>4, <2>1, Z3
    <3>2. T * (q + 1) = T * q + T /\ T * p \in Nat
      BY <1>4, Z3
    <3> QED
      BY <1>1, <1>4, <1>5, <3>1, <3>2
  <2>2. CASE q >= p + 1
    <3>1. T * q >= T * (p + 1)
      BY <1>4, <2>2, Z3
    <3>2. T * (p + 1) = T * p + T /\ T * p \in Nat
      BY <1>4, Z3
    <3> QED
      BY <1>1, <1>4, <1>5, <3>1, <3>2
  <2> QED
    BY <1>4, <2>1, <2>2
<1>7. s = r
  BY <1>1, <1>4, <1>5, <1>6
<1> QED
  BY <1>6, <1>7 DEF x, p, s

\* The rest of a division and what is added to it divide as their sum does.
LEMMA DivisionAdds ==
    ASSUME NEW T \in Nat \ {0}, NEW x \in Nat, NEW y \in Nat
    PROVE  /\ x \div T + ((x % T) + y) \div T = (x + y) \div T
           /\ ((x % T) + y) % T = (x + y) % T
<1> DEFINE q == x \div T
           r == x % T
           u == (r + y) \div T
           v == (r + y) % T
<1>1. \A z \in Nat : z = T * (z \div T) + (z % T)
  BY Z3
<1>2. q \in Nat /\ r \in 0..(T - 1)
  BY Division
<1>3. r + y \in Nat
  BY <1>2
<1>4. u \in Nat /\ v \in 0..(T - 1)
  <2> HIDE DEF r
  <2> QED
    BY <1>3, Division
<1>5. x = T * q + r
  BY <1>1
<1>6. r + y = T * u + v
  <2> HIDE DEF r
  <2> QED
    BY <1>1, <1>3
<1> HIDE DEF q, r, u, v
<1>7. T * q \in Nat /\ T * u \in Nat /\ T * (q + u) = T * q + T * u
  BY <1>2, <1>4, Z3
<1>8. x + y = T * (q + u) + v
  BY <1>2, <1>4, <1>5, <1>6, <1>7
<1>9. q + u \in Nat
  BY <1>2, <1>4
<1>10. (x + y) \div T = q + u /\ (x + y) % T = v
  <2> DEFINE k == q + u
  <2>1. k \in Nat /\ x + y = T * k + v
    BY <1>8, <1>9
  <2> HIDE DEF k
  <2>2. (T * k + v) \div T = k /\ (T * k + v) % T = v
    BY <1>4, <2>1, DivisionUnique
  <2>3. (x + y) \div T = k /\ (x + y) % T = v
    BY <2>1, <2>2, Zenon
  <2> QED
    BY <2>3 DEF k
<1> QED
  BY <1>10 DEF q, r, u, v

\* What is known of a coin's bars, and of the volume that went into them.
Banked(st) ==
    /\ Spaced(st.count, st.last, st.made, st.fired)
    /\ st.volume \in Nat
    /\ st.made = st.volume \div Threshold
    /\ st.acc = st.volume % Threshold
    /\ st.raised \in BOOLEAN
    /\ ~st.raised => st.count = st.made

BarsInv == /\ bars = [c \in Coins |-> bars[c]]
           /\ \A c \in Coins : Banked(bars[c])

LEMMA DvsTradeInv ==
    ASSUME now \in Nat, Kept(marks, moves, now), BarsInv,
           NEW c \in Coins, NEW size \in Sizes, NEW ts \in (now - Skew)..now, D!Trade(c, size, ts)
    PROVE  BarsInv' /\ Kept(marks', moves', now')
<1> USE StrategyAssumption, BreadthAssumption
<1> DEFINE st     == bars[c]
           filled == D!Fill(st.acc, size)
           n      == filled.closed
           start  == [count |-> st.count, last |-> st.last, made |-> st.made, fired |-> st.fired,
                      marks |-> marks, moves |-> moves, box |-> box, raised |-> FALSE]
<1>1. Banked(st) /\ size \in Nat /\ now \in Int /\ now' = now
  <2>1. now' = now
    BY Zenon DEF D!Trade
  <2> QED
    BY <2>1 DEF BarsInv
<1>2. /\ st.volume \in Nat /\ st.acc \in 0..(Threshold - 1) /\ st.raised \in BOOLEAN
      /\ st.count \in Nat /\ st.made \in Nat
  <2>1. st.volume % Threshold \in 0..(Threshold - 1)
    BY <1>1, Division DEF Banked
  <2> QED
    BY <1>1, <2>1 DEF Banked, Spaced
<1>3. filled = [closed |-> (st.acc + size) \div Threshold, acc |-> (st.acc + size) % Threshold]
  BY <1>1, <1>2, FillDivides
<1>4. n = (st.acc + size) \div Threshold /\ n \in Nat
  <2>1. st.acc + size \in Nat
    BY <1>1, <1>2
  <2>2. (st.acc + size) \div Threshold \in Nat
    <3> HIDE DEF st
    <3> QED
      BY <2>1, Division
  <2> QED
    BY <1>3, <2>2
<1>5. st.made + n = (st.volume + size) \div Threshold /\ filled.acc = (st.volume + size) % Threshold
  <2> DEFINE vol == st.volume
  <2>1. vol \in Nat /\ st.acc = vol % Threshold /\ st.made = vol \div Threshold
    BY <1>1 DEF Banked
  <2>2. n = (st.acc + size) \div Threshold /\ filled.acc = (st.acc + size) % Threshold
    BY <1>3, <1>4
  <2> HIDE DEF vol, st, n, filled
  <2>3. /\ vol \div Threshold + ((vol % Threshold) + size) \div Threshold = (vol + size) \div Threshold
        /\ ((vol % Threshold) + size) % Threshold = (vol + size) % Threshold
    BY <1>1, <2>1, DivisionAdds, ZenonT(30)
  <2> QED
    BY <2>1, <2>2, <2>3 DEF vol
<1>6. Looping(start, now)
  <2>1. start = Loop(st.count, st.last, st.made, st.fired, marks, moves, box, FALSE)
    BY DEF Loop
  <2>2. Spaced(st.count, st.last, st.made, st.fired)
    BY <1>1 DEF Banked
  <2> HIDE DEF start
  <2> QED
    BY <2>1, <2>2 DEF Looping
<1>7. start.made = st.made /\ start.count = st.count /\ start.raised = FALSE
  OBVIOUS
<1> HIDE DEF n, start
<1>8. PICK verdicts \in [1..n -> D!Verdicts] :
        LET after[i \in 0..n] == IF i = 0 THEN start ELSE D!Closed(c, ts, after[i - 1], verdicts[i])
        IN  \E end \in {after[n]} :
                /\ marks' = end.marks
                /\ moves' = end.moves
                /\ box' = end.box
                /\ bars' = [bars EXCEPT ![c] =
                       [acc |-> filled.acc, count |-> end.count, last |-> end.last,
                        volume |-> st.volume + size, made |-> end.made, fired |-> end.fired,
                        raised |-> st.raised \/ end.raised]]
  BY Zenon DEF D!Trade, n, start
<1> DEFINE after == After(c, ts, start, n, verdicts)
           end == after[n]
<1>9. /\ marks' = end.marks /\ moves' = end.moves
      /\ bars' = [bars EXCEPT ![c] =
             [acc |-> filled.acc, count |-> end.count, last |-> end.last,
              volume |-> st.volume + size, made |-> end.made, fired |-> end.fired,
              raised |-> st.raised \/ end.raised]]
  BY <1>8, Zenon DEF After
<1>10. after[0] = start /\ \A i \in 1..n : after[i] = D!Closed(c, ts, after[i - 1], verdicts[i])
  <2>1. n \in Nat
    BY <1>4
  <2> HIDE DEF st, filled, end
  <2>2. BarByBar(c, ts, start, n, verdicts, after)
    BY <2>1, BarAfterBar, Zenon
  <2> HIDE DEF after
  <2> QED
    BY <2>2 DEF BarByBar
<1> HIDE DEF after
<1> DEFINE Good(i) == /\ Looping(after[i], now)
                      /\ after[i].made = st.made + i
                      /\ ~after[i].raised => after[i].count = st.count + i
           Bad == {i \in 0..n : ~Good(i)}
<1>11. Good(0)
  BY <1>2, <1>6, <1>7, <1>10
<1>12. ASSUME NEW i \in 1..n, Good(i - 1) PROVE Good(i)
  <2> DEFINE s == after[i - 1]
             t == after[i]
  <2>1. t = D!Closed(c, ts, s, verdicts[i]) /\ verdicts[i] \in D!Verdicts
    BY <1>10
  <2>2. Looping(s, now) /\ s.made = st.made + (i - 1) /\ (~s.raised => s.count = st.count + (i - 1))
    BY <1>12
  <2> HIDE DEF s, t
  <2>3. Looping(t, now) /\ t.made = s.made + 1 /\ (~t.raised => ~s.raised /\ t.count = s.count + 1)
    BY <1>1, <2>1, <2>2, ClosedLoops
  <2>4. t.made = st.made + i /\ (~t.raised => t.count = st.count + i)
    <3> HIDE DEF st, Good
    <3> QED
      BY <1>2, <2>2, <2>3
  <2> QED
    BY <2>3, <2>4 DEF t
<1> HIDE DEF Good
<1>13. Good(n)
  <2>0. Bad \subseteq Nat
    BY <1>4
  <2>1. CASE Bad # {}
    <3>1. PICK i \in Bad : \A y \in Bad : i <= y
      <4> HIDE DEF Bad
      <4> QED
        BY <2>0, <2>1, LeastNumber
    <3>2. i \in 0..n /\ ~Good(i)
      OBVIOUS
    <3>3. i \in 1..n /\ i - 1 \in 0..n
      BY <1>4, <1>11, <3>2
    <3>4. i - 1 \notin Bad
      <4> HIDE DEF Bad
      <4> QED
        BY <3>1, <3>2
    <3> QED
      BY <1>12, <3>2, <3>3, <3>4
  <2>2. CASE Bad = {}
    BY <1>4, <2>2
  <2> QED
    BY <2>1, <2>2
<1>14. PICK count, last, made, fired, ms, held, queued, raised :
        /\ end = Loop(count, last, made, fired, ms, held, queued, raised)
        /\ Spaced(count, last, made, fired)
        /\ Kept(ms, held, now)
        /\ raised \in BOOLEAN
  BY <1>13 DEF Good, Looping
<1>15. /\ end.count = count /\ end.last = last /\ end.made = made /\ end.fired = fired
       /\ end.marks = ms /\ end.moves = held /\ end.raised = raised
  BY <1>14, LoopFields
<1>16. end.made = st.made + n /\ (~end.raised => end.count = st.count + n)
  BY <1>13 DEF Good
<1> DEFINE new == [acc |-> filled.acc, count |-> count, last |-> last,
                   volume |-> st.volume + size, made |-> made, fired |-> fired,
                   raised |-> st.raised \/ raised]
<1>17. bars' = [bars EXCEPT ![c] = new]
  BY <1>9, <1>15
<1>18. Banked(new)
  <2>1. /\ new.count = count /\ new.last = last /\ new.made = made /\ new.fired = fired
        /\ new.acc = filled.acc /\ new.volume = st.volume + size
    OBVIOUS
  <2>2. new.raised \in BOOLEAN /\ (~new.raised => ~st.raised /\ ~raised)
    BY <1>2, <1>14
  <2>3. new.made = new.volume \div Threshold /\ new.acc = new.volume % Threshold
    BY <1>5, <1>15, <1>16, <2>1
  <2>4. ~st.raised /\ ~raised => count = made
    <3>1. ~st.raised => st.count = st.made
      BY <1>1 DEF Banked
    <3> HIDE DEF end, st, new
    <3> QED
      BY <1>15, <1>16, <3>1
  <2>5. new.volume \in Nat
    BY <1>1, <1>2, <2>1
  <2> HIDE DEF new
  <2> QED
    BY <1>14, <2>1, <2>2, <2>3, <2>4, <2>5 DEF Banked
<1> HIDE DEF new
<1>19. BarsInv'
  BY <1>17, <1>18 DEF BarsInv
<1>20. Kept(marks', moves', now')
  BY <1>1, <1>9, <1>14, <1>15
<1> QED
  BY <1>19, <1>20

------------------------------------------------------------------------------
(* The strategy task. *)

IInv ==
    /\ now \in Nat
    /\ Kept(marks, moves, now)
    /\ MomentumInv
    /\ BarsInv

LEMMA InitIInv == Init => IInv
<1> SUFFICES ASSUME Init PROVE IInv
  OBVIOUS
<1> USE StrategyAssumption, BreadthAssumption
<1>1. now = 0 /\ marks = <<>> /\ moves = {} /\ M!Init /\ D!Init
  BY DEF Init
<1>2. Kept(marks, moves, now)
  <2>1. <<>> \in Seq(Mark) /\ Len(<<>>) = 0
    OBVIOUS
  <2> QED
    BY <1>1, <2>1 DEF Kept
<1>3. MomentumInv
  <2> DEFINE st == [oi |-> M!NoReport, prev |-> M!NoReport, pending |-> M!None]
  <2>1. st \in CoinState /\ st.oi = M!NoReport /\ st.prev = M!NoReport /\ st.pending = M!None
    BY NoneCandidate DEF CoinState, M!NoReport
  <2>2. <<>> \in Seq(Nat) /\ Len(<<>>) = 0
    OBVIOUS
  <2>3. Informed(st, <<>>)
    BY <2>1, <2>2 DEF Informed
  <2>4. coins = [c \in Coins |-> st] /\ reports = [c \in Coins |-> <<>>] /\ signal = M!None
    BY <1>1 DEF M!Init
  <2> HIDE DEF st
  <2>5. SignalBacked
    BY <2>4 DEF SignalBacked, M!SignalBacked
  <2> QED
    BY <2>1, <2>2, <2>3, <2>4, <2>5 DEF MomentumInv
<1>4. BarsInv
  <2> DEFINE st == [acc |-> 0, count |-> 0, last |-> 0,
                    volume |-> 0, made |-> 0, fired |-> <<>>, raised |-> FALSE]
  <2>1. bars = [c \in Coins |-> st]
    BY <1>1 DEF D!Init, D!None
  <2>2. Banked(st)
    <3>1. 0 \div Threshold = 0 /\ 0 % Threshold = 0
      BY Division
    <3>2. <<>> \in Seq(Nat) /\ Len(<<>>) = 0
      OBVIOUS
    <3>3. Spaced(0, 0, 0, <<>>)
      BY <3>2 DEF Spaced
    <3> QED
      BY <3>1, <3>3 DEF Banked
  <2> HIDE DEF st
  <2> QED
    BY <2>1, <2>2 DEF BarsInv
<1> QED
  BY <1>1, <1>2, <1>3, <1>4 DEF IInv

LEMMA StepIInv == IInv /\ [Next]_vars => IInv'
<1> SUFFICES ASSUME IInv, [Next]_vars PROVE IInv'
  OBVIOUS
<1> USE BreadthAssumption
<1>0. UNCHANGED momentum => MomentumInv'
  BY DEF IInv, momentum, MomentumInv, SignalBacked, M!SignalBacked
<1>00. UNCHANGED bars => BarsInv'
  BY DEF IInv, BarsInv
<1>1. CASE M!Next /\ UNCHANGED bars
  <2>1. PICK c \in Coins, side \in M!Sides :
          \/ \E interest \in Interests : M!Ctx(c, interest, side)
          \/ \E ts \in (now - Skew)..now : M!Trade(c, side, ts)
    BY <1>1 DEF M!Next
  <2>2. CASE \E interest \in Interests : M!Ctx(c, interest, side)
    <3>1. PICK interest \in Interests : M!Ctx(c, interest, side)
      BY <2>2
    <3>2. interest \in Nat
      BY StrategyAssumption
    <3>3. MomentumInv' /\ Moved(c, now)
      BY <3>1, <3>2, CtxInv DEF IInv
    <3>4. now' = now /\ now \in (now - Skew)..now
      BY <3>1 DEF M!Ctx, IInv
    <3>5. Kept(marks', moves', now')
      BY <3>3, <3>4, MovedKept DEF IInv
    <3> QED
      BY <1>1, <1>00, <3>3, <3>4, <3>5 DEF IInv
  <2>3. CASE \E ts \in (now - Skew)..now : M!Trade(c, side, ts)
    <3>1. PICK ts \in (now - Skew)..now : M!Trade(c, side, ts)
      BY <2>3
    <3>2. MomentumInv' /\ Moved(c, ts)
      BY <3>1, TradeInv DEF IInv
    <3>3. now' = now
      BY <3>1 DEF M!Trade
    <3>4. Kept(marks', moves', now')
      BY <3>2, <3>3, MovedKept DEF IInv
    <3> QED
      BY <1>1, <1>00, <3>2, <3>3, <3>4 DEF IInv
  <2> QED
    BY <2>1, <2>2, <2>3
<1>2. CASE D!Next /\ UNCHANGED momentum
  <2>1. PICK c \in Coins, size \in Sizes, ts \in (now - Skew)..now : D!Trade(c, size, ts)
    BY <1>2 DEF D!Next
  <2>2. BarsInv' /\ Kept(marks', moves', now')
    BY <2>1, DvsTradeInv DEF IInv
  <2>3. now' = now
    BY <2>1, Zenon DEF D!Trade
  <2> QED
    BY <1>0, <1>2, <2>2, <2>3 DEF IInv
<1>3. CASE Route
  <2>1. UNCHANGED <<now, marks, moves, momentum, bars>>
    BY <1>3 DEF Route
  <2> QED
    BY <1>0, <1>00, <2>1 DEF IInv
<1>4. CASE Tick
  <2>1. UNCHANGED <<marks, moves, momentum, bars>> /\ now' = now + 1
    BY <1>4 DEF Tick
  <2>2. Kept(marks, moves, now + 1)
    <3>1. \A i \in 1..Len(marks) : marks[i].ts \in Int
      <4>1. marks \in Seq(Mark)
        BY DEF IInv, Kept
      <4> TAKE i \in 1..Len(marks)
      <4>2. marks[i] \in Mark
        BY <4>1
      <4> QED
        BY <4>2 DEF Mark
    <3> QED
      BY <3>1 DEF IInv, Kept
  <2> QED
    BY <1>0, <1>00, <2>1, <2>2 DEF IInv
<1>5. CASE UNCHANGED vars
  <2>1. UNCHANGED <<now, marks, moves, momentum, bars>>
    BY <1>5 DEF vars
  <2> QED
    BY <1>0, <1>00, <2>1 DEF IInv
<1> QED
  BY <1>1, <1>2, <1>3, <1>4, <1>5 DEF Next

LEMMA Invariance == Spec => []IInv
<1> QED
  BY InitIInv, StepIInv, PTL DEF Spec

\* A momentum signal is backed by a rise of the open interest over the last
\* report or the last two and by the regime, also when its breakout has waited
\* while reports and regimes changed (MomentumOI._confirm_oi, on_market_event).
THEOREM SignalBackedHolds == Spec => []SignalBacked
<1>1. IInv => SignalBacked
  BY DEF IInv, MomentumInv
<1> QED
  BY <1>1, Invariance, PTL

\* The cascade strategy signals past the warm-up and no two signals of a coin
\* within the cooldown, in bars really made (DvslaStrategy._on_bar_close).
THEOREM SignalsSpacedHolds == Spec => []SignalsSpaced
<1>1. IInv => SignalsSpaced
  <2> SUFFICES ASSUME IInv, NEW c \in Coins
               PROVE  LET f == bars[c].fired IN
                      /\ \A i \in DOMAIN f : f[i] >= Warmup
                      /\ \A i \in 1..(Len(f) - 1) : f[i + 1] - f[i] >= Cooldown
    BY DEF SignalsSpaced, D!SignalsSpaced
  <2>1. Spaced(bars[c].count, bars[c].last, bars[c].made, bars[c].fired)
    BY DEF IInv, BarsInv, Banked
  <2> QED
    BY <2>1 DEF Spaced
<1> QED
  BY <1>1, Invariance, PTL

\* Bars hold the whole volume of the trades, the rest of it being in the open
\* bar, and all are counted unless the queue of signals refused one
\* (VolumeBarAggregator.update, DvslaStrategy._on_trade).
THEOREM BarsCountedHolds == Spec => []BarsCounted
<1>1. IInv => BarsCounted
  BY DEF IInv, BarsInv, Banked, Spaced, BarsCounted, D!BarsCounted
<1> QED
  BY <1>1, Invariance, PTL

\* The market's breadth counts each move of the latest window, and none older
\* than the window and the skew of the times (MarketBreadthTracker._prune).
THEOREM BreadthBoundsHolds == Spec => []BreadthBounds
<1>1. IInv => BreadthBounds
  <2> SUFFICES ASSUME IInv PROVE BreadthBounds
    OBVIOUS
  <2>1. Kept(marks, moves, now)
    BY DEF IInv
  <2>2. \A m \in ToSet(marks) : m.ts >= Last(marks).ts - Window - Skew
    <3> TAKE m \in ToSet(marks)
    <3>1. PICK i \in 1..Len(marks) : m = marks[i]
      BY <2>1 DEF ToSet, Kept
    <3> QED
      BY <2>1, <3>1 DEF Kept, Last
  <2> QED
    BY <2>1, <2>2 DEF BreadthBounds, Kept
<1> QED
  BY <1>1, Invariance, PTL
-----------------------------------------------------------------------------
(* Sums and histories: loops over a list. *)

\* What holds of 0, and of each number after the one before it.
LEMMA UpTo ==
    ASSUME NEW N \in Nat, NEW G, 0 \in G, \A n \in 1..N : n - 1 \in G => n \in G
    PROVE  0..N \subseteq G
<1> DEFINE Bad == (0..N) \ G
<1> SUFFICES ASSUME Bad # {} PROVE FALSE
  OBVIOUS
<1>1. Bad \subseteq Nat /\ \A n \in 0..N : n \in Bad <=> n \notin G
  OBVIOUS
<1>2. PICK m \in Bad : \A y \in Bad : m <= y
  <2> HIDE DEF Bad
  <2> QED
    BY <1>1, LeastNumber
<1>3. m \in 1..N
  OBVIOUS
<1>4. m - 1 \in 0..N /\ m - 1 \in Nat /\ ~(m <= m - 1)
  BY <1>3
<1>5. m - 1 \in G
  <2> HIDE DEF Bad
  <2> QED
    BY <1>1, <1>2, <1>4
<1> QED
  BY <1>3, <1>5

\* f is the loop that starts at base and takes the turns F[1], ..., F[N].
Turns(f, N, X, base, F) ==
    /\ f \in [0..N -> X]
    /\ f[0] = base
    /\ \A n \in 1..N : f[n] = F[n][f[n - 1]]

LEMMA TurnsExist ==
    ASSUME NEW N \in Nat, NEW X, NEW base \in X, NEW F \in [1..N -> [X -> X]]
    PROVE  \E f : Turns(f, N, X, base, F)
<1> DEFINE G == {m \in 0..N : \E f : Turns(f, m, X, base, F)}
<1>1. 0 \in G
  <2> DEFINE f == [n \in 0..0 |-> base]
  <2>1. f \in [0..0 -> X] /\ f[0] = base /\ 1..0 = {}
    OBVIOUS
  <2> HIDE DEF f
  <2>2. Turns(f, 0, X, base, F)
    BY <2>1 DEF Turns
  <2> QED
    BY <2>2
<1>2. ASSUME NEW m \in 1..N, m - 1 \in G PROVE m \in G
  <2>1. PICK f : Turns(f, m - 1, X, base, F)
    BY <1>2
  <2> DEFINE g == [n \in 0..m |-> IF n = m THEN F[m][f[m - 1]] ELSE f[n]]
  <2>2. m - 1 \in 0..(m - 1) /\ \A n \in 1..(m - 1) : n - 1 \in 0..(m - 1) /\ n \in 0..(m - 1) /\ n \in 1..N
    OBVIOUS
  <2>3. f \in [0..(m - 1) -> X] /\ f[m - 1] \in X /\ F[m][f[m - 1]] \in X
    <3>1. f \in [0..(m - 1) -> X]
      BY <2>1 DEF Turns
    <3>2. F[m] \in [X -> X]
      OBVIOUS
    <3>3. f[m - 1] \in X
      BY <2>2, <3>1
    <3> QED
      BY <3>1, <3>2, <3>3
  <2>4. /\ g \in [0..m -> X] /\ g[m] = F[m][f[m - 1]]
        /\ \A n \in 0..(m - 1) : g[n] = f[n]
    BY <2>3
  <2>5. 0 \in 0..(m - 1) /\ \A n \in 1..m : n = m \/ n \in 1..(m - 1)
    OBVIOUS
  <2> HIDE DEF g
  <2>6. g[0] = base /\ \A n \in 1..(m - 1) : g[n] = F[n][g[n - 1]]
    BY <2>1, <2>2, <2>4, <2>5 DEF Turns
  <2>7. g[m] = F[m][g[m - 1]]
    BY <2>2, <2>4
  <2>8. Turns(g, m, X, base, F)
    BY <2>4, <2>5, <2>6, <2>7 DEF Turns
  <2> QED
    BY <2>8
<1>3. 0..N \subseteq G
  <2> HIDE DEF G
  <2> QED
    BY <1>1, <1>2, UpTo
<1>4. N \in 0..N
  OBVIOUS
<1> QED
  BY <1>3, <1>4

\* Loops with the same turns agree as far as both go.
LEMMA SameTurns ==
    ASSUME NEW N \in Nat, NEW K \in Nat, N <= K, NEW X, NEW base, NEW F, NEW H, NEW f, NEW g,
           Turns(f, N, X, base, F), Turns(g, K, X, base, H),
           \A n \in 1..N : \A x \in X : F[n][x] = H[n][x]
    PROVE  \A n \in 0..N : f[n] = g[n]
<1> DEFINE G == {n \in 0..N : f[n] = g[n]}
<1>1. 0 \in G
  BY DEF Turns
<1>2. ASSUME NEW n \in 1..N, n - 1 \in G PROVE n \in G
  <2>1. n - 1 \in 0..N /\ n \in 1..K /\ f[n - 1] = g[n - 1] /\ n \in 0..N
    BY <1>2
  <2>2. f[n - 1] \in X
    BY <2>1 DEF Turns
  <2>3. f[n] = F[n][f[n - 1]] /\ g[n] = H[n][g[n - 1]]
    BY <2>1 DEF Turns
  <2> QED
    BY <2>1, <2>2, <2>3
<1>3. 0..N \subseteq G
  <2> HIDE DEF G
  <2> QED
    BY <1>1, <1>2, UpTo
<1> QED
  BY <1>3

SumTurns(s) == [n \in 1..Len(s) |-> [x \in Int |-> x + s[n]]]
Sums(f, s)  == Turns(f, Len(s), Int, 0, SumTurns(s))

LEMMA TotalSums ==
    ASSUME NEW s \in Seq(Int)
    PROVE  \E f : Sums(f, s) /\ Total(s) = f[Len(s)]
<1> DEFINE N == Len(s)
           Body(f) == [i \in 0..N |-> IF i = 0 THEN 0 ELSE f[i - 1] + s[i]]
           upTo == CHOOSE f : f = Body(f)
<1>1. N \in Nat /\ \A n \in 1..N : s[n] \in Int
  BY LenProperties, ElementOfSeq
<1>2. Total(s) = upTo[N]
  BY DEF Total
<1>3. SumTurns(s) \in [1..N -> [Int -> Int]] /\ \A n \in 1..N : \A x \in Int : SumTurns(s)[n][x] = x + s[n]
  BY <1>1 DEF SumTurns
<1>4. PICK f : Sums(f, s)
  BY <1>1, <1>3, TurnsExist, 0 \in Int DEF Sums
<1>5. f \in [0..N -> Int] /\ f[0] = 0 /\ \A n \in 1..N : f[n] = f[n - 1] + s[n]
  <2>1. f \in [0..N -> Int] /\ f[0] = 0 /\ \A n \in 1..N : f[n] = SumTurns(s)[n][f[n - 1]]
    BY <1>4 DEF Sums, Turns
  <2>2. \A n \in 1..N : n - 1 \in 0..N
    BY <1>1
  <2> QED
    BY <1>3, <2>1, <2>2
<1> HIDE DEF N
<1>6. f = Body(f)
  <2> DEFINE r == Body(f)
  <2>1. \A n \in 0..N : r[n] = f[n]
    <3>1. \A n \in 0..N : n = 0 \/ n \in 1..N
      BY <1>1
    <3> QED
      BY <1>5, <3>1
  <2>2. f = [n \in 0..N |-> f[n]] /\ r = [n \in 0..N |-> r[n]]
    BY <1>5
  <2> HIDE DEF r
  <2>3. f = r
    BY <2>1, <2>2
  <2> QED
    BY <2>3 DEF r
<1> HIDE DEF Body
<1>7. upTo = Body(upTo)
  BY <1>6
<1> HIDE DEF upTo
<1>8. upTo[0] = 0 /\ \A n \in 1..N : upTo[n] = upTo[n - 1] + s[n]
  <2> DEFINE r == Body(upTo)
  <2>1. r[0] = 0 /\ \A n \in 1..N : r[n] = upTo[n - 1] + s[n]
    BY <1>1 DEF Body
  <2>2. upTo = r
    BY <1>7
  <2> HIDE DEF r
  <2> QED
    BY <2>1, <2>2
<1>9. \A n \in 0..N : f[n] = upTo[n]
  <2> DEFINE G == {n \in 0..N : f[n] = upTo[n]}
  <2>1. 0 \in G
    BY <1>1, <1>5, <1>8
  <2>2. \A n \in 1..N : n - 1 \in G => n \in G
    BY <1>1, <1>5, <1>8
  <2>3. 0..N \subseteq G
    <3> HIDE DEF G
    <3> QED
      BY <1>1, <2>1, <2>2, UpTo
  <2> QED
    BY <2>3
<1>10. Total(s) = f[N]
  BY <1>1, <1>2, <1>9
<1> QED
  BY <1>4, <1>10 DEF N

LEMMA SumsStep ==
    ASSUME NEW s \in Seq(Int), NEW f, Sums(f, s)
    PROVE  f \in [0..Len(s) -> Int] /\ f[0] = 0 /\ \A n \in 1..Len(s) : f[n] = f[n - 1] + s[n]
<1>1. Len(s) \in Nat /\ \A n \in 1..Len(s) : n - 1 \in 0..Len(s)
  BY LenProperties
<1>2. \A n \in 1..Len(s) : \A x \in Int : SumTurns(s)[n][x] = x + s[n]
  BY DEF SumTurns
<1> QED
  BY <1>1, <1>2 DEF Sums, Turns

\* A total grows by what is appended and shrinks by what is taken from the front.
LEMMA TotalAppend ==
    ASSUME NEW s \in Seq(Int), NEW v \in Int
    PROVE  Total(s) \in Int /\ Total(Append(s, v)) = Total(s) + v
<1> DEFINE t == Append(s, v)
           N == Len(s)
<1>1. N \in Nat /\ t \in Seq(Int) /\ Len(t) = N + 1 /\ t[N + 1] = v /\ \A n \in 1..N : t[n] = s[n]
  BY LenProperties, AppendProperties
<1> HIDE DEF t
<1>2. PICK f : Sums(f, s) /\ Total(s) = f[N]
  BY TotalSums
<1>3. PICK g : Sums(g, t) /\ Total(t) = g[N + 1]
  BY <1>1, TotalSums
<1> HIDE DEF N
<1>4. f \in [0..N -> Int] /\ f[0] = 0 /\ \A n \in 1..N : f[n] = f[n - 1] + s[n]
  BY <1>2, SumsStep DEF N
<1>5. g[0] = 0 /\ \A n \in 1..(N + 1) : g[n] = g[n - 1] + t[n]
  <2>1. g[0] = 0 /\ \A n \in 1..Len(t) : g[n] = g[n - 1] + t[n]
    BY <1>1, <1>3, SumsStep
  <2> QED
    BY <1>1, <2>1
<1> DEFINE G == {n \in 0..N : f[n] = g[n]}
<1>6. 0 \in G /\ \A n \in 1..N : n - 1 \in G => n \in G
  <2>1. 0 \in G
    BY <1>1, <1>4, <1>5
  <2>2. ASSUME NEW n \in 1..N, n - 1 \in G PROVE n \in G
    <3>1. n \in 0..N /\ n \in 1..(N + 1) /\ f[n - 1] = g[n - 1]
      BY <1>1, <2>2
    <3>2. f[n] = f[n - 1] + s[n] /\ g[n] = g[n - 1] + s[n]
      BY <1>1, <1>4, <1>5, <3>1
    <3> QED
      BY <3>1, <3>2
  <2> QED
    BY <2>1, <2>2
<1>7. 0..N \subseteq G
  <2> HIDE DEF G
  <2> QED
    BY <1>1, <1>6, UpTo
<1>8. f[N] = g[N] /\ f[N] \in Int /\ N + 1 \in 1..(N + 1) /\ (N + 1) - 1 = N
  BY <1>1, <1>4, <1>7
<1>9. g[N + 1] = g[N] + v
  BY <1>1, <1>5, <1>8
<1> QED
  BY <1>2, <1>3, <1>8, <1>9 DEF t

LEMMA TotalTail ==
    ASSUME NEW s \in Seq(Int), s # <<>>
    PROVE  Total(s) \in Int /\ Total(Tail(s)) = Total(s) - Head(s)
<1> DEFINE t == Tail(s)
           N == Len(s)
<1>1. /\ N \in Nat /\ N # 0 /\ t \in Seq(Int) /\ Len(t) = N - 1 /\ Head(s) = s[1]
      /\ \A n \in 1..(N - 1) : t[n] = s[n + 1]
  BY LenProperties, HeadTailProperties, EmptySeq
<1>0. s[1] \in Int
  BY <1>1, ElementOfSeq
<1> HIDE DEF t
<1>2. PICK f : Sums(f, s) /\ Total(s) = f[N]
  BY TotalSums
<1>3. PICK g : Sums(g, t) /\ Total(t) = g[N - 1]
  BY <1>1, TotalSums
<1>4. f \in [0..N -> Int] /\ f[0] = 0 /\ \A n \in 1..N : f[n] = f[n - 1] + s[n]
  BY <1>2, SumsStep
<1>n. \A n \in 1..N : s[n] \in Int
  BY ElementOfSeq
<1> HIDE DEF N
<1>5. g[0] = 0 /\ \A n \in 1..(N - 1) : g[n] = g[n - 1] + t[n]
  BY <1>1, <1>3, SumsStep
<1> DEFINE G == {n \in 0..(N - 1) : g[n] = f[n + 1] - s[1]}
<1>6. 0 \in G
  <2>1. f[1] = f[0] + s[1]
    <3>1. 1 \in 1..N /\ 1 - 1 = 0
      BY <1>1
    <3> QED
      BY <1>4, <3>1
  <2> QED
    BY <1>0, <1>1, <1>4, <1>5, <2>1
<1>7. ASSUME NEW n \in 1..(N - 1), n - 1 \in G PROVE n \in G
  <2>1. n + 1 \in 1..N /\ n \in 1..N /\ n \in 0..N /\ (n + 1) - 1 = n /\ (n - 1) + 1 = n /\ n + 1 \in 0..N
    BY <1>1
  <2>2. g[n - 1] = f[n] - s[1]
    BY <1>7, <2>1
  <2>3. g[n] = g[n - 1] + s[n + 1]
    BY <1>1, <1>5
  <2>4. f[n + 1] = f[n] + s[n + 1]
    BY <1>4, <2>1
  <2>5. f[n] \in Int /\ s[n + 1] \in Int
    BY <1>4, <1>n, <2>1
  <2> QED
    BY <1>0, <2>2, <2>3, <2>4, <2>5
<1>8. 0..(N - 1) \subseteq G
  <2>1. N - 1 \in Nat
    BY <1>1
  <2> HIDE DEF G
  <2> QED
    BY <2>1, <1>6, <1>7, UpTo
<1>9. g[N - 1] = f[N] - s[1] /\ f[N] \in Int
  <2>1. N - 1 \in 0..(N - 1) /\ (N - 1) + 1 = N /\ N \in 0..N
    BY <1>1
  <2> QED
    BY <1>4, <1>8, <2>1
<1> QED
  BY <1>1, <1>2, <1>3, <1>9 DEF t

\* The changes in a history, each turn as Changes takes it.
ChangeTurn(h, n, x) == IF n < 2 THEN <<>> ELSE IF h[n] # h[n - 1] THEN Append(x, h[n] - h[n - 1]) ELSE x
ChangeTurns(h) == [n \in 1..Len(h) |-> [x \in Seq(Int) |-> ChangeTurn(h, n, x)]]

LEMMA ChangeTurnIs ==
    ASSUME NEW h \in Seq(Int), NEW n \in 1..Len(h), NEW x \in Seq(Int)
    PROVE  ChangeTurns(h)[n][x] = ChangeTurn(h, n, x) /\ ChangeTurn(h, n, x) \in Seq(Int)
<1>1. ChangeTurns(h)[n][x] = ChangeTurn(h, n, x)
  BY DEF ChangeTurns
<1>2. n < 2 \/ (n - 1 \in 1..Len(h) /\ h[n] \in Int /\ h[n - 1] \in Int)
  BY LenProperties, ElementOfSeq
<1>3. n < 2 \/ Append(x, h[n] - h[n - 1]) \in Seq(Int)
  BY <1>2, AppendProperties
<1>4. <<>> \in Seq(Int)
  BY EmptySeq
<1> QED
  BY <1>1, <1>3, <1>4 DEF ChangeTurn

LEMMA ChangesTurns ==
    ASSUME NEW h \in Seq(Int)
    PROVE  \E f : Turns(f, Len(h), Seq(Int), <<>>, ChangeTurns(h)) /\ Changes(h) = f[Len(h)]
<1> DEFINE N == Len(h)
           Body(f) == [i \in 0..N |-> IF i < 2 THEN <<>>
                                      ELSE IF h[i] # h[i - 1] THEN Append(f[i - 1], h[i] - h[i - 1]) ELSE f[i - 1]]
           found == CHOOSE f : f = Body(f)
<1>1. N \in Nat
  BY LenProperties
<1>2. Changes(h) = found[N]
  BY DEF Changes
<1>3. ChangeTurns(h) \in [1..N -> [Seq(Int) -> Seq(Int)]]
  <2>1. \A n \in 1..N : [x \in Seq(Int) |-> ChangeTurn(h, n, x)] \in [Seq(Int) -> Seq(Int)]
    BY ChangeTurnIs
  <2> QED
    BY <2>1 DEF ChangeTurns
<1>4. PICK f : Turns(f, N, Seq(Int), <<>>, ChangeTurns(h))
  <2>1. <<>> \in Seq(Int)
    BY EmptySeq
  <2> HIDE DEF N
  <2> QED
    BY <1>1, <1>3, <2>1, TurnsExist
<1>5. f \in [0..N -> Seq(Int)] /\ f[0] = <<>> /\ \A n \in 1..N : f[n] = ChangeTurn(h, n, f[n - 1])
  <2>1. f \in [0..N -> Seq(Int)] /\ f[0] = <<>> /\ \A n \in 1..N : f[n] = ChangeTurns(h)[n][f[n - 1]]
    BY <1>4 DEF Turns
  <2>2. \A n \in 1..N : n - 1 \in 0..N
    BY <1>1
  <2>3. \A n \in 1..N : f[n - 1] \in Seq(Int)
    BY <2>1, <2>2
  <2> QED
    BY <2>1, <2>3, ChangeTurnIs
<1> HIDE DEF N
<1>6. f = Body(f)
  <2> DEFINE r == Body(f)
  <2>1. \A n \in 0..N : r[n] = f[n]
    <3>1. \A n \in 0..N : n = 0 \/ n \in 1..N
      BY <1>1
    <3>2. \A n \in 0..N : r[n] = IF n = 0 THEN <<>> ELSE ChangeTurn(h, n, f[n - 1])
      <4>1. \A n \in 0..N : n = 0 => n < 2
        OBVIOUS
      <4> QED
        BY <4>1 DEF ChangeTurn
    <3>3. \A n \in 1..N : n # 0
      OBVIOUS
    <3> HIDE DEF r
    <3> QED
      BY <1>5, <3>1, <3>2, <3>3
  <2>2. f = [n \in 0..N |-> f[n]] /\ r = [n \in 0..N |-> r[n]]
    BY <1>5
  <2> HIDE DEF r
  <2>3. f = r
    BY <2>1, <2>2
  <2> QED
    BY <2>3 DEF r
<1> HIDE DEF Body
<1>7. found = Body(found)
  BY <1>6
<1> HIDE DEF found
<1>8. found[0] = <<>> /\ \A n \in 1..N : found[n] = ChangeTurn(h, n, found[n - 1])
  <2> DEFINE r == Body(found)
  <2>1. r[0] = <<>> /\ \A n \in 1..N : r[n] = ChangeTurn(h, n, found[n - 1])
    BY <1>1 DEF Body, ChangeTurn
  <2>2. found = r
    BY <1>7
  <2> HIDE DEF r
  <2> QED
    BY <2>1, <2>2
<1>9. \A n \in 0..N : f[n] = found[n]
  <2> DEFINE G == {n \in 0..N : f[n] = found[n]}
  <2>1. 0 \in G
    BY <1>1, <1>5, <1>8
  <2>2. \A n \in 1..N : n - 1 \in G => n \in G
    BY <1>1, <1>5, <1>8
  <2>3. 0..N \subseteq G
    <3> HIDE DEF G
    <3> QED
      BY <1>1, <2>1, <2>2, UpTo
  <2> QED
    BY <2>3
<1>10. Changes(h) = f[N]
  BY <1>1, <1>2, <1>9
<1> QED
  BY <1>4, <1>10 DEF N

\* A reading repeated is no change, another one is.
LEMMA ChangesAppend ==
    ASSUME NEW h \in Seq(Int), NEW v \in Int
    PROVE  /\ Changes(h) \in Seq(Int)
           /\ h = <<>> => Changes(Append(h, v)) = <<>> /\ Changes(h) = <<>>
           /\ h # <<>> => Changes(Append(h, v)) = IF v # h[Len(h)] THEN Append(Changes(h), v - h[Len(h)]) ELSE Changes(h)
<1> DEFINE t == Append(h, v)
           N == Len(h)
<1>1. N \in Nat /\ t \in Seq(Int) /\ Len(t) = N + 1 /\ t[N + 1] = v /\ \A n \in 1..N : t[n] = h[n]
  BY LenProperties, AppendProperties
<1>e. h = <<>> <=> N = 0
  BY EmptySeq
<1> HIDE DEF t
<1>2. PICK f : Turns(f, N, Seq(Int), <<>>, ChangeTurns(h)) /\ Changes(h) = f[N]
  BY ChangesTurns
<1>3. PICK g : Turns(g, N + 1, Seq(Int), <<>>, ChangeTurns(t)) /\ Changes(t) = g[N + 1]
  BY <1>1, ChangesTurns
<1>4. \A n \in 0..N : f[n] = g[n]
  <2>1. ASSUME NEW n \in 1..N, NEW x \in Seq(Int) PROVE ChangeTurns(h)[n][x] = ChangeTurns(t)[n][x]
    <3>1. n \in 1..Len(t) /\ (n < 2 \/ n - 1 \in 1..N)
      BY <1>1
    <3>2. ChangeTurns(h)[n][x] = ChangeTurn(h, n, x) /\ ChangeTurns(t)[n][x] = ChangeTurn(t, n, x)
      BY <1>1, <3>1, ChangeTurnIs
    <3> QED
      BY <1>1, <3>1, <3>2 DEF ChangeTurn
  <2>2. N + 1 \in Nat /\ N <= N + 1
    BY <1>1
  <2> HIDE DEF N
  <2> QED
    BY <1>1, <1>2, <1>3, <2>1, <2>2, SameTurns
<1>5. Changes(h) \in Seq(Int) /\ g[N] = Changes(h)
  <2>1. N \in 0..N
    BY <1>1
  <2> QED
    BY <1>2, <1>4, <2>1 DEF Turns
<1>6. Changes(t) = ChangeTurn(t, N + 1, Changes(h))
  <2>1. N + 1 \in 1..(N + 1) /\ N + 1 \in 1..Len(t) /\ (N + 1) - 1 = N
    BY <1>1
  <2>2. g[N + 1] = ChangeTurns(t)[N + 1][g[(N + 1) - 1]]
    BY <1>3, <2>1 DEF Turns
  <2>3. g[(N + 1) - 1] = Changes(h)
    BY <1>5, <2>1
  <2>4. ChangeTurns(t)[N + 1][Changes(h)] = ChangeTurn(t, N + 1, Changes(h))
    BY <1>1, <1>5, <2>1, ChangeTurnIs
  <2> QED
    BY <1>3, <2>2, <2>3, <2>4
<1>7. ASSUME N = 0 PROVE Changes(t) = <<>> /\ Changes(h) = <<>>
  BY <1>2, <1>6, <1>7 DEF ChangeTurn, Turns
<1>8. ASSUME N # 0 PROVE Changes(t) = IF v # h[N] THEN Append(Changes(h), v - h[N]) ELSE Changes(h)
  <2>1. ~(N + 1 < 2) /\ (N + 1) - 1 = N /\ t[N] = h[N]
    BY <1>1, <1>8
  <2> QED
    BY <1>1, <1>6, <2>1 DEF ChangeTurn
<1> QED
  BY <1>5, <1>7, <1>8, <1>e DEF t

-----------------------------------------------------------------------------
(* Windows: the last w of a history, and their sums. *)

\* What a window becomes by one more value.
Slid(s, v, w) == Append(IF Len(s) = w THEN Tail(s) ELSE s, v)

LEMMA SlidSeq ==
    ASSUME NEW S, NEW s \in Seq(S), NEW v \in S, NEW w \in Nat \ {0}, Len(s) <= w
    PROVE  Slid(s, v, w) \in Seq(S) /\ (Len(s) = w => s # <<>> /\ Head(s) \in S /\ Tail(s) \in Seq(S))
<1>1. Len(s) = w => s # <<>>
  BY EmptySeq
<1>2. Len(s) = w => Head(s) \in S /\ Tail(s) \in Seq(S)
  BY <1>1, HeadTailProperties
<1> QED
  BY <1>1, <1>2, AppendProperties DEF Slid

LEMMA RecentSlides ==
    ASSUME NEW S, NEW h \in Seq(S), NEW v \in S, NEW w \in Nat \ {0}
    PROVE  /\ Recent(h, w) \in Seq(S) /\ Len(Recent(h, w)) <= w
           /\ Recent(Append(h, v), w) = Slid(Recent(h, w), v, w)
<1> DEFINE t == Append(h, v)
           N == Len(h)
           a == IF N > w THEN N - w + 1 ELSE 1
           b == IF N + 1 > w THEN (N + 1) - w + 1 ELSE 1
           r == SubSeq(h, a, N)
           q == SubSeq(t, b, N + 1)
<1>1. N \in Nat /\ t \in Seq(S) /\ Len(t) = N + 1 /\ t[N + 1] = v /\ \A n \in 1..N : t[n] = h[n] /\ h[n] \in S
  BY LenProperties, AppendProperties, ElementOfSeq
<1>2. Recent(h, w) = r /\ Recent(t, w) = q
  BY <1>1 DEF Recent
<1>3. a \in 1..(N + 1) /\ b \in 1..(N + 1) /\ a \in Int /\ b \in Int /\ (b = a \/ b = a + 1)
  BY <1>1
<1>4. r \in Seq(S) /\ Len(r) = N - a + 1 /\ \A i \in 1..(N - a + 1) : r[i] = h[a + i - 1]
  <2>1. \A i \in a..N : h[i] \in S
    BY <1>1, <1>3
  <2> HIDE DEF a, N
  <2>2. /\ r \in Seq(S) /\ Len(r) = IF a <= N THEN N - a + 1 ELSE 0
        /\ \A i \in 1..(N - a + 1) : r[i] = h[a + i - 1]
    BY <1>1, <1>3, <2>1, SubSeqProperties
  <2> HIDE DEF r
  <2>3. Len(r) = N - a + 1
    BY <1>1, <1>3, <2>2
  <2> QED
    BY <2>2, <2>3
<1>5. q \in Seq(S) /\ Len(q) = N + 1 - b + 1 /\ \A i \in 1..(N + 1 - b + 1) : q[i] = t[b + i - 1]
  <2>0. \A i \in 1..Len(t) : t[i] \in S
    BY <1>1, ElementOfSeq
  <2> HIDE DEF t, b
  <2> DEFINE top == N + 1
  <2>1. top \in Int /\ b \in Int /\ b <= top /\ q = SubSeq(t, b, top) /\ \A i \in b..top : t[i] \in S
    BY <1>1, <1>3, <2>0
  <2> HIDE DEF q, top
  <2>2. /\ q \in Seq(S) /\ Len(q) = IF b <= top THEN top - b + 1 ELSE 0
        /\ \A i \in 1..(top - b + 1) : q[i] = t[b + i - 1]
    BY <2>1, SubSeqProperties
  <2> QED
    BY <2>1, <2>2 DEF top
<1>6. Len(r) <= w /\ (Len(r) = w <=> b = a + 1) /\ Len(r) \in Nat
  BY <1>1, <1>3, <1>4
<1>7. q = Slid(r, v, w)
  <2> HIDE DEF a, b, r, q, t, N
  <2> DEFINE z == IF Len(r) = w THEN Tail(r) ELSE r
  <2>1. z \in Seq(S) /\ Len(z) = N + 1 - b /\ \A i \in 1..Len(z) : z[i] = h[b + i - 1]
    <3>1. CASE Len(r) = w
      <4>1. r # <<>>
        BY <3>1, EmptySeq
      <4>0. z = Tail(r)
        BY <3>1
      <4>2. z \in Seq(S) /\ Len(z) = Len(r) - 1 /\ \A i \in 1..Len(z) : z[i] = r[i + 1]
        <5> HIDE DEF z
        <5> QED
          BY <1>4, <4>0, <4>1, HeadTailProperties
      <4>3. b = a + 1
        BY <1>6, <3>1
      <4>4. Len(z) = N + 1 - b
        BY <1>1, <1>3, <1>4, <4>2, <4>3
      <4>5. ASSUME NEW i \in 1..Len(z) PROVE z[i] = h[b + i - 1]
        <5>1. i + 1 \in 1..(N - a + 1) /\ a + (i + 1) - 1 = b + i - 1
          BY <1>1, <1>3, <4>3, <4>4
        <5> HIDE DEF z
        <5> QED
          BY <1>4, <4>2, <5>1
      <4> HIDE DEF z
      <4> QED
        BY <4>2, <4>4, <4>5
    <3>2. CASE Len(r) # w
      <4>1. b = a /\ z = r
        BY <1>3, <1>6, <3>2
      <4> HIDE DEF z
      <4>2. Len(z) = N + 1 - b
        BY <1>1, <1>3, <1>4, <4>1
      <4>3. ASSUME NEW i \in 1..Len(z) PROVE z[i] = h[b + i - 1]
        <5>1. i \in 1..(N - a + 1)
          BY <1>4, <4>1
        <5> QED
          BY <1>4, <4>1, <5>1
      <4> QED
        BY <1>4, <4>1, <4>2, <4>3
    <3> QED
      BY <3>1, <3>2
  <2>2. Slid(r, v, w) = Append(z, v)
    BY DEF Slid
  <2> HIDE DEF z
  <2> DEFINE y == Append(z, v)
  <2>3. /\ y \in Seq(S) /\ Len(y) = N + 1 - b + 1 /\ y[N + 1 - b + 1] = v
        /\ \A i \in 1..(N + 1 - b) : y[i] = h[b + i - 1]
    BY <2>1, AppendProperties, SMTT(30)
  <2> HIDE DEF y
  <2>4. \A i \in 1..(N + 1 - b + 1) : q[i] = y[i]
    <3> TAKE i \in 1..(N + 1 - b + 1)
    <3>1. q[i] = t[b + i - 1]
      BY <1>5
    <3>2. CASE i = N + 1 - b + 1
      <4>1. b + i - 1 = N + 1
        BY <1>1, <1>3, <3>2
      <4> QED
        BY <1>1, <2>3, <3>1, <3>2, <4>1
    <3>3. CASE i # N + 1 - b + 1
      <4>1. i \in 1..(N + 1 - b) /\ b + i - 1 \in 1..N
        BY <1>1, <1>3, <3>3
      <4> QED
        BY <1>1, <2>3, <3>1, <4>1
    <3> QED
      BY <3>2, <3>3
  <2>5. q \in [1..(N + 1 - b + 1) -> S] /\ y \in [1..(N + 1 - b + 1) -> S]
    BY <1>5, <2>3, LenProperties
  <2>6. q = y
    <3> DEFINE top == N + 1 - b + 1
    <3>1. q = [i \in 1..top |-> q[i]] /\ y = [i \in 1..top |-> y[i]]
      BY <2>5
    <3>2. \A i \in 1..top : q[i] = y[i]
      BY <2>4
    <3> HIDE DEF top
    <3> QED
      BY <3>1, <3>2
  <2> QED
    BY <2>2, <2>6 DEF y
<1> QED
  BY <1>2, <1>4, <1>6, <1>7

\* A window of which something is summed: its values, their squares, a side's sizes.
Mapped(op, s) == [i \in DOMAIN s |-> op[s[i]]]

MapsAlong(S, op, s, v) ==
    /\ Mapped(op, s) \in Seq(Int) /\ Len(Mapped(op, s)) = Len(s)
    /\ Mapped(op, Append(s, v)) = Append(Mapped(op, s), op[v])
    /\ s # <<>> => /\ Mapped(op, Tail(s)) = Tail(Mapped(op, s))
                   /\ Head(Mapped(op, s)) = op[Head(s)] /\ Mapped(op, s) # <<>>

LEMMA MappedSlides ==
    ASSUME NEW S, NEW op \in [S -> Int], NEW s \in Seq(S), NEW v \in S
    PROVE  MapsAlong(S, op, s, v)
<1> DEFINE N == Len(s)
           m == Mapped(op, s)
<1>1. N \in Nat /\ DOMAIN s = 1..N /\ \A i \in 1..N : s[i] \in S /\ op[s[i]] \in Int
  BY LenProperties, ElementOfSeq
<1>2. m \in [1..N -> Int] /\ \A i \in 1..N : m[i] = op[s[i]]
  BY <1>1 DEF Mapped
<1>3. m \in Seq(Int) /\ Len(m) = N
  <2>1. m \in Seq(Int)
    <3> HIDE DEF m, N
    <3> QED
      BY <1>1, <1>2, IsASeq
  <2>2. DOMAIN m = 1..Len(m) /\ Len(m) \in Nat
    BY <2>1, LenProperties
  <2>3. DOMAIN m = 1..N
    BY <1>2
  <2> HIDE DEF m, N
  <2>4. \A i \in Nat \ {0} : i <= N <=> i <= Len(m)
    <3>1. \A i \in Nat \ {0} : (i \in 1..N <=> i <= N) /\ (i \in 1..Len(m) <=> i <= Len(m))
      BY <1>1, <2>2
    <3> QED
      BY <2>2, <2>3, <3>1
  <2>5. N = Len(m)
    <3>1. N = 0 \/ N <= Len(m)
      BY <1>1, <2>4
    <3>2. Len(m) = 0 \/ Len(m) <= N
      BY <2>2, <2>4
    <3>3. N \in Nat /\ Len(m) \in Nat
      BY <1>1, <2>2
    <3> QED
      BY <3>1, <3>2, <3>3
  <2> QED
    BY <2>1, <2>5
<1>4. Mapped(op, Append(s, v)) = Append(m, op[v])
  <2> DEFINE t == Append(s, v)
             y == Append(m, op[v])
             x == Mapped(op, t)
  <2>1. t \in Seq(S) /\ Len(t) = N + 1 /\ t[N + 1] = v /\ \A i \in 1..N : t[i] = s[i]
    BY AppendProperties
  <2>2. op[v] \in Int
    OBVIOUS
  <2>3. y \in Seq(Int) /\ Len(y) = N + 1 /\ y[N + 1] = op[v] /\ \A i \in 1..N : y[i] = m[i]
    <3> HIDE DEF m, N
    <3> QED
      BY <1>3, <2>2, AppendProperties
  <2>4. DOMAIN t = 1..(N + 1)
    BY <2>1, LenProperties
  <2>5. x = [i \in 1..(N + 1) |-> op[t[i]]]
    BY <2>4 DEF Mapped
  <2>6. y = [i \in 1..(N + 1) |-> y[i]]
    BY <2>3, LenProperties
  <2>7. \A i \in 1..(N + 1) : y[i] = op[t[i]]
    <3> TAKE i \in 1..(N + 1)
    <3>1. i = N + 1 \/ i \in 1..N
      BY <1>1
    <3> HIDE DEF t, y, x, m, N
    <3> QED
      BY <1>2, <2>1, <2>3, <3>1
  <2> HIDE DEF t, y, x, m, N
  <2>8. x = y
    BY <2>5, <2>6, <2>7
  <2> QED
    BY <2>8 DEF x, y, t
<1>5. ASSUME s # <<>>
      PROVE  Mapped(op, Tail(s)) = Tail(m) /\ Head(m) = op[Head(s)] /\ m # <<>>
  <2> DEFINE t == Tail(s)
             y == Tail(m)
             x == Mapped(op, t)
  <2>0. N # 0
    BY <1>5, EmptySeq
  <2>1. t \in Seq(S) /\ Len(t) = N - 1 /\ \A i \in 1..(N - 1) : t[i] = s[i + 1]
    BY <1>5, HeadTailProperties
  <2>2. m # <<>>
    <3> HIDE DEF m, N
    <3> QED
      BY <1>3, <2>0, EmptySeq
  <2>3. y \in Seq(Int) /\ Len(y) = N - 1 /\ \A i \in 1..(N - 1) : y[i] = m[i + 1]
    <3> HIDE DEF m, N
    <3> QED
      BY <1>3, <2>2, HeadTailProperties
  <2>4. DOMAIN t = 1..(N - 1) /\ DOMAIN y = 1..(N - 1)
    BY <2>1, <2>3, LenProperties
  <2>5. x = [i \in 1..(N - 1) |-> op[t[i]]]
    BY <2>4 DEF Mapped
  <2>6. y = [i \in 1..(N - 1) |-> y[i]]
    BY <2>3, LenProperties
  <2>7. \A i \in 1..(N - 1) : y[i] = op[t[i]]
    <3> TAKE i \in 1..(N - 1)
    <3>1. i + 1 \in 1..N
      BY <1>1
    <3> HIDE DEF t, y, x, m, N
    <3> QED
      BY <1>2, <2>1, <2>3, <3>1
  <2>8. Head(m) = m[1] /\ Head(s) = s[1] /\ 1 \in 1..N
    BY <1>1, <2>0
  <2>9. Head(m) = op[Head(s)]
    <3> HIDE DEF m, N
    <3> QED
      BY <1>2, <2>8
  <2> HIDE DEF t, y, x, m, N
  <2>10. x = y
    BY <2>5, <2>6, <2>7
  <2> QED
    BY <2>2, <2>9, <2>10 DEF x, y, t
<1> HIDE DEF m, N
<1> QED
  BY <1>3, <1>4, <1>5 DEF m, N, MapsAlong

\* What a running sum becomes when its window moves on.
SumAfter(op, s, v, w) == Total(Mapped(op, s)) - (IF Len(s) = w THEN op[Head(s)] ELSE 0) + op[v]

\* A running sum stays the sum of its window.
SumsAlong(S, op, s, v, w) ==
    Total(Mapped(op, s)) \in Int /\ Total(Mapped(op, Slid(s, v, w))) = SumAfter(op, s, v, w)

LEMMA SumSlides ==
    ASSUME NEW S, NEW op \in [S -> Int], NEW s \in Seq(S), NEW v \in S, NEW w \in Nat \ {0}, Len(s) <= w
    PROVE  SumsAlong(S, op, s, v, w)
<1> DEFINE z == IF Len(s) = w THEN Tail(s) ELSE s
           out == IF Len(s) = w THEN op[Head(s)] ELSE 0
           m == Mapped(op, s)
<1>1. z \in Seq(S) /\ Slid(s, v, w) = Append(z, v) /\ (Len(s) = w => s # <<>> /\ Head(s) \in S)
  BY SlidSeq DEF Slid
<1>0. MapsAlong(S, op, s, v) /\ MapsAlong(S, op, z, v)
  <2>1. z \in Seq(S)
    BY <1>1
  <2> HIDE DEF z
  <2> QED
    BY <2>1, MappedSlides, Zenon
<1>2. m \in Seq(Int) /\ op[v] \in Int /\ out \in Int
  BY <1>0, <1>1 DEF MapsAlong
<1>3. Total(m) \in Int /\ Total(Mapped(op, z)) = Total(m) - out
  <2>1. Total(m) \in Int
    BY <1>2, TotalAppend, 0 \in Int
  <2>2. CASE Len(s) = w
    <3>0. z = Tail(s) /\ out = op[Head(s)] /\ s # <<>>
      BY <1>1, <2>2
    <3>1. Mapped(op, z) = Tail(m) /\ Head(m) = out /\ m # <<>>
      <4> HIDE DEF z, out
      <4> QED
        BY <1>0, <3>0 DEF MapsAlong
    <3> HIDE DEF m, out, z
    <3> QED
      BY <1>2, <3>1, TotalTail
  <2>3. CASE Len(s) # w
    <3>1. Mapped(op, z) = m /\ out = 0
      BY <2>3
    <3> HIDE DEF m, out, z
    <3> QED
      BY <2>1, <3>1
  <2> QED
    BY <2>1, <2>2, <2>3
<1>4. Mapped(op, z) \in Seq(Int) /\ Mapped(op, Append(z, v)) = Append(Mapped(op, z), op[v])
  <2> HIDE DEF z
  <2> QED
    BY <1>0 DEF MapsAlong
<1> HIDE DEF z, out, m
<1>5. Total(Mapped(op, Slid(s, v, w))) = Total(Mapped(op, z)) + op[v]
  BY <1>1, <1>2, <1>4, TotalAppend
<1> QED
  BY <1>3, <1>5 DEF m, out, SumAfter, SumsAlong

-----------------------------------------------------------------------------
(* The running statistics. *)

\* A side's sums.
Bought == [p \in [buy : Int, sell : Int] |-> p.buy]
Sold   == [p \in [buy : Int, sell : Int] |-> p.sell]
Itself  == [x \in Int |-> x]
Squared == [x \in Int |-> x * x]

LEMMA StatsTotals ==
    ASSUME NEW s \in Seq(Int)
    PROVE  StatsOf(s) = [values |-> s, sum |-> Total(Mapped(Itself, s)), sq |-> Total(Mapped(Squared, s))]
<1>1. DOMAIN s = 1..Len(s) /\ \A i \in 1..Len(s) : s[i] \in Int
  BY LenProperties, ElementOfSeq
<1>2. Mapped(Itself, s) = s
  <2>1. Mapped(Itself, s) = [i \in DOMAIN s |-> s[i]]
    BY <1>1 DEF Mapped, Itself
  <2>2. s = [i \in DOMAIN s |-> s[i]]
    BY LenProperties
  <2> QED
    BY <2>1, <2>2
<1>3. Mapped(Squared, s) = [i \in DOMAIN s |-> s[i] * s[i]]
  BY <1>1 DEF Mapped, Squared
<1> QED
  BY <1>2, <1>3 DEF StatsOf

\* RollingStats, whatever was observed before: its sums are those of its window.
LEMMA UpdatedIsRecent ==
    ASSUME NEW h \in Seq(Int), NEW v \in Int, NEW w \in Nat \ {0}
    PROVE  Updated(StatsOf(Recent(h, w)), v, w) = StatsOf(Recent(Append(h, v), w))
<1> DEFINE s == Recent(h, w)
           t == Slid(s, v, w)
           out == IF Len(s) = w THEN Head(s) ELSE 0
           a == Total(Mapped(Itself, s))
           b == Total(Mapped(Squared, s))
           st == [values |-> s, sum |-> a, sq |-> b]
<1>1. s \in Seq(Int) /\ Len(s) <= w /\ Recent(Append(h, v), w) = t
  BY RecentSlides
<1>2. t \in Seq(Int) /\ out \in Int /\ (Len(s) = w => Head(s) \in Int)
  <2> HIDE DEF s
  <2>1. Slid(s, v, w) \in Seq(Int) /\ (Len(s) = w => Head(s) \in Int)
    BY <1>1, SlidSeq
  <2> QED
    BY <2>1
<1>3. Itself \in [Int -> Int] /\ Squared \in [Int -> Int] /\ \A x \in Int : Itself[x] = x /\ Squared[x] = x * x
  BY DEF Itself, Squared
<1>4. /\ a \in Int /\ Total(Mapped(Itself, t)) = a - out + v
      /\ b \in Int /\ Total(Mapped(Squared, t)) = b - out * out + v * v
  <2> HIDE DEF s
  <2>0. ASSUME NEW op \in [Int -> Int]
        PROVE  Total(Mapped(op, s)) \in Int /\ Total(Mapped(op, Slid(s, v, w))) = SumAfter(op, s, v, w)
    <3>1. s \in Seq(Int) /\ Len(s) <= w
      BY <1>1
    <3>2. SumsAlong(Int, op, s, v, w)
      BY <3>1, SumSlides, Zenon
    <3> QED
      BY <3>2 DEF SumsAlong
  <2>1. a \in Int /\ Total(Mapped(Itself, t)) = SumAfter(Itself, s, v, w)
    BY <1>3, <2>0
  <2>2. b \in Int /\ Total(Mapped(Squared, t)) = SumAfter(Squared, s, v, w)
    BY <1>3, <2>0
  <2>3. Itself[v] = v /\ Squared[v] = v * v
    BY <1>3
  <2>4. CASE Len(s) = w
    <3>1. Itself[Head(s)] = out /\ Squared[Head(s)] = out * out
      BY <1>2, <1>3, <2>4
    <3> HIDE DEF out, t
    <3> QED
      BY <2>1, <2>2, <2>3, <2>4, <3>1 DEF SumAfter
  <2>5. CASE Len(s) # w
    <3>1. out = 0 /\ out * out = 0
      BY <2>5
    <3> HIDE DEF out, t
    <3> QED
      BY <2>1, <2>2, <2>3, <2>5, <3>1 DEF SumAfter
  <2> QED
    BY <2>4, <2>5
<1>5. StatsOf(s) = st /\ StatsOf(t) = [values |-> t, sum |-> a - out + v, sq |-> b - out * out + v * v]
  <2>1. StatsOf(s) = st
    BY <1>1, StatsTotals
  <2>2. StatsOf(t) = [values |-> t, sum |-> Total(Mapped(Itself, t)), sq |-> Total(Mapped(Squared, t))]
    BY <1>2, StatsTotals
  <2> HIDE DEF s, t, out, a, b, st
  <2> QED
    BY <1>4, <2>1, <2>2
<1>6. Updated(st, v, w) = [values |-> t, sum |-> a - out + v, sq |-> b - out * out + v * v]
  <2> HIDE DEF s, a, b
  <2>1. st.values = s /\ st.sum = a /\ st.sq = b
    OBVIOUS
  <2> HIDE DEF st
  <2> QED
    BY <2>1 DEF Updated, Slid
<1> HIDE DEF s, t, out, a, b, st
<1>7. Updated(StatsOf(s), v, w) = StatsOf(t)
  BY <1>5, <1>6
<1> QED
  BY <1>1, <1>7 DEF s

\* The last of a history and what came before it.
LEMMA FrontLast ==
    ASSUME NEW S, NEW h \in Seq(S), NEW v \in S
    PROVE  Front(Append(h, v)) = h /\ Last(Append(h, v)) = v /\ Append(h, v) # <<>>
<1> DEFINE t == Append(h, v)
<1>1. t \in Seq(S) /\ Len(t) = Len(h) + 1 /\ t[Len(h) + 1] = v /\ t # <<>> /\ Len(h) \in Nat
      /\ \A i \in 1..Len(h) : t[i] = h[i] /\ h[i] \in S
  BY LenProperties, AppendProperties, ElementOfSeq
<1>2. SubSeq(t, 1, Len(h)) = h
  <2> HIDE DEF t
  <2> DEFINE N == Len(h)
             q == SubSeq(t, 1, N)
  <2>1. \A i \in 1..N : t[i] \in S
    BY <1>1
  <2>2. /\ q \in Seq(S) /\ Len(q) = IF 1 <= N THEN N - 1 + 1 ELSE 0
        /\ \A i \in 1..(N - 1 + 1) : q[i] = t[1 + i - 1]
    <3>1. N \in Int /\ 1 \in Int
      BY <1>1
    <3> HIDE DEF N
    <3> QED
      BY <2>1, <3>1, SubSeqProperties
  <2>3. h = [i \in 1..N |-> h[i]]
    BY LenProperties
  <2>n. N \in Nat /\ \A i \in 1..N : t[i] = h[i]
    BY <1>1
  <2> HIDE DEF q, N
  <2>4. Len(q) = N /\ N - 1 + 1 = N /\ \A i \in 1..N : 1 + i - 1 = i
    BY <2>2, <2>n
  <2>5. q = [i \in 1..N |-> q[i]]
    BY <2>2, <2>4, LenProperties
  <2>6. \A i \in 1..N : q[i] = h[i]
    BY <2>2, <2>4, <2>n
  <2>7. q = h
    BY <2>3, <2>5, <2>6
  <2> QED
    BY <2>7 DEF q, N
<1>3. Front(t) = SubSeq(t, 1, Len(t) - 1) /\ Last(t) = t[Len(t)]
  BY DEF Front, Last
<1>4. Len(t) - 1 = Len(h)
  BY <1>1
<1> HIDE DEF t
<1> QED
  BY <1>1, <1>2, <1>3, <1>4 DEF t

-----------------------------------------------------------------------------
(* The statistics of a coin. *)

TapePrint == [buy : Int, sell : Int]

LEMMA SidesTotals ==
    ASSUME NEW s \in Seq(TapePrint)
    PROVE  /\ [i \in DOMAIN s |-> s[i].buy] = Mapped(Bought, s)
           /\ [i \in DOMAIN s |-> s[i].sell] = Mapped(Sold, s)
<1>1. DOMAIN s = 1..Len(s) /\ \A i \in 1..Len(s) : s[i] \in TapePrint
  BY LenProperties, ElementOfSeq
<1>2. \A i \in DOMAIN s : Bought[s[i]] = s[i].buy /\ Sold[s[i]] = s[i].sell
  BY <1>1 DEF Bought, Sold, TapePrint
<1> QED
  BY <1>2 DEF Mapped

\* The inductive invariant: the properties, and what the ghosts are.
StatsInv ==
    /\ readings \in Seq(Int) /\ closes \in Seq(Int) /\ prints \in Seq(TapePrint)
    /\ prev = IF readings = <<>> THEN None ELSE readings[Len(readings)]
    /\ readings # <<>> => prev # None
    /\ SumsExact /\ VetoExact /\ DirectionJustified

LEMMA WindowsAreSizes == OiWindow \in Nat \ {0} /\ RetWindow \in Nat \ {0} /\ FlowWindow \in Nat \ {0}
BY MicrostructureAssumption DEF MicrostructureAssumption

LEMMA StatsInitInv == StatsInit => StatsInv
<1> SUFFICES ASSUME StatsInit PROVE StatsInv
  OBVIOUS
<1>1. readings = <<>> /\ closes = <<>> /\ prints = <<>> /\ prev = None /\ ~expanding /\ verdict = "none"
  BY DEF StatsInit
<1>2. <<>> \in Seq(Int) /\ <<>> \in Seq(TapePrint) /\ Len(<<>>) = 0 /\ DOMAIN <<>> = 1..0 /\ 1..0 = {}
  BY EmptySeq, LenProperties
<1>3. ASSUME NEW w \in Nat \ {0} PROVE Recent(<<>>, w) = <<>>
  <2>1. ~(0 > w) /\ SubSeq(<<>>, 1, 0) = <<>>
    BY SubSeqEmpty
  <2> QED
    BY <1>2, <2>1 DEF Recent
<1>4. /\ Recent(<<>>, OiWindow) = <<>> /\ Recent(<<>>, RetWindow) = <<>> /\ Recent(<<>>, FlowWindow) = <<>>
  BY <1>3, WindowsAreSizes
<1>5. Changes(<<>>) = <<>>
  BY <1>2, ChangesAppend, 0 \in Int
<1>6. \A op : Mapped(op, <<>>) = <<>>
  BY <1>2 DEF Mapped
<1>7. Total(<<>>) = 0
  <2>1. PICK f : Sums(f, <<>>) /\ Total(<<>>) = f[Len(<<>>)]
    BY <1>2, TotalSums
  <2> QED
    BY <1>2, <2>1, SumsStep
<1>8. StatsOf(<<>>) = NoStats
  <2>1. StatsOf(<<>>) = [values |-> <<>>, sum |-> Total(Mapped(Itself, <<>>)), sq |-> Total(Mapped(Squared, <<>>))]
    BY <1>2, StatsTotals
  <2> QED
    BY <1>6, <1>7, <2>1 DEF NoStats
<1>9. SumsExact
  <2>1. oi = NoStats /\ rets = NoStats /\ flow = [window |-> <<>>, buys |-> 0, sells |-> 0]
    BY DEF StatsInit
  <2>2. flow.window = <<>> /\ flow.buys = 0 /\ flow.sells = 0
    BY <2>1
  <2>3. /\ [i \in DOMAIN <<>> |-> <<>>[i].buy] = Mapped(Bought, <<>>)
        /\ [i \in DOMAIN <<>> |-> <<>>[i].sell] = Mapped(Sold, <<>>)
    BY <1>2, SidesTotals
  <2> QED
    BY <1>1, <1>4, <1>5, <1>6, <1>7, <1>8, <2>1, <2>2, <2>3 DEF SumsExact
<1>10. VetoExact /\ DirectionJustified
  BY <1>1, <1>5 DEF VetoExact, DirectionJustified
<1> QED
  BY <1>1, <1>2, <1>9, <1>10 DEF StatsInv

\* A report of the open interest.
LEMMA CtxStats ==
    ASSUME StatsInv, NEW reading \in 1..MaxOi, Ctx(reading)
    PROVE  StatsInv'
<1> DEFINE t == Append(readings, reading)
           c == Changes(readings)
           delta == reading - prev
<1>1. reading \in Int /\ reading # None
  BY MicrostructureAssumption DEF MicrostructureAssumption, None
<1>2. /\ prev' = reading /\ readings' = t
      /\ rets' = rets /\ flow' = flow /\ verdict' = verdict /\ closes' = closes /\ prints' = prints
  BY DEF Ctx
<1>3. /\ readings \in Seq(Int) /\ closes \in Seq(Int) /\ prints \in Seq(TapePrint)
      /\ prev = IF readings = <<>> THEN None ELSE readings[Len(readings)]
      /\ (readings # <<>> => prev # None)
  BY DEF StatsInv
<1>4. t \in Seq(Int) /\ t # <<>> /\ t[Len(t)] = reading
  <2>1. t \in Seq(Int) /\ t # <<>> /\ Len(t) = Len(readings) + 1 /\ t[Len(readings) + 1] = reading
    BY <1>1, <1>3, AppendProperties
  <2> HIDE DEF t
  <2> QED
    BY <2>1
<1>5. c \in Seq(Int) /\ prev \in Int
  <2>1. readings # <<>> => readings[Len(readings)] \in Int
    <3>1. readings # <<>> => Len(readings) \in 1..Len(readings)
      BY <1>3, EmptySeq, LenProperties
    <3> QED
      BY <1>3, <3>1, ElementOfSeq
  <2> QED
    BY <1>1, <1>3, <2>1, ChangesAppend, 0 \in Int DEF None
<1>6. CASE prev = None \/ delta = 0
  <2>1. Changes(t) = c
    <3>1. readings = <<>> \/ (readings # <<>> /\ reading = readings[Len(readings)])
      <4>1. readings # <<>> => prev # None /\ prev = readings[Len(readings)]
        BY <1>3
      <4>2. delta = 0 => reading = prev
        BY <1>1, <1>5
      <4> HIDE DEF delta
      <4> QED
        BY <1>6, <4>1, <4>2
    <3> QED
      BY <1>1, <1>3, <3>1, ChangesAppend
  <2>2. oi' = oi /\ expanding' = expanding
    BY <1>6 DEF Ctx
  <2> HIDE DEF t, c, delta
  <2>3. SumsExact'
    BY <1>2, <2>1, <2>2 DEF StatsInv, SumsExact, c
  <2>4. VetoExact'
    BY <1>2, <2>1, <2>2 DEF StatsInv, VetoExact, c
  <2>5. DirectionJustified'
    BY <1>2 DEF StatsInv, DirectionJustified
  <2> QED
    BY <1>1, <1>2, <1>3, <1>4, <2>3, <2>4, <2>5 DEF StatsInv
<1>7. CASE prev # None /\ delta # 0
  <2>1. Changes(t) = Append(c, delta) /\ delta \in Int
    <3>1. readings # <<>> /\ prev = readings[Len(readings)] /\ reading # prev
      BY <1>1, <1>3, <1>5, <1>7
    <3> QED
      BY <1>1, <1>3, <1>5, <3>1, ChangesAppend
  <2>2. oi' = Updated(oi, delta, OiWindow) /\ expanding' = AtLeast(oi, delta, OiDrop, OiClamp)
    BY <1>7 DEF Ctx
  <2> HIDE DEF t, c, delta
  <2>3. oi = StatsOf(Recent(c, OiWindow))
    BY DEF StatsInv, SumsExact, c
  <2>4. oi' = StatsOf(Recent(Append(c, delta), OiWindow))
    BY <1>5, <2>1, <2>2, <2>3, WindowsAreSizes, UpdatedIsRecent
  <2>5. SumsExact'
    BY <1>2, <2>1, <2>4 DEF StatsInv, SumsExact
  <2>6. Front(Append(c, delta)) = c /\ Last(Append(c, delta)) = delta /\ Append(c, delta) # <<>>
    BY <1>5, <2>1, FrontLast
  <2>7. VetoExact'
    BY <1>2, <2>1, <2>2, <2>3, <2>6 DEF VetoExact
  <2>8. DirectionJustified'
    BY <1>2 DEF StatsInv, DirectionJustified
  <2> QED
    BY <1>1, <1>2, <1>3, <1>4, <2>5, <2>7, <2>8 DEF StatsInv
<1> QED
  BY <1>6, <1>7

\* A trade.
LEMMA TradeStats ==
    ASSUME StatsInv, NEW side \in Sides, NEW size \in Nat, Trade(side, size)
    PROVE  StatsInv'
<1> DEFINE s == flow.window
           w == FlowWindow
           in == [buy |-> IF side = "buy" THEN size ELSE 0, sell |-> IF side = "sell" THEN size ELSE 0]
           out == IF Len(s) = w THEN Head(s) ELSE [buy |-> 0, sell |-> 0]
           t == Slid(s, in, w)
<1>1. /\ flow' = [window |-> t, buys |-> flow.buys - out.buy + in.buy, sells |-> flow.sells - out.sell + in.sell]
      /\ prints' = Append(prints, in)
      /\ UNCHANGED <<prev, oi, rets, expanding, verdict, readings, closes>>
  BY DEF Trade, Slid
<1>2. in \in TapePrint /\ in.buy = Bought[in] /\ in.sell = Sold[in]
  BY DEF TapePrint, Bought, Sold
<1>3. s = Recent(prints, w) /\ prints \in Seq(TapePrint)
      /\ flow.buys = Total([i \in DOMAIN s |-> s[i].buy]) /\ flow.sells = Total([i \in DOMAIN s |-> s[i].sell])
  BY DEF StatsInv, SumsExact
<1>4. w \in Nat \ {0}
  BY WindowsAreSizes
<1>5. Bought \in [TapePrint -> Int] /\ Sold \in [TapePrint -> Int] /\ \A p \in TapePrint : Bought[p] = p.buy /\ Sold[p] = p.sell
  BY DEF Bought, Sold, TapePrint
<1> HIDE DEF in, w
<1>6. s \in Seq(TapePrint) /\ Len(s) <= w /\ Recent(Append(prints, in), w) = Slid(s, in, w)
  BY <1>2, <1>3, <1>4, RecentSlides
<1>7. t \in Seq(TapePrint) /\ (Len(s) = w => Head(s) \in TapePrint)
  <2> HIDE DEF s
  <2>1. Slid(s, in, w) \in Seq(TapePrint) /\ (Len(s) = w => Head(s) \in TapePrint)
    BY <1>2, <1>4, <1>6, SlidSeq
  <2> QED
    BY <2>1
<1> HIDE DEF s
<1>8. ASSUME NEW op \in [TapePrint -> Int]
      PROVE  Total(Mapped(op, s)) \in Int /\ Total(Mapped(op, Slid(s, in, w))) = SumAfter(op, s, in, w)
  <2> HIDE DEF t, out
  <2>1. SumsAlong(TapePrint, op, s, in, w)
    BY <1>2, <1>4, <1>6, SumSlides, Zenon
  <2> QED
    BY <2>1 DEF SumsAlong
<1>9. /\ flow.buys = Total(Mapped(Bought, s)) /\ flow.sells = Total(Mapped(Sold, s))
      /\ [i \in DOMAIN t |-> t[i].buy] = Mapped(Bought, t) /\ [i \in DOMAIN t |-> t[i].sell] = Mapped(Sold, t)
  <2>1. flow.buys = Total(Mapped(Bought, s)) /\ flow.sells = Total(Mapped(Sold, s))
    BY <1>3, <1>6, SidesTotals
  <2> HIDE DEF t
  <2> QED
    BY <1>7, <2>1, SidesTotals
<1>10. /\ SumAfter(Bought, s, in, w) = flow.buys - out.buy + in.buy
       /\ SumAfter(Sold, s, in, w) = flow.sells - out.sell + in.sell
  <2>1. (IF Len(s) = w THEN Bought[Head(s)] ELSE 0) = out.buy /\ (IF Len(s) = w THEN Sold[Head(s)] ELSE 0) = out.sell
    BY <1>5, <1>7
  <2> HIDE DEF out, t
  <2> QED
    BY <1>2, <1>9, <2>1 DEF SumAfter
<1>11. /\ flow'.window = t /\ flow'.buys = Total(Mapped(Bought, t)) /\ flow'.sells = Total(Mapped(Sold, t))
  <2>1. flow'.window = t /\ flow'.buys = flow.buys - out.buy + in.buy /\ flow'.sells = flow.sells - out.sell + in.sell
    BY <1>1
  <2> HIDE DEF out
  <2> QED
    BY <1>5, <1>8, <1>10, <2>1
<1>12. SumsExact'
  <2>1. flow'.window = Recent(prints', w)
    BY <1>1, <1>6, <1>11
  <2>2. oi' = oi /\ rets' = rets /\ readings' = readings /\ closes' = closes
    BY <1>1
  <2> HIDE DEF t, out
  <2> QED
    BY <1>9, <1>11, <2>1, <2>2 DEF StatsInv, SumsExact, w
<1>13. VetoExact' /\ DirectionJustified'
  BY <1>1 DEF StatsInv, VetoExact, DirectionJustified
<1>14. prints' \in Seq(TapePrint)
  BY <1>1, <1>2, <1>3, AppendProperties
<1> QED
  BY <1>1, <1>12, <1>13, <1>14 DEF StatsInv

\* A bar's return.
LEMMA BarStats ==
    ASSUME StatsInv, NEW ret \in Int, Bar(ret)
    PROVE  StatsInv'
<1> DEFINE t == Append(closes, ret)
<1>1. /\ verdict' = Direction(ret) /\ rets' = Updated(rets, ret, RetWindow) /\ closes' = t
      /\ UNCHANGED <<prev, oi, expanding, flow, readings, prints>>
  BY DEF Bar
<1>2. closes \in Seq(Int) /\ rets = StatsOf(Recent(closes, RetWindow))
  BY DEF StatsInv, SumsExact
<1>3. t \in Seq(Int) /\ Front(t) = closes /\ Last(t) = ret /\ t # <<>>
  BY <1>2, AppendProperties, FrontLast
<1>4. rets' = StatsOf(Recent(t, RetWindow))
  BY <1>1, <1>2, WindowsAreSizes, UpdatedIsRecent
<1> HIDE DEF t
<1>5. SumsExact'
  BY <1>1, <1>4 DEF StatsInv, SumsExact
<1>6. VetoExact'
  BY <1>1 DEF StatsInv, VetoExact
<1>7. DirectionJustified'
  <2> SUFFICES ASSUME Direction(ret) # "none"
               PROVE  /\ ret >= RetMin \/ ret <= -RetMin
                      /\ IF Direction(ret) = "up" THEN AtLeast(rets, ret, RetEntry, RetClamp)
                         ELSE AtMost(rets, ret, RetEntry, RetClamp)
                      /\ RetReject > 0 => /\ ~AtLeast(rets, ret, RetReject, RetClamp)
                                          /\ ~AtMost(rets, ret, RetReject, RetClamp)
    BY <1>1, <1>2, <1>3 DEF DirectionJustified
  <2>1. /\ ret >= RetMin \/ ret <= -RetMin
        /\ ~(RetReject > 0 /\ (AtLeast(rets, ret, RetReject, RetClamp) \/ AtMost(rets, ret, RetReject, RetClamp)))
        /\ Direction(ret) = Classified(ret)
    BY DEF Direction
  <2>2. IF Direction(ret) = "up" THEN AtLeast(rets, ret, RetEntry, RetClamp) ELSE AtMost(rets, ret, RetEntry, RetClamp)
    BY <2>1 DEF Classified
  <2> QED
    BY <2>1, <2>2
<1> QED
  BY <1>1, <1>3, <1>5, <1>6, <1>7 DEF StatsInv

LEMMA StatsStepInv == StatsInv /\ [StatsNext]_stats => StatsInv'
<1> SUFFICES ASSUME StatsInv, [StatsNext]_stats PROVE StatsInv'
  OBVIOUS
<1>1. CASE \E reading \in 1..MaxOi : Ctx(reading)
  BY <1>1, CtxStats
<1>2. CASE \E side \in Sides, size \in PrintSizes : Trade(side, size)
  <2>1. PrintSizes \subseteq Nat
    BY MicrostructureAssumption DEF MicrostructureAssumption
  <2> QED
    BY <1>2, <2>1, TradeStats
<1>3. CASE \E ret \in (-MaxRet)..MaxRet : Bar(ret)
  <2>1. (-MaxRet)..MaxRet \subseteq Int
    OBVIOUS
  <2> QED
    BY <1>3, <2>1, BarStats
<1>4. CASE UNCHANGED stats
  BY <1>4 DEF stats, StatsInv, SumsExact, VetoExact, DirectionJustified
<1> QED
  BY <1>1, <1>2, <1>3, <1>4 DEF StatsNext

\* The statistics of a coin are those of its history's last window, after any
\* number of observations and evictions, and so is what is decided on them.
THEOREM WindowsAreExact == StatsSpec => []WindowsExact
<1>1. StatsInv => WindowsExact
  BY DEF StatsInv, WindowsExact
<1> QED
  BY <1>1, StatsInitInv, StatsStepInv, PTL DEF StatsSpec

=============================================================================
