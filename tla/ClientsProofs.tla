----------------------------- MODULE ClientsProofs -----------------------------
(***************************************************************************)
(* OrdersCovered of Clients, for every set of coins, every collateral and  *)
(* every setting of risk, leverage and confidence: no order under another  *)
(* leverage than the settings', unless the exchange refused it, and none   *)
(* that ties up too much.  And OnceEach, for any number of commands: a     *)
(* process answers them in order and none twice.                           *)
(*                                                                         *)
(* Two tasks share the cache _leverage_applied, with a request between the *)
(* look at it and the mark in it.  What holds at every await is that the   *)
(* cache knows no more than the exchange has been told (Told), and that a  *)
(* task that awaits an order has found or put its coin there (Ready).      *)
(***************************************************************************)
EXTENDS Clients, SequenceTheorems, WellFoundedInduction, TLAPS

-----------------------------------------------------------------------------
(* The size of an entry. *)

\* Whatever part confidence leaves, an entry's margin is below the gate.
LEMMA SizeBelowGate ==
    ASSUME NEW free \in Int, NEW factor \in 0..100, risk \in Nat
    PROVE  LET margin == R!Scaled(R!Allocated(free), factor)
           IN  margin \in Nat /\ (margin > 0 => margin <= free * 95)
<1> DEFINE full == R!Allocated(free)
           margin == R!Scaled(full, factor)
<1>1. full \in Nat /\ (full > 0 => full <= free * 95)
  <2>1. CASE full = 0
    BY <2>1
  <2>2. CASE full # 0
    <3>1. full = free * risk /\ free > 0 /\ risk < 95 /\ risk > 0
      BY <2>2 DEF R!Allocated
    <3>2. free * risk <= free * 95 /\ free * risk \in Nat
      BY <3>1
    <3> QED
      BY <3>1, <3>2
  <2> QED
    BY <2>1, <2>2
<1> HIDE DEF full
<1>2. full * factor \in Nat /\ full * factor <= full * 100
  BY <1>1
<1>3. (full * factor) \div 100 \in Nat /\ (full * factor) \div 100 <= full
  <2> DEFINE x == full * factor
  <2>1. x \in Nat /\ x <= full * 100
    BY <1>2
  <2> HIDE DEF x
  <2>2. x \div 100 \in Nat /\ x \div 100 <= full
    BY <1>1, <2>1
  <2> QED
    BY <2>2 DEF x
<1>4. margin \in Nat /\ margin <= full
  BY <1>3 DEF R!Scaled
<1> HIDE DEF margin
<1>5. margin > 0 => margin <= free * 95
  BY <1>1, <1>4
<1> QED
  BY <1>4, <1>5 DEF margin, full

-----------------------------------------------------------------------------
(* The invariant. *)

Sent    == {"leverage", "order"}
Pending == [await : Sent, coin : Coins, margin : Nat, free : Int]
Asking  == [await : {"account"}, coin : Coins]

Calls ==
    /\ dry \in BOOLEAN /\ risk \in Nat
    /\ calls \in [R!Tasks -> {R!Idle} \cup Asking \cup Pending]
    /\ dry => \A t \in R!Tasks : calls[t].await \notin Sent
    /\ \A t \in R!Tasks : calls[t].await \in Sent => calls[t].margin <= calls[t].free * 95

\* The cache knows no more than the exchange was told, and has answered.
Told == ~dry => applied \subseteq lever \cup refused

Ready == \A t \in R!Tasks : calls[t].await = "order" => calls[t].coin \in applied

OrdersInv == Calls /\ Told /\ Ready /\ OrdersCovered

\* A task's call and how it changes.
LEMMA CallKinds ==
    ASSUME Calls, NEW t \in R!Tasks
    PROVE  /\ calls[t].await \in Sent => calls[t] \in Pending
           /\ calls[t].await = "account" => calls[t] \in Asking
<1>1. calls[t] \in {R!Idle} \cup Asking \cup Pending
  BY DEF Calls
<1> QED
  BY <1>1 DEF R!Idle, Asking, Pending, Sent

\* A task's call is replaced: by one that is not sent, or by an order that the
\* cache allows.
LEMMA CallReplaced ==
    ASSUME Calls, Ready, NEW t \in R!Tasks, NEW call \in {R!Idle} \cup Asking \cup Pending,
           call.await \in Sent => ~dry /\ call.margin <= call.free * 95,
           call.await = "order" => call.coin \in applied',
           calls' = [calls EXCEPT ![t] = call], UNCHANGED <<dry, risk>>,
           applied \subseteq applied'
    PROVE  Calls' /\ Ready'
<1>1. \A u \in R!Tasks : calls'[u] = IF u = t THEN call ELSE calls[u]
  BY DEF Calls
<1>2. calls' \in [R!Tasks -> {R!Idle} \cup Asking \cup Pending]
  BY DEF Calls
<1>3. dry' \in BOOLEAN /\ risk' \in Nat
  BY DEF Calls
<1>4. dry' => \A u \in R!Tasks : calls'[u].await \notin Sent
  BY <1>1 DEF Calls
<1>5. \A u \in R!Tasks : calls'[u].await \in Sent => calls'[u].margin <= calls'[u].free * 95
  BY <1>1 DEF Calls
<1>6. Ready'
  BY <1>1 DEF Ready
<1> QED
  BY <1>2, <1>3, <1>4, <1>5, <1>6 DEF Calls

\* place_order.
LEMMA PlaceSteps ==
    ASSUME Calls, Ready, Told, NEW t \in R!Tasks, NEW c \in Coins, NEW margin \in Nat, NEW free \in Int,
           margin <= free * 95, R!Place(t, c, R!Order(c, margin, free)),
           UNCHANGED <<dry, risk, lever, refused>>
    PROVE  Calls' /\ Ready' /\ Told'
<1> DEFINE await == IF c \in applied THEN "order" ELSE "leverage"
           call  == [await |-> await, coin |-> c, margin |-> margin, free |-> free]
<1>1. CASE dry
  <2>1. calls' = [calls EXCEPT ![t] = R!Idle] /\ applied' = applied \cup {c}
    BY <1>1 DEF R!Place
  <2>2. R!Idle.await \notin Sent
    BY DEF R!Idle, Sent
  <2>3. Calls' /\ Ready'
    BY <2>1, <2>2, CallReplaced DEF Sent
  <2> QED
    BY <1>1, <2>3 DEF Told
<1>2. CASE ~dry
  <2>1. applied' = applied /\ calls' = [calls EXCEPT ![t] = call]
    BY <1>2 DEF R!Place, R!Order
  <2>2. call \in Pending /\ call.await = await /\ call.coin = c /\ call.margin = margin /\ call.free = free
    BY DEF Pending, Sent
  <2> HIDE DEF call
  <2>3. Calls' /\ Ready'
    BY <1>2, <2>1, <2>2, CallReplaced
  <2> QED
    BY <2>1, <2>3 DEF Told
<1> QED
  BY <1>1, <1>2 DEF Calls

-----------------------------------------------------------------------------
(* The steps of the client. *)

LEMMA AccountSteps ==
    ASSUME OrdersInv, R!Account
    PROVE  Calls' /\ Ready' /\ Told'
<1> DEFINE c == calls["router"].coin
<1>1. "router" \in R!Tasks /\ calls["router"].await = "account"
  BY DEF R!Account, R!Tasks
<1>2. c \in Coins
  BY <1>1, CallKinds DEF OrdersInv, Asking
<1>3. UNCHANGED <<dry, risk, lever, refused>>
  BY DEF R!Account
<1>4. \/ \E free \in R!Snapshots, factor \in Factors :
             LET margin == R!Scaled(R!Allocated(free), factor) IN
             margin > 0 /\ R!Place("router", c, R!Order(c, margin, free))
      \/ calls' = [calls EXCEPT !["router"] = R!Idle] /\ applied' = applied
  BY DEF R!Account
<1>5. ASSUME NEW free \in R!Snapshots, NEW factor \in Factors,
             R!Scaled(R!Allocated(free), factor) > 0,
             R!Place("router", c, R!Order(c, R!Scaled(R!Allocated(free), factor), free))
      PROVE  Calls' /\ Ready' /\ Told'
  <2> DEFINE margin == R!Scaled(R!Allocated(free), factor)
  <2>1. free \in Int /\ factor \in 0..100 /\ risk \in Nat
    BY ClientsAssumption DEF R!Snapshots, OrdersInv, Calls
  <2>2. margin \in Nat /\ margin <= free * 95
    BY <1>5, <2>1, SizeBelowGate
  <2> HIDE DEF margin
  <2>3. R!Place("router", c, R!Order(c, margin, free))
    BY <1>5 DEF margin
  <2> HIDE DEF c
  <2> QED
    BY <1>1, <1>2, <1>3, <2>1, <2>2, <2>3, PlaceSteps DEF OrdersInv
<1>6. CASE calls' = [calls EXCEPT !["router"] = R!Idle] /\ applied' = applied
  <2>1. R!Idle.await \notin Sent
    BY DEF R!Idle, Sent
  <2>2. Calls' /\ Ready'
    BY <1>1, <1>3, <1>6, <2>1, CallReplaced DEF OrdersInv, Sent
  <2> QED
    BY <1>3, <1>6, <2>2 DEF OrdersInv, Told
<1> QED
  BY <1>4, <1>5, <1>6

LEMMA ExitSteps ==
    ASSUME OrdersInv, NEW c \in Coins, R!Exit(c)
    PROVE  Calls' /\ Ready' /\ Told'
<1>1. R!Place("manager", c, R!Order(c, 0, 0)) /\ UNCHANGED <<dry, risk, lever, refused>>
  BY DEF R!Exit
<1>2. "manager" \in R!Tasks /\ 0 \in Nat /\ 0 \in Int /\ 0 <= 0 * 95
  BY DEF R!Tasks
<1> QED
  BY <1>1, <1>2, PlaceSteps DEF OrdersInv

LEMMA EnterSteps ==
    ASSUME OrdersInv, NEW c \in Coins, R!Enter(c)
    PROVE  Calls' /\ Ready' /\ Told'
<1> DEFINE call == [await |-> "account", coin |-> c]
<1>1. /\ calls' = [calls EXCEPT !["router"] = call]
      /\ UNCHANGED <<dry, risk, applied, lever, refused>>
  BY DEF R!Enter
<1>2. "router" \in R!Tasks /\ call \in Asking /\ call.await \notin Sent /\ call.await # "order"
  BY DEF R!Tasks, Asking, Sent
<1> HIDE DEF call
<1>3. Calls' /\ Ready'
  BY <1>1, <1>2, CallReplaced DEF OrdersInv
<1> QED
  BY <1>1, <1>3 DEF OrdersInv, Told

LEMMA LeverageSteps ==
    ASSUME OrdersInv, NEW t \in R!Tasks, R!LeverageAnswered(t) \/ R!LeverageFails(t)
    PROVE  Calls' /\ Ready' /\ Told'
<1> DEFINE c == calls[t].coin
           call == [await |-> "order", coin |-> c, margin |-> calls[t].margin, free |-> calls[t].free]
<1>1. calls[t] \in Pending /\ calls[t].await = "leverage"
  BY CallKinds DEF OrdersInv, R!LeverageAnswered, R!LeverageFails, Sent
<1>2. CASE R!LeverageAnswered(t)
  <2>1. applied' = applied \cup {c} /\ UNCHANGED <<dry, risk>>
    BY <1>2 DEF R!LeverageAnswered, R!Marked
  <2>2. c \in lever' \cup refused' /\ lever \subseteq lever' /\ refused \subseteq refused'
    BY <1>2 DEF R!LeverageAnswered
  <2>3. calls' = [calls EXCEPT ![t] = call]
    <3>1. calls' = [calls EXCEPT ![t] = [calls[t] EXCEPT !.await = "order"]]
      BY <1>2 DEF R!LeverageAnswered
    <3>2. [calls[t] EXCEPT !.await = "order"] = call
      BY <1>1 DEF Pending
    <3> QED
      BY <3>1, <3>2
  <2>4. /\ call \in Pending /\ call.coin = c /\ call.margin <= call.free * 95 /\ ~dry
        /\ call.await = "order"
    BY <1>1 DEF Pending, Sent, OrdersInv, Calls
  <2> HIDE DEF call, c
  <2>5. Calls' /\ Ready'
    BY <2>1, <2>3, <2>4, CallReplaced DEF OrdersInv
  <2> QED
    BY <2>1, <2>2, <2>5 DEF OrdersInv, Told
<1>3. CASE R!LeverageFails(t)
  <2>1. /\ calls' = [calls EXCEPT ![t] = R!Idle] /\ UNCHANGED <<dry, risk, applied, refused>>
        /\ lever \subseteq lever'
    BY <1>3 DEF R!LeverageFails
  <2>2. R!Idle.await \notin Sent
    BY DEF R!Idle, Sent
  <2>3. Calls' /\ Ready'
    BY <2>1, <2>2, CallReplaced DEF OrdersInv, Sent
  <2> QED
    BY <2>1, <2>3 DEF OrdersInv, Told
<1> QED
  BY <1>2, <1>3

LEMMA OrderSteps ==
    ASSUME OrdersInv, NEW t \in R!Tasks, R!OrderEnds(t)
    PROVE  OrdersInv'
<1> DEFINE o == calls[t]
<1>1. /\ o.await = "order" /\ calls' = [calls EXCEPT ![t] = R!Idle]
      /\ UNCHANGED <<dry, risk, applied, lever, refused>>
  BY DEF R!OrderEnds
<1>2. R!Idle.await \notin Sent
  BY DEF R!Idle, Sent
<1>3. Calls' /\ Ready' /\ Told'
  <2>1. Calls' /\ Ready'
    BY <1>1, <1>2, CallReplaced DEF OrdersInv, Sent
  <2> QED
    BY <1>1, <2>1 DEF OrdersInv, Told
<1>4. ~dry /\ o.margin <= o.free * 95 /\ o.coin \in lever \cup refused
  <2>1. o.await \in Sent
    BY <1>1 DEF Sent
  <2>2. ~dry /\ o.margin <= o.free * 95
    <3>1. dry => o.await \notin Sent
      BY DEF OrdersInv, Calls
    <3>2. o.margin <= o.free * 95
      BY <2>1 DEF OrdersInv, Calls
    <3> QED
      BY <2>1, <3>1, <3>2 DEF OrdersInv, Calls
  <2>3. o.coin \in applied
    BY <1>1 DEF OrdersInv, Ready
  <2> HIDE DEF o
  <2> QED
    BY <2>2, <2>3 DEF OrdersInv, Told
<1>5. CASE executed' = executed
  BY <1>1, <1>3, <1>5 DEF OrdersInv, OrdersCovered, R!OrdersCovered
<1>6. CASE executed' = {[coin |-> o.coin, levered |-> o.coin \in lever, margin |-> o.margin, free |-> o.free]}
  <2> DEFINE x == [coin |-> o.coin, levered |-> o.coin \in lever, margin |-> o.margin, free |-> o.free]
  <2>1. x.coin = o.coin /\ (x.levered <=> o.coin \in lever) /\ x.margin = o.margin /\ x.free = o.free
    OBVIOUS
  <2> HIDE DEF x, o
  <2>2. ~dry /\ (x.levered \/ x.coin \in refused) /\ x.margin <= x.free * 95
    BY <1>4, <2>1
  <2>3. executed' = {x} /\ UNCHANGED <<dry, refused>>
    BY <1>1, <1>6 DEF x
  <2>4. OrdersCovered'
    BY <2>2, <2>3 DEF OrdersCovered, R!OrdersCovered
  <2> QED
    BY <1>3, <2>4 DEF OrdersInv
<1> QED
  BY <1>5, <1>6 DEF R!OrderEnds

LEMMA OrdersNext == OrdersInv /\ [Next]_vars => OrdersInv'
<1> SUFFICES ASSUME OrdersInv, [Next]_vars PROVE OrdersInv'
  OBVIOUS
\* What was executed stays covered: a refusal is not taken back in a process.
<1>1. ASSUME Calls' /\ Ready' /\ Told', UNCHANGED <<dry, executed>>, refused \subseteq refused'
      PROVE  OrdersInv'
  BY <1>1 DEF OrdersInv, OrdersCovered, R!OrdersCovered
<1>2. ASSUME NEW c \in Coins, R!Enter(c) PROVE OrdersInv'
  <2>1. UNCHANGED <<dry, executed, refused>>
    BY <1>2 DEF R!Enter
  <2> QED
    BY <1>1, <1>2, <2>1, EnterSteps
<1>3. ASSUME NEW c \in Coins, R!Exit(c) PROVE OrdersInv'
  <2>1. UNCHANGED <<dry, executed, refused>>
    BY <1>3 DEF R!Exit
  <2> QED
    BY <1>1, <1>3, <2>1, ExitSteps
<1>4. CASE R!Account
  <2>1. UNCHANGED <<dry, executed, refused>>
    BY <1>4 DEF R!Account
  <2> QED
    BY <1>1, <1>4, <2>1, AccountSteps
<1>5. ASSUME NEW t \in R!Tasks, R!LeverageAnswered(t) \/ R!LeverageFails(t) PROVE OrdersInv'
  <2>1. UNCHANGED <<dry, executed>> /\ refused \subseteq refused'
    BY <1>5 DEF R!LeverageAnswered, R!LeverageFails
  <2> QED
    BY <1>1, <1>5, <2>1, LeverageSteps
<1>6. ASSUME NEW t \in R!Tasks, R!OrderEnds(t) PROVE OrdersInv'
  BY <1>6, OrderSteps
<1>7. CASE R!Restart
  <2>1. /\ calls' = [t \in R!Tasks |-> R!Idle] /\ applied' = {} /\ executed' = {}
        /\ UNCHANGED <<dry, risk>>
    BY <1>7 DEF R!Restart
  <2>2. R!Idle.await \notin Sent /\ R!Idle.await # "order"
    BY DEF R!Idle, Sent
  <2>3. Calls' /\ Ready'
    BY <2>1, <2>2 DEF OrdersInv, Calls, Ready
  <2> QED
    BY <2>1, <2>3 DEF OrdersInv, Told, OrdersCovered, R!OrdersCovered
<1>8. CASE UNCHANGED rest
  BY <1>8 DEF rest, OrdersInv, Calls, Told, Ready, OrdersCovered, R!OrdersCovered
<1> QED
  BY <1>2, <1>3, <1>4, <1>5, <1>6, <1>7, <1>8 DEF Next, R!Next, vars

\* Whichever task comes first and whatever answers are lost, an order runs under
\* the settings' leverage, unless the exchange refused it; an entry takes at most
\* 95 % of what is free, and a dry run sends nothing (Clients!OrdersCovered).
THEOREM OrdersAreCovered == Spec => []OrdersCovered
<1>1. Init => OrdersInv
  <2> SUFFICES ASSUME Init PROVE OrdersInv
    OBVIOUS
  <2>1. /\ dry \in BOOLEAN /\ risk \in Nat /\ calls = [t \in R!Tasks |-> R!Idle]
        /\ applied = {} /\ executed = {}
    BY ClientsAssumption DEF Init, R!Init
  <2>2. R!Idle.await \notin Sent /\ R!Idle.await # "order"
    BY DEF R!Idle, Sent
  <2> QED
    BY <2>1, <2>2 DEF OrdersInv, Calls, Told, Ready, OrdersCovered, R!OrdersCovered
<1>2. OrdersInv => OrdersCovered
  BY DEF OrdersInv
<1> QED
  BY <1>1, <1>2, OrdersNext, PTL DEF Spec

-----------------------------------------------------------------------------
(* The commands.  The poller's loop passes the updates in their order, so what it
   makes of them rises; and an offset is past all that a poll has brought, so the
   next poll begins after all that has been answered. *)

\* A set of numbers has a least one: the induction of what follows.
LEMMA LeastNumber ==
    ASSUME NEW S, S \subseteq Nat, S # {}
    PROVE  \E x \in S : \A y \in S : x <= y
<1> DEFINE L == OpToRel(<, Nat)
<1>1. \E x \in S : \A y \in S : ~(<<y, x>> \in L)
  <2>1. IsWellFoundedOn(L, Nat)
    BY NatLessThanWellFounded
  <2> HIDE DEF L
  <2> QED
    BY <2>1, WFMin
<1>2. \A x, y \in Nat : x < y => <<x, y>> \in L
  BY DEF OpToRel
<1> HIDE DEF L
<1>3. PICK x \in S : \A y \in S : ~(<<y, x>> \in L)
  BY <1>1
<1>4. \A y \in S : x <= y
  <2> TAKE y \in S
  <2>1. x \in Nat /\ y \in Nat /\ ~(<<y, x>> \in L)
    BY <1>3
  <2>2. ~(y < x)
    BY <1>2, <2>1
  <2> QED
    BY <2>1, <2>2
<1> QED
  BY <1>4

\* The loop over the updates from the first on, after the i-th of them.
Passed(kinds, first, before, i) ==
    IF i < first THEN <<>> ELSE IF kinds[i] = "other" THEN before ELSE Append(before, i)

Loop(kinds, first, last) ==
    CHOOSE f : f = [i \in 0..last |->
        IF i < first THEN <<>> ELSE IF kinds[i] = "other" THEN f[i - 1] ELSE Append(f[i - 1], i)]

\* There is such a loop: it is one update longer than the one before it.
LEMMA UpdateAfterUpdate ==
    ASSUME NEW kinds, NEW first \in Nat \ {0}, NEW last \in Nat
    PROVE  LET commands == Loop(kinds, first, last)
           IN  \A i \in 0..last : commands[i] = Passed(kinds, first, commands[i - 1], i)
<1> DEFINE Step(x, i) == Passed(kinds, first, x, i)
           Body(f, m) == [i \in 0..m |-> Step(f[i - 1], i)]
           commands == CHOOSE f : f = Body(f, last)
           Bad == {m \in 0..last : ~ \E f : f = Body(f, m)}
<1>0. \A x : Step(x, 0) = <<>>
  BY DEF Passed
<1> HIDE DEF Step
<1>1. ASSUME NEW m \in Nat, m = 0 \/ \E f : f = Body(f, m - 1)
      PROVE  \E f : f = Body(f, m)
  <2>1. CASE m = 0
    <3> DEFINE g == [i \in 0..0 |-> <<>>]
               r == Body(g, 0)
    <3>1. \A i \in 0..0 : g[i] = <<>> /\ r[i] = <<>>
      <4> HIDE DEF g
      <4>1. \A i \in 0..0 : i = 0 /\ r[i] = Step(g[i - 1], i)
        OBVIOUS
      <4>2. \A i \in 0..0 : r[i] = <<>>
        BY <1>0, <4>1
      <4> HIDE DEF r
      <4> QED
        BY <4>2 DEF g
    <3>2. g = [i \in 0..0 |-> g[i]] /\ r = [i \in 0..0 |-> r[i]]
      OBVIOUS
    <3>3. g = r
      <4> HIDE DEF g, r, Body
      <4> QED
        BY <3>1, <3>2
    <3> HIDE DEF g, Body
    <3> QED
      BY <2>1, <3>3
  <2>2. CASE m # 0
    <3>1. PICK f : f = Body(f, m - 1)
      BY <1>1, <2>2
    <3> DEFINE g == [i \in 0..m |-> IF i = m THEN Step(f[m - 1], m) ELSE f[i]]
    <3>2. \A i \in 0..(m - 1) : f[i] = Step(f[i - 1], i)
      <4> DEFINE h == Body(f, m - 1)
      <4>1. \A i \in 0..(m - 1) : h[i] = Step(f[i - 1], i)
        OBVIOUS
      <4>2. f = h
        BY <3>1
      <4> HIDE DEF h, Body
      <4> QED
        BY <4>1, <4>2
    <3>3. \A i \in 0..m : g[i] = Step(g[i - 1], i)
      <4> SUFFICES ASSUME NEW i \in 0..m PROVE g[i] = Step(g[i - 1], i)
        OBVIOUS
      <4>1. CASE i = m
        <5>1. g[i - 1] = f[m - 1] /\ g[i] = Step(f[m - 1], m)
          BY <2>2, <4>1
        <5> HIDE DEF g
        <5> QED
          BY <4>1, <5>1
      <4>2. CASE i # m /\ i # 0
        <5>1. i \in 0..(m - 1) /\ g[i] = f[i] /\ g[i - 1] = f[i - 1]
          BY <2>2, <4>2
        <5> HIDE DEF g
        <5> QED
          BY <3>2, <5>1
      <4>3. CASE i # m /\ i = 0
        <5>1. i \in 0..(m - 1) /\ g[i] = f[i]
          BY <2>2, <4>3
        <5> HIDE DEF g
        <5>2. f[i] = <<>>
          BY <1>0, <3>2, <4>3, <5>1
        <5> QED
          BY <1>0, <4>3, <5>1, <5>2
      <4> QED
        BY <4>1, <4>2, <4>3
    <3> DEFINE r == Body(g, m)
    <3>4. \A i \in 0..m : r[i] = Step(g[i - 1], i)
      <4> HIDE DEF g
      <4> QED
        OBVIOUS
    <3>5. g = [i \in 0..m |-> g[i]] /\ r = [i \in 0..m |-> r[i]]
      OBVIOUS
    <3>6. g = r
      <4> HIDE DEF g, r, Body
      <4> QED
        BY <3>3, <3>4, <3>5
    <3> HIDE DEF g, Body
    <3> QED
      BY <3>6
  <2> QED
    BY <2>1, <2>2
<1> HIDE DEF Body
<1>2. Bad = {}
  <2> SUFFICES ASSUME Bad # {} PROVE FALSE
    OBVIOUS
  <2>0. Bad \subseteq Nat
    OBVIOUS
  <2>1. PICK m \in Bad : \A y \in Bad : m <= y
    <3> HIDE DEF Bad
    <3> QED
      BY <2>0, LeastNumber
  <2>2. m \in 0..last /\ ~ \E f : f = Body(f, m)
    OBVIOUS
  <2>3. m = 0 \/ (m - 1 \in 0..last /\ m - 1 \notin Bad)
    <3> HIDE DEF Bad
    <3> QED
      BY <2>1, <2>2
  <2>4. m = 0 \/ \E f : f = Body(f, m - 1)
    BY <2>3
  <2> QED
    BY <1>1, <2>2, <2>4
<1>3. commands = Body(commands, last)
  <2>1. \E f : f = Body(f, last)
    <3>1. last \in 0..last
      OBVIOUS
    <3> QED
      BY <1>2, <3>1
  <2> QED
    BY <2>1
<1> DEFINE r == Body(commands, last)
<1>4. \A i \in 0..last : r[i] = Step(commands[i - 1], i)
  <2> HIDE DEF commands
  <2> QED
    BY DEF Body
<1>5. \A i \in 0..last : commands[i] = Step(commands[i - 1], i)
  <2> HIDE DEF commands, r
  <2>1. commands = r
    BY <1>3 DEF r
  <2> QED
    BY <1>4, <2>1
<1>6. commands = Loop(kinds, first, last)
  BY DEF Body, Step, Passed, Loop
<1> HIDE DEF commands
<1> QED
  BY <1>5, <1>6 DEF Step

Rising(s) == \A i, j \in DOMAIN s : i < j => s[i] < s[j]

\* A row that gets a greater element at its end.
LEMMA RisesOn ==
    ASSUME NEW s \in Seq(Nat), NEW x \in Nat, Rising(s), \A i \in DOMAIN s : s[i] < x
    PROVE  /\ Append(s, x) \in Seq(Nat) /\ Rising(Append(s, x))
           /\ DOMAIN s = 1..Len(s) /\ Len(s) \in Nat /\ DOMAIN Append(s, x) = 1..(Len(s) + 1)
           /\ Append(s, x)[Len(s) + 1] = x /\ \A i \in DOMAIN s : Append(s, x)[i] = s[i]
<1> DEFINE t == Append(s, x)
<1>1. Len(s) \in Nat /\ DOMAIN s = 1..Len(s) /\ \A i \in 1..Len(s) : s[i] \in Nat
  BY LenProperties, ElementOfSeq
<1>2. /\ t \in Seq(Nat) /\ Len(t) = Len(s) + 1 /\ t[Len(s) + 1] = x
      /\ \A i \in 1..Len(s) : t[i] = s[i]
  BY AppendProperties
<1> HIDE DEF t
<1>3. DOMAIN t = 1..(Len(s) + 1)
  BY <1>2, LenProperties
<1>4. Rising(t)
  <2> SUFFICES ASSUME NEW i \in 1..(Len(s) + 1), NEW j \in 1..(Len(s) + 1), i < j PROVE t[i] < t[j]
    BY <1>3 DEF Rising
  <2>1. i \in 1..Len(s) /\ t[i] = s[i]
    BY <1>1, <1>2, SMTT(30)
  <2>2. CASE j = Len(s) + 1
    BY <1>1, <1>2, <2>1, <2>2
  <2>3. CASE j # Len(s) + 1
    <3>1. j \in 1..Len(s)
      BY <1>1, <2>3
    <3>2. t[j] = s[j]
      BY <1>2, <3>1
    <3> QED
      BY <1>1, <2>1, <3>1, <3>2 DEF Rising
  <2> QED
    BY <2>2, <2>3
<1> QED
  BY <1>1, <1>2, <1>3, <1>4 DEF t

\* A row without its first element.
LEMMA RisesStill ==
    ASSUME NEW s \in Seq(Nat), s # <<>>, Rising(s)
    PROVE  /\ Head(s) \in Nat /\ Tail(s) \in Seq(Nat) /\ Rising(Tail(s))
           /\ 1 \in DOMAIN s /\ Head(s) = s[1]
           /\ \A i \in DOMAIN Tail(s) : /\ i + 1 \in DOMAIN s /\ Tail(s)[i] = s[i + 1]
                                        /\ Head(s) < Tail(s)[i]
<1> DEFINE t == Tail(s)
<1>1. Len(s) \in Nat /\ DOMAIN s = 1..Len(s) /\ Len(s) >= 1
  BY LenProperties, EmptySeq
<1>2. /\ Head(s) \in Nat /\ t \in Seq(Nat) /\ Len(t) = Len(s) - 1
      /\ \A i \in 1..Len(t) : t[i] = s[i + 1]
  BY HeadTailProperties
<1>3. Head(s) = s[1]
  OBVIOUS
<1> HIDE DEF t
<1>4. DOMAIN t = 1..(Len(s) - 1)
  BY <1>2, LenProperties
<1>5. 1 \in DOMAIN s /\ \A i \in DOMAIN t : i + 1 \in DOMAIN s /\ t[i] = s[i + 1] /\ 1 < i + 1
  BY <1>1, <1>2, <1>4, SMTT(30)
<1>6. \A i \in DOMAIN t : Head(s) < t[i]
  BY <1>3, <1>5 DEF Rising
<1>7. Rising(t)
  <2> SUFFICES ASSUME NEW i \in DOMAIN t, NEW j \in DOMAIN t, i < j PROVE t[i] < t[j]
    BY DEF Rising
  <2>1. i + 1 < j + 1
    BY <1>1, <1>4
  <2> QED
    BY <1>5, <2>1 DEF Rising
<1> QED
  BY <1>2, <1>3, <1>5, <1>6, <1>7 DEF t

\* What the loop has made of the first i updates rises, from the first on to i.
LEMMA CommandsRise ==
    ASSUME NEW kinds, NEW first \in Nat \ {0}, NEW last \in Nat
    PROVE  LET s == Loop(kinds, first, last)[last]
           IN  /\ s \in Seq(Nat) /\ Rising(s)
               /\ \A i \in DOMAIN s : first <= s[i] /\ s[i] <= last
<1> DEFINE f == Loop(kinds, first, last)
           Good(n) == /\ f[n] \in Seq(Nat) /\ Rising(f[n])
                      /\ \A i \in DOMAIN f[n] : first <= f[n][i] /\ f[n][i] <= n
           Bad == {n \in 0..last : ~Good(n)}
<1>1. \A n \in 0..last : f[n] = Passed(kinds, first, f[n - 1], n)
  BY UpdateAfterUpdate
<1> HIDE DEF f
<1>2. <<>> \in Seq(Nat) /\ Rising(<<>>) /\ DOMAIN <<>> = {}
  BY DEF Rising
<1>3. ASSUME NEW n \in 0..last, n = 0 \/ Good(n - 1) PROVE Good(n)
  <2>1. CASE n < first
    <3>1. f[n] = <<>>
      BY <1>1, <2>1 DEF Passed
    <3> QED
      BY <1>2, <3>1
  <2>2. CASE ~(n < first)
    <3>1. n \in Nat /\ n # 0 /\ Good(n - 1) /\ n - 1 \in Nat
      BY <1>3, <2>2
    <3>2. CASE kinds[n] = "other"
      <4>1. f[n] = f[n - 1]
        BY <1>1, <2>2, <3>2 DEF Passed
      <4>2. \A i \in DOMAIN f[n - 1] : f[n - 1][i] \in Nat
        BY <3>1, ElementOfSeq, LenProperties
      <4>3. \A i \in DOMAIN f[n - 1] : first <= f[n - 1][i] /\ f[n - 1][i] <= n
        BY <3>1, <4>2
      <4> QED
        BY <3>1, <4>1, <4>3
    <3>3. CASE kinds[n] # "other"
      <4> DEFINE s == f[n - 1]
      <4>1. f[n] = Append(s, n)
        BY <1>1, <2>2, <3>3 DEF Passed
      <4>2. s \in Seq(Nat) /\ Rising(s) /\ \A i \in DOMAIN s : first <= s[i] /\ s[i] <= n - 1
        BY <3>1
      <4> HIDE DEF s
      <4>3. \A i \in DOMAIN s : s[i] \in Nat /\ s[i] < n /\ s[i] <= n
        BY <3>1, <4>2, ElementOfSeq, LenProperties
      <4>4. /\ Append(s, n) \in Seq(Nat) /\ Rising(Append(s, n))
            /\ DOMAIN s = 1..Len(s) /\ Len(s) \in Nat /\ DOMAIN Append(s, n) = 1..(Len(s) + 1)
            /\ Append(s, n)[Len(s) + 1] = n /\ \A i \in DOMAIN s : Append(s, n)[i] = s[i]
        BY <3>1, <4>2, <4>3, RisesOn
      <4>5. \A i \in DOMAIN Append(s, n) : first <= Append(s, n)[i] /\ Append(s, n)[i] <= n
        <5> TAKE i \in DOMAIN Append(s, n)
        <5>1. i = Len(s) + 1 \/ i \in DOMAIN s
          BY <4>4
        <5> QED
          BY <2>2, <3>1, <4>2, <4>3, <4>4, <5>1
      <4> QED
        BY <4>1, <4>4, <4>5
    <3> QED
      BY <3>2, <3>3
  <2> QED
    BY <2>1, <2>2
<1> HIDE DEF Good
<1>4. Bad = {}
  <2> SUFFICES ASSUME Bad # {} PROVE FALSE
    OBVIOUS
  <2>0. Bad \subseteq Nat
    OBVIOUS
  <2>1. PICK m \in Bad : \A y \in Bad : m <= y
    <3> HIDE DEF Bad
    <3> QED
      BY <2>0, LeastNumber
  <2>2. m \in 0..last /\ ~Good(m)
    OBVIOUS
  <2>3. m = 0 \/ (m - 1 \in 0..last /\ m - 1 \notin Bad)
    <3> HIDE DEF Bad
    <3> QED
      BY <2>1, <2>2
  <2> QED
    BY <1>3, <2>2, <2>3
<1>5. Good(last)
  <2>1. last \in 0..last
    OBVIOUS
  <2> QED
    BY <1>4, <2>1
<1> QED
  BY <1>5 DEF Good, f

\* What holds of the poller at every await.
Polling ==
    /\ arrived \in Seq(T!Kinds)
    /\ kept \in Nat \ {0} /\ offset \in Nat
    /\ batch \in Seq(Nat) /\ handled \in Seq(Nat)
    /\ Rising(batch) /\ Rising(handled)
    /\ \A i \in DOMAIN handled, j \in DOMAIN batch : handled[i] < batch[j]
    /\ \A i \in DOMAIN handled : handled[i] < offset
    /\ \A i \in DOMAIN batch : batch[i] < offset
    /\ 1..(kept - 1) \subseteq fetched /\ 1..(offset - 1) \subseteq fetched

LEMMA Empty == <<>> \in Seq(Nat) /\ Rising(<<>>) /\ DOMAIN <<>> = {}
  BY DEF Rising

\* The next poll begins after all that has been fetched.
LEMMA FromProperties ==
    ASSUME Polling
    PROVE  T!From \in Nat \ {0} /\ T!From >= offset /\ 1..(T!From - 1) \subseteq fetched
  BY DEF Polling, T!From

LEMMA PollSteps == ASSUME Polling, T!Poll PROVE Polling'
<1> DEFINE last == Len(arrived)
           s == Loop(arrived, T!From, last)[last]
<1>1. /\ batch = <<>> /\ kept' = T!From /\ batch' = s
      /\ offset' = IF last < T!From THEN offset ELSE last + 1
      /\ fetched' = fetched \cup T!From..last
      /\ UNCHANGED <<arrived, handled>>
  BY DEF T!Poll, T!NextOffset, Loop
<1>2. last \in Nat
  BY LenProperties DEF Polling
<1>3. T!From \in Nat \ {0} /\ T!From >= offset /\ 1..(T!From - 1) \subseteq fetched
  BY FromProperties
<1>4. s \in Seq(Nat) /\ Rising(s) /\ \A i \in DOMAIN s : T!From <= s[i] /\ s[i] <= last
  BY <1>2, <1>3, CommandsRise
<1>5. \A i \in DOMAIN s : s[i] \in Nat
  BY <1>4, ElementOfSeq, LenProperties
<1>6. \A i \in DOMAIN handled : handled[i] \in Nat /\ handled[i] < offset
  BY ElementOfSeq, LenProperties DEF Polling
<1> HIDE DEF last, s
<1>7. offset \in Nat /\ offset' \in Nat /\ offset' >= offset
  BY <1>1, <1>2, <1>3 DEF Polling
<1>8. \A i \in DOMAIN batch' : batch'[i] < offset'
  <2> TAKE i \in DOMAIN batch'
  <2>1. T!From <= s[i] /\ s[i] <= last /\ s[i] \in Nat
    BY <1>1, <1>4, <1>5
  <2> QED
    BY <1>1, <1>2, <1>3, <2>1
<1>9. \A i \in DOMAIN handled', j \in DOMAIN batch' : handled'[i] < batch'[j]
  <2> TAKE i \in DOMAIN handled', j \in DOMAIN batch'
  <2>1. T!From <= s[j] /\ s[j] \in Nat /\ handled[i] \in Nat /\ handled[i] < offset
    BY <1>1, <1>4, <1>5, <1>6
  <2> QED
    BY <1>1, <1>3, <1>7, <2>1
<1>10. \A i \in DOMAIN handled' : handled'[i] < offset'
  BY <1>1, <1>6, <1>7
<1>11. 1..(kept' - 1) \subseteq fetched'
  BY <1>1, <1>3
<1>12. 1..(offset' - 1) \subseteq fetched'
  <2>1. CASE last < T!From
    BY <1>1, <2>1 DEF Polling
  <2>2. CASE ~(last < T!From)
    <3>1. \A x \in 1..last : x \in 1..(T!From - 1) \/ x \in T!From..last
      BY <1>2, <1>3
    <3>2. offset' - 1 = last
      BY <1>1, <1>2, <2>2
    <3> QED
      BY <1>1, <1>3, <3>1, <3>2
  <2> QED
    BY <2>1, <2>2
<1> QED
  BY <1>1, <1>3, <1>4, <1>7, <1>8, <1>9, <1>10, <1>11, <1>12 DEF Polling

LEMMA AnswerSteps == ASSUME Polling, T!Answer PROVE Polling'
<1>1. /\ batch # <<>> /\ handled' = Append(handled, Head(batch)) /\ batch' = Tail(batch)
      /\ UNCHANGED <<arrived, kept, offset, fetched>>
  BY DEF T!Answer
<1>2. /\ Head(batch) \in Nat /\ Tail(batch) \in Seq(Nat) /\ Rising(Tail(batch))
      /\ 1 \in DOMAIN batch /\ Head(batch) = batch[1]
      /\ \A i \in DOMAIN Tail(batch) : /\ i + 1 \in DOMAIN batch /\ Tail(batch)[i] = batch[i + 1]
                                       /\ Head(batch) < Tail(batch)[i]
  BY <1>1, RisesStill DEF Polling
<1> DEFINE x == Head(batch)
           t == Tail(batch)
<1>3. \A i \in DOMAIN handled : handled[i] < x
  BY <1>2 DEF Polling
<1> HIDE DEF x, t
<1>4. /\ Append(handled, x) \in Seq(Nat) /\ Rising(Append(handled, x))
      /\ DOMAIN handled = 1..Len(handled) /\ Len(handled) \in Nat
      /\ DOMAIN Append(handled, x) = 1..(Len(handled) + 1)
      /\ Append(handled, x)[Len(handled) + 1] = x
      /\ \A i \in DOMAIN handled : Append(handled, x)[i] = handled[i]
  BY <1>2, <1>3, RisesOn DEF Polling, x
<1>5. \A i \in DOMAIN handled' : \/ i = Len(handled) + 1 /\ handled'[i] = x
                                 \/ i \in DOMAIN handled /\ handled'[i] = handled[i]
  BY <1>1, <1>4 DEF x
<1>6. \A i \in DOMAIN handled', j \in DOMAIN batch' : handled'[i] < batch'[j]
  <2> TAKE i \in DOMAIN handled', j \in DOMAIN batch'
  <2>1. j + 1 \in DOMAIN batch /\ batch'[j] = batch[j + 1] /\ x < batch'[j]
    BY <1>1, <1>2 DEF x
  <2> QED
    BY <1>5, <2>1 DEF Polling
<1>7. \A i \in DOMAIN handled' : handled'[i] < offset'
  BY <1>1, <1>2, <1>5 DEF Polling, x
<1>8. \A i \in DOMAIN batch' : batch'[i] < offset'
  BY <1>1, <1>2 DEF Polling
<1> QED
  BY <1>1, <1>2, <1>4, <1>6, <1>7, <1>8 DEF Polling, x

LEMMA PollingSteps == ASSUME Polling, [Next]_vars PROVE Polling'
<1>1. CASE T!Poll
  BY <1>1, PollSteps
<1>2. CASE T!PollFails
  <2>1. kept' \in {kept, T!From} /\ UNCHANGED <<arrived, offset, batch, fetched, handled>>
    BY <1>2 DEF T!PollFails
  <2>2. kept' \in Nat \ {0} /\ 1..(kept' - 1) \subseteq fetched
    BY <2>1, FromProperties DEF Polling
  <2> QED
    BY <2>1, <2>2 DEF Polling
<1>3. CASE T!Answer
  BY <1>3, AnswerSteps
<1>4. CASE T!AnswerFails
  BY <1>4, Empty DEF T!AnswerFails, Polling
<1>5. CASE T!Arrive
  <2>1. PICK kind \in T!Kinds : arrived' = Append(arrived, kind)
    BY <1>5 DEF T!Arrive
  <2>2. arrived' \in Seq(T!Kinds)
    BY <2>1, AppendProperties DEF Polling
  <2> QED
    BY <1>5, <2>2 DEF T!Arrive, Polling
<1>6. CASE T!Restart
  <2>1. /\ offset' = 0 /\ batch' = <<>> /\ handled' = <<>> /\ UNCHANGED <<arrived, kept, fetched>>
    BY <1>6 DEF T!Restart, T!None
  <2>2. 1..(offset' - 1) = {}
    BY <2>1
  <2> QED
    BY <2>1, <2>2, Empty DEF Polling
<1>7. CASE UNCHANGED <<arrived, kept, offset, batch, fetched, handled>>
  BY <1>7 DEF Polling
<1>8. T!PollRefused \/ T!Wait \/ UNCHANGED telegram \/ UNCHANGED vars
      => UNCHANGED <<arrived, kept, offset, batch, fetched, handled>>
  BY DEF T!PollRefused, T!Wait, telegram, vars
<1> QED
  BY <1>1, <1>2, <1>3, <1>4, <1>5, <1>6, <1>7, <1>8 DEF Next, T!Next

\* A process answers its commands in order and none twice, and Telegram forgets
\* only what a poll has brought, whatever polls, answers and processes are lost
\* (Clients!OnceEach).
THEOREM CommandsOnceEach == Spec => []OnceEach
<1>1. Init => Polling
  <2> SUFFICES ASSUME Init PROVE Polling
    OBVIOUS
  <2>1. /\ arrived = <<>> /\ kept = 1 /\ offset = 0 /\ batch = <<>> /\ handled = <<>>
    BY DEF Init, T!Init, T!None
  <2>2. <<>> \in Seq(T!Kinds) /\ 1..(1 - 1) = {} /\ 1..(0 - 1) = {}
    OBVIOUS
  <2> QED
    BY <2>1, <2>2, Empty DEF Polling
<1>2. Polling /\ [Next]_vars => Polling'
  BY PollingSteps
<1>3. Polling => OnceEach
  BY DEF Polling, Rising, OnceEach, T!OnceEach
<1> QED
  BY <1>1, <1>2, <1>3, PTL DEF Spec
=============================================================================
