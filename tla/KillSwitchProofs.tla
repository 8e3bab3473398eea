------------------------- MODULE KillSwitchProofs -------------------------
(***************************************************************************)
(* DrawdownLocks and NewDayOpens of KillSwitch, for every set of equities, *)
(* every limit and any length of queue, with midnight inside a check and   *)
(* with restarts.                                                          *)
(***************************************************************************)
EXTENDS KillSwitch, TLAPS

\* The parts of the types the arithmetic needs.
Numbers ==
    /\ day \in Nat \ {0} /\ daily \in Nat
    /\ latest \in Nat /\ asleep \in Nat /\ hwm \in Nat /\ high \in Nat
    /\ queue \in Seq(Nat)

\* What the worker knows: no mark, no check; asleep, the loss it saw; awake, the
\* last check has locked the switch if it had to.
Checked ==
    /\ ~marked => daily = Unset /\ hwm = Unset /\ asleep = Unset
    /\ asleep # Unset => asleep = hwm /\ LossAtLimit(hwm, latest)
    /\ asleep = Unset => (LossAtLimit(hwm, latest) => tripped)

\* The highest report of today is in the high-water mark, or still in the queue.
HighKnown ==
    marked /\ high # 0 =>
        (daily = day /\ high <= hwm) \/ \E i \in 1..Len(queue) : queue[i] = high

SwitchInv == Numbers /\ Checked /\ HighKnown

\* A loss against a balance is a loss against every higher one.
LEMMA LossMonotone ==
  ASSUME NEW r \in Nat, NEW h \in Nat, NEW e \in Nat, r <= h, LossAtLimit(r, e)
  PROVE  LossAtLimit(h, e)
<1> USE LimitAssumption
<1>1. r > 0 /\ (r - e) * 100 >= Limit * r
  BY DEF LossAtLimit
<1> DEFINE d == h - r
<1>2. d \in Nat /\ h = r + d
  OBVIOUS
<1>3. Limit * h = Limit * r + Limit * d /\ Limit * r \in Nat /\ Limit * d \in Nat
  BY <1>2
<1>4. Limit <= 100
  <2>1. SUFFICES ASSUME Limit > 100 PROVE FALSE
    OBVIOUS
  <2>2. Limit * r > 100 * r
    BY <1>1, <2>1
  <2> QED
    BY <1>1, <2>2, <1>3
<1>5. Limit * d <= 100 * d
  BY <1>2, <1>4
<1>6. (h - e) * 100 >= Limit * h
  <2> HIDE DEF d
  <2> QED
    BY <1>1, <1>2, <1>3, <1>5
<1> QED
  BY <1>1, <1>6 DEF LossAtLimit

LEMMA SwitchInit == Init => SwitchInv
  BY DEF Init, SwitchInv, Numbers, Checked, HighKnown, LossAtLimit, Unset

\* A report taken from the queue is gone from it, the others move up.
LEMMA TailKeeps ==
  ASSUME NEW q \in Seq(Nat), q # <<>>, NEW h,
         \E i \in 1..Len(q) : q[i] = h, h # Head(q)
  PROVE  \E i \in 1..Len(Tail(q)) : Tail(q)[i] = h
<1>1. PICK i \in 1..Len(q) : q[i] = h
  OBVIOUS
<1>2. i # 1
  BY <1>1
<1>3. i - 1 \in 1..Len(Tail(q)) /\ Tail(q)[i - 1] = h
  BY <1>1, <1>2
<1> QED
  BY <1>3

LEMMA ReportKeeps == ASSUME SwitchInv, NEW e \in Levels \cup {Unset}, Report(e) PROVE SwitchInv'
<1> USE DEF SwitchInv, Unset
<1>0. e \in Nat
  BY LevelAssumption
<1>1. Numbers'
  BY <1>0 DEF Numbers, Report, worker, switch
<1>2. Checked'
  BY DEF Checked, Report, worker, switch, LossAtLimit
<1>3. HighKnown'
  <2>1. /\ queue \in Seq(Nat) /\ queue' = Append(queue, e)
        /\ UNCHANGED <<marked, day, daily, hwm>>
        /\ high' = high \/ high' = e
    BY DEF Report, worker, switch, Numbers
  <2>2. /\ Len(queue)' = Len(queue) + 1 /\ queue'[Len(queue) + 1] = e
        /\ \A i \in 1..Len(queue) : queue'[i] = queue[i] /\ i \in 1..Len(queue')
    BY <1>0, <2>1
  <2>3. Len(queue) + 1 \in 1..Len(queue')
    BY <2>1, <2>2
  <2> QED
    BY <2>1, <2>2, <2>3 DEF HighKnown
<1> QED
  BY <1>1, <1>2, <1>3

LEMMA ProcessKeeps == ASSUME SwitchInv, Process PROVE SwitchInv'
<1> USE DEF SwitchInv, Unset
<1>1. /\ queue \in Seq(Nat) /\ queue # <<>> /\ queue' = Tail(queue)
      /\ Head(queue) \in Nat /\ queue' \in Seq(Nat)
      /\ latest' = (IF Head(queue) = 0 THEN latest ELSE Head(queue)) /\ latest' \in Nat
      /\ asleep = 0 /\ UNCHANGED marked
  BY DEF Process, Numbers
<1>2. CASE ~(marked /\ latest' # Unset)
  <2>1. UNCHANGED <<day, asleep, daily, hwm, tripped, high>>
    BY <1>2 DEF Process, switch
  <2>2. Numbers'
    BY <1>1, <2>1 DEF Numbers
  <2>3. CASE ~marked
    BY <1>1, <2>1, <2>2, <2>3 DEF Checked, HighKnown, LossAtLimit
  <2>4. CASE latest' = 0
    <3>1. Head(queue) = 0 /\ latest' = latest
      BY <1>1, <2>4
    <3>2. Checked'
      BY <1>1, <2>1, <3>1 DEF Checked, LossAtLimit
    <3>3. HighKnown'
      <4>1. SUFFICES ASSUME high # 0, \E i \in 1..Len(queue) : queue[i] = high
                     PROVE  \E i \in 1..Len(queue') : queue'[i] = high
        BY <2>1, <1>1 DEF HighKnown
      <4>2. high # Head(queue)
        BY <3>1, <4>1
      <4> QED
        BY <1>1, <4>1, <4>2, TailKeeps
    <3> QED
      BY <2>2, <3>2, <3>3
  <2> QED
    BY <1>2, <2>3, <2>4
<1>3. CASE marked /\ latest' # Unset
  <2>1. PICK read2 \in {day, day'}, read3 \in {day, day'} :
           read2 <= read3 /\ Check(latest', day, read2, read3)
    BY <1>3 DEF Process
  <2>2. day' \in {day, day + 1} /\ high' = IF day' = day THEN high ELSE 0
    BY <1>3 DEF Process
  <2> DEFINE newDay == daily # day
             date   == IF newDay THEN read2 ELSE daily
             high0  == IF newDay THEN latest' ELSE hwm
  <2>3. /\ daily' = read3
        /\ hwm' = HighWater(latest', high0, date = read3)
        /\ tripped' = Locked(newDay)
        /\ asleep' = IF LossAtLimit(hwm', latest') /\ ~tripped' THEN hwm' ELSE 0
    BY <2>1 DEF Check
  <2>4. hwm' \in Nat /\ latest' <= hwm'
    BY <1>1, <2>3 DEF HighWater, Numbers
  <2>5. Numbers'
    BY <1>1, <2>2, <2>3, <2>4 DEF Numbers
  <2>6. Checked'
    BY <1>1, <1>3, <2>3, <2>4 DEF Checked, LossAtLimit
  <2>7. HighKnown'
    <3>1. SUFFICES ASSUME high' # 0
                   PROVE  (daily' = day' /\ high' <= hwm')
                          \/ \E i \in 1..Len(queue') : queue'[i] = high'
      BY DEF HighKnown
    <3>2. day' = day /\ high' = high /\ daily' = day
      BY <2>1, <2>2, <2>3, <3>1
    <3>3. CASE Head(queue) = high
      BY <1>1, <2>4, <3>1, <3>2, <3>3
    <3>4. CASE daily = day /\ high <= hwm
      <4>1. ~newDay /\ high0 = hwm /\ date = read3
        BY <2>1, <2>2, <3>2, <3>4
      <4>2. hwm' >= hwm
        BY <1>1, <2>3, <4>1 DEF HighWater, Numbers
      <4> QED
        BY <2>4, <3>2, <3>4, <4>2 DEF Numbers
    <3>5. CASE Head(queue) # high /\ \E i \in 1..Len(queue) : queue[i] = high
      BY <1>1, <3>2, <3>5, TailKeeps
    <3> QED
      BY <1>3, <3>1, <3>2, <3>3, <3>4, <3>5 DEF HighKnown
  <2> QED
    BY <2>5, <2>6, <2>7
<1> QED
  BY <1>2, <1>3

LEMMA SwitchNext == SwitchInv /\ [Next]_vars => SwitchInv'
<1> SUFFICES ASSUME SwitchInv, [Next]_vars PROVE SwitchInv'
  OBVIOUS
<1> USE DEF SwitchInv, Unset, worker, switch
<1>1. ASSUME NEW e \in Levels \cup {Unset}, Report(e) PROVE SwitchInv'
  BY <1>1, ReportKeeps
<1>2. CASE MarkSeen
  BY <1>2 DEF MarkSeen, Numbers, Checked, HighKnown, LossAtLimit
<1>3. CASE NextDay
  BY <1>3 DEF NextDay, Numbers, Checked, HighKnown, LossAtLimit
<1>4. CASE Process
  BY <1>4, ProcessKeeps
<1>5. CASE Wake
  BY <1>5 DEF Wake, Numbers, Checked, HighKnown, LossAtLimit
<1>6. CASE Restart
  BY <1>6 DEF Restart, Numbers, Checked, HighKnown, LossAtLimit
<1>7. CASE UNCHANGED vars
  BY <1>7 DEF vars, Numbers, Checked, HighKnown, LossAtLimit
<1> QED
  BY <1>1, <1>2, <1>3, <1>4, <1>5, <1>6, <1>7 DEF Next

\* A worker that has caught up leaves no drawdown of the day unlocked.
THEOREM DrawdownsLock == Spec => []DrawdownLocks
<1>1. SwitchInv => DrawdownLocks
  <2> SUFFICES ASSUME SwitchInv, marked, asleep = Unset, queue = <<>>, LossAtLimit(high, latest)
               PROVE  tripped
    BY DEF DrawdownLocks
  <2>1. high # 0 /\ high \in Nat /\ hwm \in Nat /\ latest \in Nat
    BY DEF SwitchInv, Numbers, LossAtLimit
  <2>2. high <= hwm
    BY <2>1 DEF SwitchInv, HighKnown
  <2>3. LossAtLimit(hwm, latest)
    BY <2>1, <2>2, LossMonotone
  <2> QED
    BY <2>3 DEF SwitchInv, Checked
<1> QED
  BY <1>1, SwitchInit, SwitchNext, PTL DEF Spec

-----------------------------------------------------------------------------
(* Types and the day's unlock. *)

LEMMA EmptyQueue == <<>> \in Seq(Levels \cup {Unset}) /\ Len(<<>>) = 0
  OBVIOUS

LEMMA TypeInit == Init => TypeOK
<1> SUFFICES ASSUME Init PROVE TypeOK
  OBVIOUS
<1>1. queue \in Seq(Levels \cup {Unset}) /\ Len(queue) <= MaxQueue
  BY EmptyQueue, BoundAssumption DEF Init
<1>2. day \in 1..MaxDay /\ daily \in 0..MaxDay
  BY BoundAssumption DEF Init, Unset
<1>3. marked \in BOOLEAN /\ tripped \in BOOLEAN
  BY Zenon DEF Init
<1>4. {latest, asleep, hwm, equity, high} \subseteq Levels \cup {Unset}
  BY DEF Init, Unset
<1> QED
  BY <1>1, <1>2, <1>3, <1>4 DEF TypeOK

LEMMA TypeProcess == ASSUME TypeOK, Process PROVE TypeOK'
<1> USE BoundAssumption DEF TypeOK, Unset
<1> DEFINE Balances == Levels \cup {0}
<1>0. /\ queue \in Seq(Balances) /\ queue # <<>> /\ Len(queue) <= MaxQueue
      /\ day \in 1..MaxDay /\ daily \in 0..MaxDay /\ tripped \in BOOLEAN
      /\ latest \in Balances /\ asleep \in Balances /\ hwm \in Balances /\ high \in Balances
  <2>1. queue # <<>>
    BY DEF Process
  <2>2. /\ latest \in Balances /\ asleep \in Balances /\ hwm \in Balances
        /\ high \in Balances /\ queue \in Seq(Balances) /\ Len(queue) <= MaxQueue
    OBVIOUS
  <2> QED
    BY <2>1, <2>2
<1>1. /\ queue' \in Seq(Balances) /\ Len(queue') <= MaxQueue
      /\ Head(queue) \in Balances
  <2>1. queue' = Tail(queue)
    BY DEF Process
  <2> HIDE DEF Balances
  <2> QED
    BY <1>0, <2>1
<1>2. latest' \in Balances /\ UNCHANGED <<marked, equity>>
  BY <1>0, <1>1 DEF Process
<1>3. CASE UNCHANGED <<day, asleep, daily, hwm, tripped, high>>
  BY <1>1, <1>2, <1>3
<1>4. ASSUME day' \in {day, day + 1}, day' <= MaxDay, NEW read2 \in {day, day'},
             NEW read3 \in {day, day'}, Check(latest', day, read2, read3),
             high' = IF day' = day THEN high ELSE 0
      PROVE  TypeOK'
  <2>1. daily' \in 0..MaxDay /\ day' \in 1..MaxDay /\ high' \in Balances
    BY <1>0, <1>4 DEF Check
  <2>2. hwm' \in Balances
    BY <1>0, <1>2, <1>4 DEF Check, HighWater
  <2>3. tripped' \in BOOLEAN
    BY <1>4 DEF Check, Locked
  <2>4. asleep' \in Balances
    BY <1>4, <2>2 DEF Check
  <2> QED
    BY <1>1, <1>2, <2>1, <2>2, <2>3, <2>4
<1>5. CASE marked /\ latest' # Unset
  <2>1. /\ day' \in {day, day + 1} /\ day' <= MaxDay
        /\ high' = IF day' = day THEN high ELSE 0
    BY <1>0, <1>5 DEF Process
  <2>2. PICK read2 \in {day, day'}, read3 \in {day, day'} : Check(latest', day, read2, read3)
    BY <1>5 DEF Process
  <2> QED
    BY <1>4, <2>1, <2>2
<1>6. CASE ~(marked /\ latest' # Unset)
  BY <1>3, <1>6 DEF Process, switch
<1> QED
  BY <1>5, <1>6

LEMMA TypeNext == TypeOK /\ [Next]_vars => TypeOK'
<1> SUFFICES ASSUME TypeOK, [Next]_vars PROVE TypeOK'
  OBVIOUS
<1> USE BoundAssumption DEF TypeOK, worker, switch
<1>1. ASSUME NEW e \in Levels \cup {Unset}, Report(e) PROVE TypeOK'
  <2>1. /\ queue' = Append(queue, e) /\ Len(queue) < MaxQueue
        /\ equity' \in Levels \cup {Unset} /\ high' \in Levels \cup {Unset}
        /\ UNCHANGED <<day, marked, latest, asleep, daily, hwm, tripped>>
    BY <1>1 DEF Report
  <2>2. queue' \in Seq(Levels \cup {Unset}) /\ Len(queue') <= MaxQueue
    BY <2>1
  <2>3. {latest', asleep', hwm', equity', high'} \subseteq Levels \cup {Unset}
    BY <2>1
  <2>4. day' \in 1..MaxDay /\ marked' \in BOOLEAN /\ daily' \in 0..MaxDay /\ tripped' \in BOOLEAN
    BY <2>1
  <2> HIDE DEF TypeOK
  <2> QED
    BY <2>2, <2>3, <2>4 DEF TypeOK
<1>2. CASE MarkSeen
  BY <1>2 DEF MarkSeen, Unset
<1>3. CASE NextDay
  BY <1>3 DEF NextDay, Unset
<1>4. CASE Process
  BY <1>4, TypeProcess
<1>5. CASE Wake
  BY <1>5 DEF Wake
<1>6. CASE Restart
  <2>1. queue' \in Seq(Levels \cup {Unset}) /\ Len(queue') <= MaxQueue
    BY <1>6, EmptyQueue DEF Restart
  <2>2. day' \in 1..MaxDay /\ daily' \in 0..MaxDay
    BY <1>6 DEF Restart, Unset
  <2>3. marked' \in BOOLEAN /\ tripped' \in BOOLEAN
    BY <1>6, Zenon DEF Restart
  <2>4. {latest', asleep', hwm', equity', high'} \subseteq Levels \cup {Unset}
    BY <1>6 DEF Restart, Unset
  <2> HIDE DEF TypeOK
  <2> QED
    BY <2>1, <2>2, <2>3, <2>4 DEF TypeOK
<1>7. CASE UNCHANGED vars
  BY <1>7 DEF vars
<1> QED
  BY <1>1, <1>2, <1>3, <1>4, <1>5, <1>6, <1>7 DEF Next

\* Every variable keeps its type; the bound of the queue is the risk queue's.
THEOREM TypeCorrect == Spec => []TypeOK
  BY TypeInit, TypeNext, PTL DEF Spec

\* Whatever locked the switch, the first check of a day leaves it open, unless
\* midnight cuts that very check in two.
THEOREM DayOpens == Spec => NewDayOpens
<1>1. TypeOK /\ [Next]_vars => [daily' # daily /\ day' = day => ~tripped']_vars
  <2> SUFFICES ASSUME TypeOK, [Next]_vars, daily' # daily, day' = day
               PROVE  ~tripped'
    OBVIOUS
  <2>1. CASE Process
    <3>1. day + 1 # day
      BY BoundAssumption DEF TypeOK
    <3>2. marked /\ latest' # Unset
      BY <2>1 DEF Process, switch
    <3>3. Check(latest', day, day, day)
      BY <2>1, <3>2 DEF Process
    <3> QED
      BY <3>3 DEF Check, Locked
  <2>2. CASE Restart
    BY <2>2 DEF Restart
  <2> QED
    BY <2>1, <2>2 DEF Next, Report, MarkSeen, NextDay, Wake, switch, vars
<1> QED
  BY <1>1, TypeCorrect, PTL DEF Spec, NewDayOpens
=============================================================================
