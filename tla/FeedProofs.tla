------------------------------ MODULE FeedProofs ------------------------------
(***************************************************************************)
(* Theorems about the way of the events, for every size of the queues and  *)
(* of the buffers, every number of events and of days. In Feed: what is    *)
(* received is handed on, the recording follows the strategy, the waits    *)
(* grow. In Recording: the compaction loses nothing, a replay is in order, *)
(* a write that stops early costs one later line.                          *)
(***************************************************************************)
EXTENDS Feed, Recording, SequenceTheorems, FiniteSetTheorems, WellFoundedInduction, TLAPS

-----------------------------------------------------------------------------
(* Waits. *)

Waits == backoff \in Nat /\ backoff >= 10

\* A wait drawn from twice the backoff is longer, unless it is at the limit.
LEMMA Longer ==
    ASSUME NEW b \in Nat, b >= 10, NEW i \in 8..12, NEW j \in 8..12
    PROVE  LET next == MinOf(b * 2, BackoffMax)
               before == MinOf((b * i) \div 10, BackoffMax)
               after  == MinOf((next * j) \div 10, BackoffMax)
           IN  after > before \/ 10 * after >= 8 * BackoffMax
<1> DEFINE next == MinOf(b * 2, BackoffMax)
           after == MinOf((next * j) \div 10, BackoffMax)
<1>1. BackoffMax \in Nat /\ BackoffMax % 10 = 0
  BY TimeAssumption
<1>2. PICK k \in Nat : BackoffMax = 10 * k
  BY <1>1
<1>3. CASE b * 2 >= BackoffMax
  <2>1. next = BackoffMax
    BY <1>1, <1>3 DEF MinOf
  <2>2. (next * j) \div 10 >= 8 * k
    <3>1. next * j >= 80 * k
      BY <1>2, <2>1
    <3>2. next * j \in Nat
      BY <1>1, <2>1
    <3> HIDE DEF next
    <3> QED
      BY <1>2, <3>1, <3>2
  <2>3. after \in Nat /\ after >= 8 * k
    <3>1. (next * j) \div 10 \in Nat
      BY <1>1, <2>1
    <3> QED
      BY <1>1, <1>2, <2>2, <3>1 DEF MinOf
  <2>4. 10 * after >= 8 * BackoffMax
    <3> HIDE DEF after
    <3> QED
      BY <1>2, <2>3
  <2> QED
    BY <2>4
<1>4. CASE b * 2 < BackoffMax
  <2>1. next = b * 2
    BY <1>4 DEF MinOf
  <2>2. (b * i) \div 10 < (b * 2 * j) \div 10
    <3>1. b * i <= b * 12 /\ b * 2 * j >= b * 16 /\ b * i \in Nat /\ b * 2 * j \in Nat
      OBVIOUS
    <3>2. b * 2 * j >= b * i + 40
      BY <3>1
    <3> DEFINE x == b * i
               y == b * 2 * j
    <3>3. x \in Nat /\ y \in Nat /\ y >= x + 40
      BY <3>1, <3>2
    <3> HIDE DEF x, y
    <3>4. x \div 10 < y \div 10
      BY <3>3
    <3> QED
      BY <3>4 DEF x, y
  <2> QED
    BY <1>1, <2>1, <2>2 DEF MinOf
<1> QED
  BY <1>1, <1>3, <1>4

\* Without an accepted connection in between, each wait is longer than the one
\* before it, whatever the jitter, until they are at their limit
\* (Feed!BackoffGrows).
THEOREM WaitsGrow == Spec => BackoffGrows
<1>1. Init => Waits
  BY TimeAssumption DEF Init, Waits
<1>2. Waits /\ [Next]_vars => Waits'
  <2> SUFFICES ASSUME Waits, [Next]_vars PROVE Waits'
    OBVIOUS
  <2>1. BackoffMax \in Nat /\ BackoffMax >= 10 /\ Backoff0 \in Nat /\ Backoff0 >= 10
    BY TimeAssumption
  <2>2. CASE Connect
    BY <2>1, <2>2 DEF Connect, Waits
  <2>3. CASE Lose
    BY <2>1, <2>3 DEF Lose, Doubled, MinOf, Waits
  <2>4. CASE backoff' = backoff
    BY <2>4 DEF Waits
  <2>5. \/ Connect \/ Lose \/ backoff' = backoff
    BY DEF Next, vars, listener, Subscribe, Retry, Receive, Take, Resume, Write, WriteFails, Get, Done,
           Shutdown, Close, Exited
  <2> QED
    BY <2>2, <2>3, <2>4, <2>5
<1>3. Waits /\ [Next]_vars => [conn = "connecting" /\ conn' = "waiting" =>
           \A before \in Delays, after \in Delays' :
               after > before \/ 10 * after >= 8 * BackoffMax]_vars
  <2> SUFFICES ASSUME Waits, [Next]_vars, conn = "connecting", conn' = "waiting",
                      NEW before \in Delays, NEW after \in Delays'
               PROVE  after > before \/ 10 * after >= 8 * BackoffMax
    OBVIOUS
  <2>1. backoff' = Doubled
    BY DEF Next, vars, listener, Connect, Lose, Subscribe, Retry, Receive, Take, Resume, Write, WriteFails,
           Get, Done, Shutdown, Close, Exited
  <2>2. PICK i \in 8..12 : before = MinOf((backoff * i) \div 10, BackoffMax)
    BY DEF Delays
  <2>3. PICK j \in 8..12 : after = MinOf((Doubled * j) \div 10, BackoffMax)
    BY <2>1 DEF Delays
  <2> QED
    BY <2>2, <2>3, Longer DEF Waits, Doubled
<1> QED
  BY <1>1, <1>2, <1>3, PTL DEF Spec, BackoffGrows

-----------------------------------------------------------------------------
(* Sequences of numbers. *)

\* The numbers of a queue that grows at its end or loses its head.
LEMMA NumbersOf ==
    ASSUME NEW q \in Seq(Event)
    PROVE  /\ Numbers(q) \in Seq(Nat) /\ Len(Numbers(q)) = Len(q)
           /\ \A e \in Event : Numbers(Append(q, e)) = Numbers(q) \o <<e.n>>
           /\ q # <<>> => /\ Head(q).n \in Nat
                          /\ Numbers(q) = <<Head(q).n>> \o Numbers(Tail(q))
<1>1. \A e \in Event : e.n \in Nat
  BY SizeAssumption DEF Event
<1>2. \A s \in Seq(Event) : /\ Numbers(s) \in Seq(Nat) /\ Len(Numbers(s)) = Len(s)
                            /\ \A i \in 1..Len(s) : Numbers(s)[i] = s[i].n
  <2> TAKE s \in Seq(Event)
  <2>1. DOMAIN s = 1..Len(s) /\ Len(s) \in Nat /\ \A i \in 1..Len(s) : s[i] \in Event
    BY LenProperties, ElementOfSeq
  <2>2. Numbers(s) = [i \in 1..Len(s) |-> s[i].n]
    BY <2>1 DEF Numbers
  <2>3. \A i \in 1..Len(s) : s[i].n \in Nat
    BY <1>1, <2>1
  <2>4. Numbers(s) \in [1..Len(s) -> Nat]
    BY <2>2, <2>3
  <2>5. Numbers(s) \in Seq(Nat)
    BY <2>1, <2>4, SeqDef
  <2> QED
    BY <2>1, <2>2, <2>5, LenProperties
<1>3. ASSUME NEW e \in Event PROVE Numbers(Append(q, e)) = Numbers(q) \o <<e.n>>
  <2> DEFINE r == Append(q, e)
             t == Numbers(q) \o <<e.n>>
  <2>1. /\ r \in Seq(Event) /\ Len(r) = Len(q) + 1 /\ r[Len(q) + 1] = e
        /\ \A i \in 1..Len(q) : r[i] = q[i]
    BY AppendProperties
  <2>2. <<e.n>> \in Seq(Nat) /\ Len(<<e.n>>) = 1 /\ <<e.n>>[1] = e.n
    BY <1>1
  <2>3. /\ t \in Seq(Nat) /\ Len(t) = Len(Numbers(q)) + 1
        /\ \A i \in 1..Len(Numbers(q)) + 1 :
               t[i] = IF i <= Len(Numbers(q)) THEN Numbers(q)[i] ELSE <<e.n>>[i - Len(Numbers(q))]
    BY <1>2, <2>2, ConcatProperties
  <2>4. Len(q) \in Nat /\ Numbers(r) \in Seq(Nat) /\ Len(Numbers(r)) = Len(t)
    BY <1>2, <2>1, <2>3, LenProperties
  <2> HIDE DEF r, t
  <2>5. \A i \in 1..Len(t) : Numbers(r)[i] = t[i]
    <3> TAKE i \in 1..Len(t)
    <3>1. Len(t) = Len(q) + 1 /\ Len(r) = Len(q) + 1 /\ Len(Numbers(q)) = Len(q)
      BY <1>2, <2>1, <2>3
    <3>2. Numbers(r)[i] = r[i].n
      BY <1>2, <2>1, <3>1
    <3>3. CASE i \in 1..Len(q)
      <4>1. i <= Len(Numbers(q)) /\ i \in 1..Len(Numbers(q)) + 1
        BY <2>4, <3>1, <3>3
      <4>2. t[i] = Numbers(q)[i] /\ Numbers(q)[i] = q[i].n
        BY <1>2, <2>3, <3>3, <4>1
      <4> QED
        BY <2>1, <3>2, <3>3, <4>2
    <3>4. CASE i = Len(q) + 1
      BY <2>1, <2>2, <2>3, <2>4, <3>1, <3>2, <3>4
    <3> QED
      BY <2>4, <3>1, <3>3, <3>4
  <2> QED
    BY <2>3, <2>4, <2>5, SeqEqual DEF r, t
<1>4. ASSUME q # <<>>
      PROVE  Head(q).n \in Nat /\ Numbers(q) = <<Head(q).n>> \o Numbers(Tail(q))
  <2> DEFINE h == Head(q).n
             u == Numbers(Tail(q))
             t == <<h>> \o u
  <2>1. /\ Head(q) \in Event /\ Tail(q) \in Seq(Event) /\ Len(Tail(q)) = Len(q) - 1
        /\ \A i \in 1..Len(Tail(q)) : Tail(q)[i] = q[i + 1]
        /\ Head(q) = q[1] /\ Len(q) \in Nat
    BY <1>4, HeadTailProperties, LenProperties
  <2>2. h \in Nat
    BY <1>1, <2>1
  <2>3. <<h>> \in Seq(Nat) /\ Len(<<h>>) = 1 /\ <<h>>[1] = h
    BY <2>2, SMTT(30)
  <2>4. u \in Seq(Nat) /\ Len(u) = Len(q) - 1 /\ \A i \in 1..Len(u) : u[i] = q[i + 1].n
    <3> DEFINE r == Tail(q)
    <3>1. r \in Seq(Event) /\ Len(r) = Len(q) - 1 /\ \A i \in 1..Len(r) : r[i] = q[i + 1]
      BY <2>1
    <3> HIDE DEF r
    <3>2. /\ Numbers(r) \in Seq(Nat) /\ Len(Numbers(r)) = Len(r)
          /\ \A i \in 1..Len(r) : Numbers(r)[i] = r[i].n
      BY <1>2, <3>1
    <3>3. \A i \in 1..Len(r) : Numbers(r)[i] = q[i + 1].n
      BY <3>1, <3>2
    <3> QED
      BY <3>1, <3>2, <3>3, Zenon DEF r
  <2>5. /\ t \in Seq(Nat) /\ Len(t) = 1 + Len(u)
        /\ \A i \in 1..1 + Len(u) : t[i] = IF i <= 1 THEN <<h>>[i] ELSE u[i - 1]
    BY <2>3, <2>4, ConcatProperties
  <2>6. h = q[1].n
    BY <2>1
  <2> HIDE DEF t, u, h
  <2>7. \A i \in 1..Len(t) : Numbers(q)[i] = t[i]
    <3> TAKE i \in 1..Len(t)
    <3>1. Len(t) = Len(q) /\ Numbers(q)[i] = q[i].n /\ Len(u) \in Nat
      BY <1>2, <2>1, <2>4, <2>5
    <3>2. CASE i = 1
      BY <2>1, <2>3, <2>5, <2>6, <3>1, <3>2
    <3>3. CASE i # 1
      <4>1. i - 1 \in 1..Len(u) /\ t[i] = u[i - 1]
        BY <2>1, <2>4, <2>5, <3>1, <3>3
      <4> QED
        BY <2>1, <2>4, <3>1, <4>1
    <3> QED
      BY <3>2, <3>3
  <2>8. Numbers(q) \in Seq(Nat) /\ Len(Numbers(q)) = Len(t)
    BY <1>2, <2>1, <2>4, <2>5
  <2>9. Numbers(q) = t
    BY <2>5, <2>7, <2>8, SeqEqual
  <2> QED
    BY <2>2, <2>9 DEF t, u, h
<1> QED
  BY <1>2, <1>3, <1>4

\* The beginning of a sequence.
LEMMA Beginning ==
    ASSUME NEW s \in Seq(Nat), NEW t \in Seq(Nat)
    PROVE  IsPrefix(s, s \o t)
<1>1. /\ Len(s) \in Nat /\ Len(t) \in Nat /\ s \o t \in Seq(Nat) /\ Len(s \o t) = Len(s) + Len(t)
      /\ \A i \in 1..Len(s) : (s \o t)[i] = s[i]
  BY ConcatProperties, LenProperties
<1>2. \A i \in 1..Len(s) : s[i] \in Nat /\ (s \o t)[i] \in Nat
  BY <1>1, ElementOfSeq
<1>3. /\ SubSeq(s, 1, Len(s)) \in Seq(Nat) /\ Len(SubSeq(s, 1, Len(s))) = Len(s)
      /\ \A i \in 1..Len(s) : SubSeq(s, 1, Len(s))[i] = s[i]
  BY <1>1, <1>2, SubSeqProperties
<1>4. /\ SubSeq(s \o t, 1, Len(s)) \in Seq(Nat) /\ Len(SubSeq(s \o t, 1, Len(s))) = Len(s)
      /\ \A i \in 1..Len(s) : SubSeq(s \o t, 1, Len(s))[i] = (s \o t)[i]
  <2> DEFINE r == s \o t
  <2>1. \A i \in 1..Len(s) : r[i] \in Nat
    BY <1>2
  <2> HIDE DEF r
  <2>2. /\ SubSeq(r, 1, Len(s)) \in Seq(Nat) /\ Len(SubSeq(r, 1, Len(s))) = Len(s)
        /\ \A i \in 1..Len(s) : SubSeq(r, 1, Len(s))[i] = r[i]
    BY <1>1, <2>1, SubSeqProperties
  <2> QED
    BY <2>2 DEF r
<1>5. SubSeq(s, 1, Len(s)) = SubSeq(s \o t, 1, Len(s))
  BY <1>1, <1>3, <1>4, SeqEqual
<1> QED
  BY <1>1, <1>5 DEF IsPrefix

-----------------------------------------------------------------------------
(* What the strategy has taken and will, and what the recording has and will. *)

Types ==
    /\ feed \in Seq(Kinds) /\ source \in Seq(Event)
    /\ carry \in Event \cup {NoEvent}
    /\ stage \in Consumers \cup {"get", "flush", "failed", "stopped", "closed"}
    /\ queues \in [Consumers -> Seq(Event)] /\ got \in [Consumers -> Seq(Nat)]
    /\ buffer \in Seq(Nat) /\ writing \in Seq(Nat) /\ file \in Seq(Nat)

\* The strategy's events, taken and queued; the one that is on its way to it; and
\* the lines, written or not.
Strategys == got["strategy"] \o Numbers(queues["strategy"])
OnItsWay  == IF stage \in {"flush", "strategy"} THEN <<carry.n>> ELSE <<>>
Lines     == (file \o writing) \o buffer

\* Where the lines are: a flush has them all in hand, the event that filled the
\* buffer among them; otherwise the buffer has less than it takes.
Hands ==
    /\ stage \in {"flush", "strategy"} => carry \in Event /\ carry.kind \in Recorded
    /\ stage = "flush" => writing # <<>> /\ buffer = <<>> /\ Len(writing) <= FlushEvery
    /\ Alive /\ stage # "flush" => writing = <<>> /\ Len(buffer) < FlushEvery
    /\ stage = "stopped" => writing = <<>> \/ buffer = <<>>
    /\ stage = "closed" => buffer = <<>>

Following ==
    /\ stage # "failed"
    /\ Hands
    /\ Alive => Strategys \o OnItsWay = Lines
    /\ ~Alive => \E rest \in Seq(Nat) : Lines = got["strategy"] \o rest
    /\ Len(got["strategy"]) < Len(file) + FlushEvery

\* The order of the consumers.
LEMMA Places == Place["strategy"] = 1 /\ Place["position"] = 2 /\ Place["risk"] = 3
<1>1. Order[1] = "strategy" /\ Order[2] = "position" /\ Order[3] = "risk"
  BY DEF Order
<1>2. \A i \in 1..3 : i = 1 \/ i = 2 \/ i = 3
  OBVIOUS
<1>3. 1 \in 1..3 /\ 2 \in 1..3 /\ 3 \in 1..3
  OBVIOUS
<1>4. /\ Place["strategy"] = CHOOSE i \in 1..3 : Order[i] = "strategy"
      /\ Place["position"] = CHOOSE i \in 1..3 : Order[i] = "position"
      /\ Place["risk"] = CHOOSE i \in 1..3 : Order[i] = "risk"
  BY DEF Place, Consumers
<1>5. \A i \in 1..3 : (Order[i] = "strategy" => i = 1) /\ (Order[i] = "position" => i = 2) /\ (Order[i] = "risk" => i = 3)
  BY <1>1, <1>2
<1>6. Place["strategy"] \in 1..3 /\ Order[Place["strategy"]] = "strategy"
  BY <1>1, <1>3, <1>4
<1>7. Place["position"] \in 1..3 /\ Order[Place["position"]] = "position"
  BY <1>1, <1>3, <1>4
<1>8. Place["risk"] \in 1..3 /\ Order[Place["risk"]] = "risk"
  BY <1>1, <1>3, <1>4
<1> QED
  BY <1>5, <1>6, <1>7, <1>8

\* What a round of puts does to the strategy's queue: it is the first in turn, so
\* it has the event, or is the one that is waited for.
LEMMA ServeStrategy ==
    ASSUME Types, NEW i \in 1..3, NEW e \in Event \cup {NoEvent}, Serve(i, e)
    PROVE  LET gets == i = 1 /\ e.kind \in Recorded
               room == Len(queues["strategy"]) < QueueCap
           IN  /\ queues' \in [Consumers -> Seq(Event)] /\ got' = got
               /\ carry' \in Event \cup {NoEvent}
               /\ queues'["strategy"] = IF gets /\ room THEN Append(queues["strategy"], e)
                                                        ELSE queues["strategy"]
               /\ IF gets /\ ~room THEN stage' = "strategy" /\ carry' = e
                                   ELSE stage' \in {"get", "position", "risk"}
               /\ gets => e \in Event
<1> DEFINE to   == {c \in Consumers : Place[c] >= i /\ e.kind \in Wants[c]}
           full == {c \in to : Len(queues[c]) >= QueueCap}
           done == {c \in to : \A f \in full : Place[c] < Place[f]}
           gets == i = 1 /\ e.kind \in Recorded
           room == Len(queues["strategy"]) < QueueCap
<1>1. /\ queues' = [c \in Consumers |-> IF c \in done THEN Append(queues[c], e) ELSE queues[c]]
      /\ got' = got
      /\ IF full = {} THEN stage' = "get" /\ carry' = NoEvent
         ELSE stage' = (CHOOSE c \in full : \A f \in full : Place[c] <= Place[f]) /\ carry' = e
  BY DEF Serve
<1>2. /\ "strategy" \in to <=> gets
      /\ to \subseteq Consumers
      /\ \A c \in Consumers : c = "strategy" \/ c = "position" \/ c = "risk"
      /\ \A c \in Consumers : Place[c] >= 1 /\ Place[c] \in Nat /\ (Place[c] <= 1 => c = "strategy")
  BY Places DEF Consumers, Wants, Recorded
<1>3. "strategy" \in full <=> gets /\ ~room
  <2>1. Len(queues["strategy"]) \in Nat /\ QueueCap \in Nat
    BY SizeAssumption, LenProperties DEF Types, Consumers
  <2> HIDE DEF to, gets
  <2> QED
    BY <1>2, <2>1
<1>4. "strategy" \in done <=> gets /\ room
  <2>1. CASE gets /\ room
    <3>1. \A f \in full : f # "strategy" /\ f \in Consumers
      BY <1>2, <1>3, <2>1
    <3>2. \A f \in full : Place["strategy"] < Place[f]
      BY <1>2, <3>1, Places
    <3> HIDE DEF to, full, gets, room
    <3> QED
      BY <1>2, <2>1, <3>2
  <2>2. CASE gets /\ ~room
    <3>1. "strategy" \in full
      BY <1>3, <2>2
    <3> HIDE DEF to, full, gets, room
    <3> QED
      BY <2>2, <3>1, Places
  <2>3. CASE ~gets
    <3> HIDE DEF full, to, gets, room
    <3> QED
      BY <1>2, <2>3
  <2> QED
    BY <2>1, <2>2, <2>3
<1>5. full \subseteq Consumers
  BY <1>2
<1> HIDE DEF to, full, done
<1>6. IF gets /\ ~room THEN stage' = "strategy" /\ carry' = e ELSE stage' \in {"get", "position", "risk"}
  <2>1. CASE full = {}
    BY <1>1, <1>3, <2>1
  <2>2. CASE full # {}
    <3>1. \E c \in full : \A f \in full : Place[c] <= Place[f]
      <4>1. \A c \in full : c = "strategy" \/ c = "position" \/ c = "risk"
        BY <1>2, <1>5
      <4> QED
        BY <2>2, <4>1, Places
    <3>2. stage' \in full /\ \A f \in full : Place[stage'] <= Place[f]
      BY <1>1, <2>2, <3>1
    <3>3. CASE gets /\ ~room
      <4>1. Place[stage'] <= Place["strategy"] /\ stage' \in Consumers
        BY <1>3, <1>5, <3>2, <3>3
      <4> QED
        BY <1>1, <1>2, <2>2, <3>3, <4>1, Places
    <3>4. CASE ~(gets /\ ~room)
      <4>1. stage' # "strategy" /\ stage' \in Consumers
        BY <1>3, <1>5, <3>2, <3>4
      <4> HIDE DEF gets, room
      <4> QED
        BY <1>2, <3>4, <4>1
    <3> QED
      BY <3>3, <3>4
  <2> QED
    BY <2>1, <2>2
<1>10. e.kind # "none" => e \in Event
  BY DEF NoEvent
<1>7. queues' \in [Consumers -> Seq(Event)]
  <2>1. \A c \in done : e.kind \in Wants[c] /\ c \in Consumers
    BY <1>2 DEF done, to
  <2>2. \A c \in Consumers : "none" \notin Wants[c]
    <3>1. "none" \notin Wants["strategy"] /\ "none" \notin Wants["position"] /\ "none" \notin Wants["risk"]
      BY DEF Wants
    <3> QED
      BY <1>2, <3>1
  <2>3. \A c \in done : e \in Event
    BY <1>10, <2>1, <2>2
  <2>4. \A c \in Consumers : queues[c] \in Seq(Event)
    BY DEF Types
  <2>5. \A c \in done : Append(queues[c], e) \in Seq(Event)
    BY <2>1, <2>3, <2>4, AppendProperties
  <2> QED
    BY <1>1, <2>4, <2>5
<1>8. queues'["strategy"] = IF gets /\ room THEN Append(queues["strategy"], e) ELSE queues["strategy"]
  <2>1. "strategy" \in Consumers
    BY DEF Consumers
  <2> HIDE DEF gets, room
  <2> QED
    BY <1>1, <1>4, <2>1
<1>9. carry' \in Event \cup {NoEvent}
  BY <1>1
<1>11. gets => e \in Event
  BY <1>10 DEF Recorded
<1> QED
  BY <1>1, <1>6, <1>7, <1>8, <1>9, <1>11

LEMMA TypesSteps == ASSUME Types, [Next]_vars PROVE Types'
<1> USE DEF Types
<1>0. /\ NoEvent \in Event \cup {NoEvent} /\ SizeAssumption
      /\ \A q \in Seq(Event) : q # <<>> => Head(q) \in Event /\ Tail(q) \in Seq(Event)
  BY SizeAssumption, HeadTailProperties DEF SizeAssumption
<1>1. ASSUME NEW kind \in Kinds, Receive(kind) PROVE Types'
  <2>1. feed' \in Seq(Kinds) /\ Len(feed') = Len(feed) + 1 /\ Len(feed) < MaxSent /\ Len(feed) \in Nat
    BY <1>1, AppendProperties, LenProperties DEF Receive
  <2>2. [n |-> Len(feed'), kind |-> kind] \in Event
    BY <2>1, SizeAssumption DEF Event
  <2>3. \A q \in Seq(Event) : Append(q, [n |-> Len(feed'), kind |-> kind]) \in Seq(Event)
    BY <2>2, AppendProperties
  <2>4. Len(source) < Cap \/ source # <<>>
    BY SizeAssumption
  <2>5. source' \in Seq(Event)
    BY <1>0, <1>1, <2>3, <2>4 DEF Receive, Queued
  <2> QED
    BY <1>1, <2>1, <2>5 DEF Receive, fanout, readers, recorder
<1>2. CASE Take
  <2>1. source # <<>> /\ source' = Tail(source) /\ Head(source) \in Event /\ feed' = feed
    BY <1>0, <1>2 DEF Take
  <2> DEFINE e     == Head(source)
             lines == Append(buffer, e.n)
  <2>2. lines \in Seq(Nat) /\ <<>> \in Seq(Nat)
    BY <2>1, AppendProperties, SizeAssumption DEF Event
  <2>3. \/ Serve(1, e) /\ UNCHANGED <<writing, file>> /\ buffer' \in {buffer, lines}
        \/ buffer' = <<>> /\ writing' = lines /\ stage' = "flush" /\ carry' = e /\ UNCHANGED <<file, queues, got>>
    BY <1>2 DEF Take, recorder, readers
  <2>4. Serve(1, e) => /\ queues' \in [Consumers -> Seq(Event)] /\ got' = got
                       /\ carry' \in Event \cup {NoEvent} /\ stage' \in Consumers \cup {"get"}
    BY <2>1, 1 \in 1..3, ServeStrategy DEF Consumers
  <2> HIDE DEF e, lines
  <2>5. e \in Event
    BY <2>1 DEF e
  <2> QED
    BY <1>0, <2>1, <2>2, <2>3, <2>4, <2>5
<1>3. ASSUME NEW c \in Consumers, Resume(c) PROVE Types'
  <2>1. Place[c] \in 1..3 /\ Serve(Place[c], carry) /\ UNCHANGED <<feed, source, buffer, writing, file>>
    BY <1>3, Places DEF Resume, Consumers, recorder
  <2>2. /\ queues' \in [Consumers -> Seq(Event)] /\ got' = got
        /\ carry' \in Event \cup {NoEvent} /\ stage' \in Consumers \cup {"get"}
    BY <2>1, ServeStrategy DEF Consumers
  <2> QED
    BY <2>1, <2>2
<1>4. CASE Write
  <2>1. /\ UNCHANGED <<feed, source, buffer>> /\ file' = file \o writing /\ writing' = <<>>
        /\ (stage = "flush" /\ Serve(1, carry)) \/ UNCHANGED <<carry, stage, queues, got>>
    BY <1>4 DEF Write, fanout, readers
  <2>2. file' \in Seq(Nat) /\ writing' \in Seq(Nat)
    BY <2>1, ConcatProperties
  <2>3. CASE Serve(1, carry)
    <3>1. /\ queues' \in [Consumers -> Seq(Event)] /\ got' = got
          /\ carry' \in Event \cup {NoEvent} /\ stage' \in Consumers \cup {"get"}
      BY <2>3, 1 \in 1..3, ServeStrategy DEF Consumers
    <3> QED
      BY <2>1, <2>2, <3>1
  <2>4. CASE UNCHANGED <<carry, stage, queues, got>>
    BY <2>1, <2>2, <2>4
  <2> QED
    BY <2>1, <2>3, <2>4
<1>5. CASE WriteFails
  BY <1>5 DEF WriteFails, readers
<1>6. ASSUME NEW c \in Consumers, Get(c) PROVE Types'
  <2>1. /\ queues[c] # <<>> /\ queues' = [queues EXCEPT ![c] = Tail(@)]
        /\ got' = [got EXCEPT ![c] = Append(@, Head(queues[c]).n)]
        /\ UNCHANGED <<feed, source, carry, stage, buffer, writing, file>>
    BY <1>6 DEF Get, fanout, recorder
  <2>2. Tail(queues[c]) \in Seq(Event) /\ Head(queues[c]) \in Event /\ Head(queues[c]).n \in Nat
    BY <1>0, <2>1, NumbersOf
  <2>3. Append(got[c], Head(queues[c]).n) \in Seq(Nat)
    BY <2>2, AppendProperties
  <2> QED
    BY <2>1, <2>2, <2>3
<1>7. CASE Shutdown
  BY <1>0, <1>7 DEF Shutdown, readers, recorder
<1>8. CASE Close
  <2>1. file \o buffer \in Seq(Nat) /\ <<>> \in Seq(Nat)
    BY ConcatProperties
  <2> QED
    BY <1>8, <2>1 DEF Close, readers, recorder
<1>9. CASE Connect \/ Subscribe \/ Lose \/ Retry
  BY <1>9 DEF Connect, Subscribe, Lose, Retry, fanout, readers, recorder
<1>10. ASSUME NEW c \in Consumers, Done(c) PROVE Types'
  BY <1>10 DEF Done, fanout, recorder
<1>11. CASE Exited \/ UNCHANGED vars
  BY <1>11 DEF Exited, vars, fanout, readers, recorder
<1> QED
  BY <1>1, <1>2, <1>3, <1>4, <1>5, <1>6, <1>7, <1>8, <1>9, <1>10, <1>11 DEF Next

-----------------------------------------------------------------------------
(* The recording follows the strategy. *)

\* What the steps need of concatenation.
LEMMA Joined ==
    /\ <<>> \in Seq(Nat)
    /\ \A x \in Nat : <<x>> \in Seq(Nat) /\ Len(<<x>>) = 1
    /\ \A s, t \in Seq(Nat) : /\ s \o t \in Seq(Nat) /\ Len(s \o t) = Len(s) + Len(t)
                              /\ s \o <<>> = s /\ Len(s) \in Nat
    /\ \A s, t, u \in Seq(Nat) : (s \o t) \o u = s \o (t \o u)
    /\ \A s \in Seq(Nat), x \in Nat :
           /\ Append(s, x) = s \o <<x>> /\ Append(s, x) \in Seq(Nat)
           /\ Append(s, x) # <<>> /\ Len(Append(s, x)) = Len(s) + 1
<1>1. <<>> \in Seq(Nat)
  OBVIOUS
<1>2. \A x \in Nat : <<x>> \in Seq(Nat) /\ Len(<<x>>) = 1
  OBVIOUS
<1>3. \A s, t \in Seq(Nat) : /\ s \o t \in Seq(Nat) /\ Len(s \o t) = Len(s) + Len(t)
                             /\ s \o <<>> = s /\ Len(s) \in Nat
  BY ConcatProperties, ConcatEmptySeq, LenProperties
<1>4. \A s, t, u \in Seq(Nat) : (s \o t) \o u = s \o (t \o u)
  BY ConcatAssociative, SMTT(30)
<1>5. \A s \in Seq(Nat), x \in Nat :
          /\ Append(s, x) = s \o <<x>> /\ Append(s, x) \in Seq(Nat)
          /\ Append(s, x) # <<>> /\ Len(Append(s, x)) = Len(s) + 1
  BY AppendIsConcat, AppendProperties
<1> QED
  BY <1>1, <1>2, <1>3, <1>4, <1>5

\* The parts of the two sides are sequences of numbers.
LEMMA Sides ==
    ASSUME Types
    PROVE  /\ got["strategy"] \in Seq(Nat) /\ Numbers(queues["strategy"]) \in Seq(Nat)
           /\ Strategys \in Seq(Nat) /\ Lines \in Seq(Nat)
           /\ file \o writing \in Seq(Nat)
           /\ carry \in Event => carry.n \in Nat
<1>1. got["strategy"] \in Seq(Nat) /\ queues["strategy"] \in Seq(Event)
  BY DEF Types, Consumers
<1>2. Numbers(queues["strategy"]) \in Seq(Nat)
  BY <1>1, NumbersOf
<1>3. buffer \in Seq(Nat) /\ writing \in Seq(Nat) /\ file \in Seq(Nat)
  BY DEF Types
<1>4. carry \in Event => carry.n \in Nat
  BY SizeAssumption DEF Event
<1> QED
  BY <1>1, <1>2, <1>3, <1>4, Joined DEF Strategys, Lines

\* The strategy's queue has grown by e.
LEMMA StrategysGrow ==
    ASSUME Types, NEW e \in Event, got' = got, queues'["strategy"] = Append(queues["strategy"], e)
    PROVE  Strategys' = Strategys \o <<e.n>>
<1>1. queues["strategy"] \in Seq(Event) /\ e.n \in Nat
  BY SizeAssumption DEF Types, Consumers, Event
<1>2. Numbers(queues'["strategy"]) = Numbers(queues["strategy"]) \o <<e.n>>
  BY <1>1, NumbersOf
<1>3. Strategys' = got["strategy"] \o (Numbers(queues["strategy"]) \o <<e.n>>)
  BY <1>2 DEF Strategys
<1>4. <<e.n>> \in Seq(Nat) /\ got["strategy"] \in Seq(Nat) /\ Numbers(queues["strategy"]) \in Seq(Nat)
  BY <1>1, Sides, Joined
<1>5. got["strategy"] \o (Numbers(queues["strategy"]) \o <<e.n>>)
      = (got["strategy"] \o Numbers(queues["strategy"])) \o <<e.n>>
  <2> DEFINE g == got["strategy"]
             q == Numbers(queues["strategy"])
             x == <<e.n>>
  <2>1. g \in Seq(Nat) /\ q \in Seq(Nat) /\ x \in Seq(Nat)
    BY <1>4
  <2> HIDE DEF g, q, x
  <2>2. (g \o q) \o x = g \o (q \o x)
    BY <2>1, ConcatAssociative, SMTT(30)
  <2> QED
    BY <2>2 DEF g, q, x
<1> QED
  BY <1>3, <1>5 DEF Strategys

\* A round of puts that begins with the strategy, the event's number being the
\* last of the lines; one that begins after it.
LEMMA ServeFollows ==
    ASSUME Types, NEW e \in Event \cup {NoEvent}, NEW i \in 1..3, Serve(i, e),
           i = 1 /\ e.kind \in Recorded => Lines' = Strategys \o <<e.n>>,
           ~(i = 1 /\ e.kind \in Recorded) => Lines' = Strategys
    PROVE  /\ (Strategys \o OnItsWay)' = Lines'
           /\ stage' \in Consumers \cup {"get"}
           /\ stage' = "strategy" => carry' \in Event /\ carry'.kind \in Recorded
           /\ got' = got
<1> DEFINE gets == i = 1 /\ e.kind \in Recorded
           room == Len(queues["strategy"]) < QueueCap
<1>1. /\ got' = got
      /\ queues'["strategy"] = IF gets /\ room THEN Append(queues["strategy"], e) ELSE queues["strategy"]
      /\ IF gets /\ ~room THEN stage' = "strategy" /\ carry' = e ELSE stage' \in {"get", "position", "risk"}
      /\ gets => e \in Event
  BY ServeStrategy
<1>2. Strategys \in Seq(Nat)
  BY Sides
<1>3. CASE gets /\ room
  <2>1. Strategys' = Strategys \o <<e.n>> /\ stage' \in {"get", "position", "risk"}
    BY <1>1, <1>3, StrategysGrow
  <2>2. Strategys' \in Seq(Nat) /\ OnItsWay' = <<>>
    <3>1. e.n \in Nat
      BY <1>1, <1>3, SizeAssumption DEF Event
    <3> QED
      BY <1>2, <2>1, <3>1, Joined DEF OnItsWay
  <2>3. Strategys' \o OnItsWay' = Strategys'
    BY <2>2, Joined
  <2> QED
    BY <1>1, <1>3, <2>1, <2>3 DEF Consumers
<1>4. CASE gets /\ ~room
  <2>1. Strategys' = Strategys /\ stage' = "strategy" /\ carry' = e
    BY <1>1, <1>4 DEF Strategys
  <2>2. OnItsWay' = <<e.n>>
    BY <2>1 DEF OnItsWay
  <2> QED
    BY <1>1, <1>4, <2>1, <2>2 DEF Consumers
<1>5. CASE ~gets
  <2>1. Strategys' = Strategys /\ stage' \in {"get", "position", "risk"}
    BY <1>1, <1>5 DEF Strategys
  <2>2. OnItsWay' = <<>>
    BY <2>1 DEF OnItsWay
  <2>3. Strategys \o <<>> = Strategys
    BY <1>2, Joined
  <2> QED
    BY <1>1, <1>5, <2>1, <2>2, <2>3 DEF Consumers
<1> QED
  BY <1>3, <1>4, <1>5

\* What is not taken yet is the rest of the lines.
LEMMA Rest ==
    ASSUME Types, Following, Alive
    PROVE  \E rest \in Seq(Nat) : Lines = got["strategy"] \o rest
<1> DEFINE g == got["strategy"]
           q == Numbers(queues["strategy"])
<1>1. g \in Seq(Nat) /\ q \in Seq(Nat)
  BY Sides
<1>2. OnItsWay \in Seq(Nat)
  BY Sides, Joined DEF OnItsWay, Following, Hands
<1>3. Lines = (g \o q) \o OnItsWay
  BY DEF Following, Strategys
<1> HIDE DEF g, q
<1>4. Lines = g \o (q \o OnItsWay)
  BY <1>1, <1>2, <1>3, ConcatAssociative
<1>5. q \o OnItsWay \in Seq(Nat)
  BY <1>1, <1>2, Joined
<1> QED
  BY <1>4, <1>5 DEF g

LEMMA FollowingSteps ==
    ASSUME Types, Types', Following, [Next]_vars, ~diskLost'
    PROVE  Following'
<1>0. /\ Cap \in Nat /\ QueueCap \in Nat /\ FlushEvery \in Nat \ {0}
      /\ Len(got["strategy"]) \in Nat /\ Len(file) \in Nat /\ Len(buffer) \in Nat /\ Len(writing) \in Nat
  BY SizeAssumption, Joined, Sides DEF Types
<1>1. CASE Take
  <2> DEFINE e     == Head(source)
             lines == Append(buffer, e.n)
  <2>1. stage = "get" /\ source # <<>> /\ e \in Event /\ e.n \in Nat
    <3>1. stage = "get" /\ source # <<>> /\ source \in Seq(Event)
      BY <1>1 DEF Take, Types
    <3>2. e \in Event
      BY <3>1, HeadTailProperties
    <3> QED
      BY <3>1, <3>2, SizeAssumption DEF Event
  <2>2. /\ Strategys = Lines /\ writing = <<>> /\ Len(buffer) < FlushEvery
        /\ Len(got["strategy"]) < Len(file) + FlushEvery
    BY <2>1, Sides, Joined DEF Following, Hands, Alive, OnItsWay
  <2>3. Lines = file \o buffer
    BY <2>2, Joined DEF Lines, Types
  <2>4. /\ lines \in Seq(Nat) /\ Len(lines) = Len(buffer) + 1 /\ lines = buffer \o <<e.n>>
        /\ lines # <<>>
    <3>1. buffer \in Seq(Nat) /\ e.n \in Nat
      BY <2>1 DEF Types
    <3> QED
      BY <3>1, Joined
  <2>5. file \o lines = Lines \o <<e.n>>
    <3>1. buffer \in Seq(Nat) /\ file \in Seq(Nat) /\ <<e.n>> \in Seq(Nat)
      BY <2>1, Joined DEF Types
    <3>2. (file \o buffer) \o <<e.n>> = file \o (buffer \o <<e.n>>)
      BY <3>1, ConcatAssociative
    <3> QED
      BY <2>3, <2>4, <3>2
  <2>6. \/ e.kind \notin Recorded /\ Serve(1, e) /\ UNCHANGED recorder
        \/ e.kind \in Recorded /\ ~Full(lines) /\ buffer' = lines /\ Serve(1, e) /\ UNCHANGED <<writing, file>>
        \/ /\ e.kind \in Recorded /\ buffer' = <<>> /\ writing' = lines
           /\ stage' = "flush" /\ carry' = e /\ UNCHANGED <<file, readers>>
    BY <1>1 DEF Take
  <2> HIDE DEF e, lines
  <2>7. CASE e.kind \notin Recorded /\ Serve(1, e) /\ UNCHANGED recorder
    <3>1. Lines' = Strategys /\ UNCHANGED <<writing, file, buffer>>
      BY <2>2, <2>7 DEF Lines, recorder
    <3>2. /\ (Strategys \o OnItsWay)' = Lines' /\ got' = got
          /\ stage' \in Consumers \cup {"get"}
          /\ stage' = "strategy" => carry' \in Event /\ carry'.kind \in Recorded
      BY <2>1, <2>7, <3>1, 1 \in 1..3, ServeFollows
    <3> QED
      BY <2>2, <3>1, <3>2 DEF Following, Hands, Alive, Consumers
  <2>8. CASE e.kind \in Recorded /\ ~Full(lines) /\ buffer' = lines /\ Serve(1, e) /\ UNCHANGED <<writing, file>>
    <3>1. Lines' = Strategys \o <<e.n>>
      <4>1. Lines' = (file \o writing) \o lines
        BY <2>8 DEF Lines
      <4> QED
        BY <2>2, <2>5, <4>1, Joined DEF Types
    <3>2. /\ (Strategys \o OnItsWay)' = Lines' /\ got' = got
          /\ stage' \in Consumers \cup {"get"}
          /\ stage' = "strategy" => carry' \in Event /\ carry'.kind \in Recorded
      BY <2>1, <2>8, <3>1, 1 \in 1..3, ServeFollows
    <3>3. Len(buffer') < FlushEvery /\ writing' = <<>>
      BY <1>0, <2>2, <2>4, <2>8 DEF Full
    <3> QED
      BY <2>2, <2>8, <3>2, <3>3 DEF Following, Hands, Alive, Consumers
  <2>9. CASE /\ e.kind \in Recorded /\ buffer' = <<>> /\ writing' = lines
             /\ stage' = "flush" /\ carry' = e /\ UNCHANGED <<file, readers>>
    <3>1. got' = got /\ queues' = queues
      BY <2>9 DEF readers
    <3>2. Lines' = Lines \o <<e.n>>
      <4>1. Lines' = (file \o lines) \o <<>>
        BY <2>9 DEF Lines
      <4> QED
        BY <2>4, <2>5, <4>1, Joined DEF Types
    <3>3. Strategys' = Strategys /\ OnItsWay' = <<e.n>>
      BY <2>9, <3>1 DEF Strategys, OnItsWay
    <3>4. Len(writing') <= FlushEvery
      BY <1>0, <2>2, <2>4, <2>9
    <3> QED
      BY <2>1, <2>2, <2>4, <2>9, <3>1, <3>2, <3>3, <3>4 DEF Following, Hands, Alive, Consumers
  <2> QED
    BY <2>6, <2>7, <2>8, <2>9
<1>2. ASSUME NEW c \in Consumers, Resume(c) PROVE Following'
  <2>1. stage = c /\ Serve(Place[c], carry) /\ UNCHANGED <<buffer, writing, file>>
    BY <1>2 DEF Resume, recorder
  <2>2. /\ Strategys \o OnItsWay = Lines /\ writing = <<>> /\ Len(buffer) < FlushEvery
        /\ Len(got["strategy"]) < Len(file) + FlushEvery
        /\ c = "strategy" => carry \in Event /\ carry.kind \in Recorded
    BY <2>1 DEF Following, Hands, Alive, Consumers
  <2>3. Place[c] \in 1..3 /\ (Place[c] = 1 <=> c = "strategy") /\ carry \in Event \cup {NoEvent}
    <3>1. c = "strategy" \/ c = "position" \/ c = "risk"
      BY DEF Consumers
    <3>2. carry \in Event \cup {NoEvent}
      BY DEF Types
    <3> QED
      BY <3>1, <3>2, Places
  <2>4. Lines' = Lines
    BY <2>1 DEF Lines
  <2>5. CASE c = "strategy"
    <3>1. Lines' = Strategys \o <<carry.n>>
      BY <2>1, <2>2, <2>4, <2>5 DEF OnItsWay
    <3>2. /\ (Strategys \o OnItsWay)' = Lines' /\ got' = got
          /\ stage' \in Consumers \cup {"get"}
          /\ stage' = "strategy" => carry' \in Event /\ carry'.kind \in Recorded
      BY <2>1, <2>2, <2>3, <2>5, <3>1, ServeFollows
    <3> QED
      BY <2>1, <2>2, <3>2 DEF Following, Hands, Alive, Consumers
  <2>6. CASE c # "strategy"
    <3>1. Lines' = Strategys
      BY <2>1, <2>2, <2>4, <2>6, Sides, Joined DEF OnItsWay, Consumers
    <3>2. /\ (Strategys \o OnItsWay)' = Lines' /\ got' = got
          /\ stage' \in Consumers \cup {"get"}
          /\ stage' = "strategy" => carry' \in Event /\ carry'.kind \in Recorded
      BY <2>1, <2>3, <2>6, <3>1, ServeFollows
    <3> QED
      BY <2>1, <2>2, <3>2 DEF Following, Hands, Alive, Consumers
  <2> QED
    BY <2>5, <2>6
<1>3. CASE Write
  <2>1. /\ writing # <<>> /\ file' = file \o writing /\ writing' = <<>> /\ buffer' = buffer
        /\ IF stage = "flush" THEN Serve(1, carry) ELSE UNCHANGED <<carry, stage, queues, got>>
    BY <1>3 DEF Write, fanout, readers
  <2>2. Lines' = Lines
    <3>1. Lines' = ((file \o writing) \o <<>>) \o buffer
      BY <2>1 DEF Lines
    <3> QED
      BY <3>1, Sides, Joined DEF Lines
  <2>3. Len(file') \in Nat /\ Len(file') >= Len(file) /\ Len(got["strategy"]) < Len(file') + FlushEvery
    <3>1. file \in Seq(Nat) /\ writing \in Seq(Nat)
      BY DEF Types
    <3>2. Len(file') = Len(file) + Len(writing)
      BY <2>1, <3>1, Joined
    <3> QED
      BY <1>0, <3>2 DEF Following
  <2>4. CASE stage = "flush"
    <3>1. /\ carry \in Event /\ carry.kind \in Recorded /\ buffer = <<>>
          /\ Strategys \o OnItsWay = Lines
      BY <2>4 DEF Following, Hands, Alive
    <3>2. Lines' = Strategys \o <<carry.n>>
      BY <2>2, <2>4, <3>1 DEF OnItsWay
    <3>3. /\ (Strategys \o OnItsWay)' = Lines' /\ got' = got
          /\ stage' \in Consumers \cup {"get"}
          /\ stage' = "strategy" => carry' \in Event /\ carry'.kind \in Recorded
      BY <2>1, <2>4, <3>1, <3>2, 1 \in 1..3, ServeFollows
    <3>4. Len(buffer') < FlushEvery /\ Len(buffer') = 0
      BY <1>0, <2>1, <3>1
    <3> QED
      BY <2>1, <2>3, <3>3, <3>4 DEF Following, Hands, Alive, Consumers
  <2>5. CASE stage # "flush"
    <3>1. stage' = stage /\ carry' = carry /\ queues' = queues /\ got' = got /\ ~Alive
      BY <2>1, <2>5 DEF Following, Hands
    <3> QED
      BY <2>1, <2>2, <2>3, <3>1 DEF Following, Hands, Alive, Consumers
  <2> QED
    BY <2>4, <2>5
<1>4. ASSUME NEW c \in Consumers, Get(c) PROVE Following'
  <2>1. /\ stage \notin {"stopped", "closed"} /\ queues[c] # <<>>
        /\ queues' = [queues EXCEPT ![c] = Tail(@)]
        /\ got' = [got EXCEPT ![c] = Append(@, Head(queues[c]).n)]
        /\ UNCHANGED <<carry, stage, buffer, writing, file>>
    BY <1>4 DEF Get, Running, fanout, recorder
  <2>2. Alive /\ Strategys \o OnItsWay = Lines
    BY <2>1 DEF Following, Alive, Types
  <2>3. Lines' = Lines /\ OnItsWay' = OnItsWay /\ Alive' /\ Hands'
    BY <2>1, <2>2 DEF Lines, OnItsWay, Alive, Hands, Following
  <2>4. Strategys' = Strategys
    <3>1. CASE c = "strategy"
      <4> DEFINE q == queues["strategy"]
                 h == Head(q).n
                 t == Numbers(Tail(q))
      <4>1. q \in Seq(Event) /\ q # <<>> /\ Tail(q) \in Seq(Event)
        BY <2>1, <3>1, HeadTailProperties DEF Types, Consumers
      <4>2. h \in Nat /\ Numbers(q) = <<h>> \o t /\ t \in Seq(Nat)
        BY <4>1, NumbersOf
      <4>3. got'["strategy"] = Append(got["strategy"], h) /\ queues'["strategy"] = Tail(q)
        BY <2>1, <3>1 DEF Types, Consumers
      <4> HIDE DEF h, t
      <4>4. Strategys' = Append(got["strategy"], h) \o t
        BY <4>3 DEF Strategys, t
      <4>5. Append(got["strategy"], h) \o t = got["strategy"] \o (<<h>> \o t)
        <5>1. got["strategy"] \in Seq(Nat) /\ <<h>> \in Seq(Nat)
          BY <4>2, Sides, Joined
        <5>2. Append(got["strategy"], h) = got["strategy"] \o <<h>>
          BY <4>2, <5>1, Joined
        <5>3. (got["strategy"] \o <<h>>) \o t = got["strategy"] \o (<<h>> \o t)
          <6> DEFINE g == got["strategy"]
                     x == <<h>>
          <6>1. g \in Seq(Nat) /\ x \in Seq(Nat) /\ t \in Seq(Nat)
            BY <4>2, <5>1
          <6> HIDE DEF g, x
          <6>2. (g \o x) \o t = g \o (x \o t)
            BY <6>1, ConcatAssociative, SMTT(30)
          <6> QED
            BY <6>2 DEF g, x
        <5> QED
          BY <5>2, <5>3
      <4> QED
        BY <4>2, <4>4, <4>5 DEF Strategys
    <3>2. CASE c # "strategy"
      BY <2>1, <3>2 DEF Strategys, Types, Consumers
    <3> QED
      BY <3>1, <3>2
  <2>5. Len(got'["strategy"]) < Len(file) + FlushEvery
    <3> DEFINE g == got'["strategy"]
               q == Numbers(queues'["strategy"])
    <3>1. g \in Seq(Nat) /\ q \in Seq(Nat)
      <4>1. g \in Seq(Nat) /\ queues'["strategy"] \in Seq(Event)
        BY DEF Types, Consumers
      <4> QED
        BY <4>1, NumbersOf
    <3>2. (g \o q) \o OnItsWay = Lines
      BY <2>2, <2>4 DEF Strategys
    <3> HIDE DEF g, q
    <3>3. Len(Lines) = Len(file) + Len(writing) + Len(buffer)
      BY Joined DEF Lines, Types
    <3>4. CASE stage = "flush"
      <4>1. OnItsWay = <<carry.n>> /\ carry.n \in Nat /\ Len(buffer) = 0 /\ Len(writing) <= FlushEvery
        BY <3>4, Sides DEF OnItsWay, Following, Hands
      <4>2. Len(Lines) = Len(g) + Len(q) + 1 /\ Len(g) \in Nat /\ Len(q) \in Nat
        BY <3>1, <3>2, <4>1, Joined
      <4>3. Len(g) < Len(file) + FlushEvery
        BY <1>0, <3>3, <4>1, <4>2
      <4> QED
        BY <4>3 DEF g
    <3>5. CASE stage # "flush"
      <4>1. Len(writing) = 0 /\ Len(buffer) < FlushEvery
        BY <2>2, <3>5 DEF Following, Hands
      <4>2. OnItsWay \in Seq(Nat)
        BY Sides, Joined DEF OnItsWay, Following, Hands
      <4>3. Len(Lines) = Len(g) + Len(q) + Len(OnItsWay)
            /\ Len(g) \in Nat /\ Len(q) \in Nat /\ Len(OnItsWay) \in Nat
        BY <3>1, <3>2, <4>2, Joined
      <4>4. Len(g) < Len(file) + FlushEvery
        BY <1>0, <3>3, <4>1, <4>3
      <4> QED
        BY <4>4 DEF g
    <3> QED
      BY <3>4, <3>5
  <2> QED
    BY <2>1, <2>2, <2>3, <2>4, <2>5 DEF Following
<1>5. CASE Shutdown
  <2>1. /\ stage \notin {"stopped", "closed"} /\ stage' = "stopped"
        /\ UNCHANGED <<queues, got, buffer, writing, file>>
    BY <1>5 DEF Shutdown, Running, readers, recorder
  <2>2. Alive /\ Strategys \o OnItsWay = Lines /\ Lines' = Lines
    BY <2>1 DEF Following, Alive, Types, Lines
  <2>3. \E rest \in Seq(Nat) : Lines' = got'["strategy"] \o rest
    BY <2>1, <2>2, Rest
  <2>4. Hands'
    BY <2>1, <2>2 DEF Following, Hands, Alive, Consumers
  <2> QED
    BY <2>1, <2>3, <2>4 DEF Following, Alive, Consumers
<1>6. CASE Close
  <2>1. stage = "stopped" /\ stage' = "closed" /\ got' = got
    BY <1>6 DEF Close, readers
  <2>2. CASE buffer = <<>> /\ UNCHANGED recorder
    BY <2>1, <2>2 DEF Following, Hands, Alive, Lines, Consumers, recorder
  <2>3. CASE buffer # <<>> /\ buffer' = <<>> /\ file' = file \o buffer /\ UNCHANGED writing
    <3>1. writing = <<>>
      BY <2>1, <2>3 DEF Following, Hands
    <3>2. Lines' = ((file \o buffer) \o <<>>) \o <<>> /\ Lines = (file \o <<>>) \o buffer
      BY <2>3, <3>1 DEF Lines
    <3>3. Lines' = Lines /\ Len(file') >= Len(file) /\ Len(file') \in Nat
      <4>1. file \in Seq(Nat) /\ buffer \in Seq(Nat) /\ file \o buffer \in Seq(Nat)
        BY Joined DEF Types
      <4>2. file \o <<>> = file /\ ((file \o buffer) \o <<>>) \o <<>> = file \o buffer
        BY <4>1, Joined
      <4>3. Len(file') = Len(file) + Len(buffer)
        BY <2>3, <4>1, Joined
      <4> QED
        BY <1>0, <3>2, <4>2, <4>3
    <3>4. Len(got["strategy"]) < Len(file') + FlushEvery
      BY <1>0, <3>3 DEF Following
    <3> QED
      BY <2>1, <2>3, <3>1, <3>3, <3>4 DEF Following, Hands, Alive, Consumers
  <2> QED
    BY <1>6, <2>2, <2>3 DEF Close
<1>7. CASE UNCHANGED <<carry, stage, queues, got, buffer, writing, file>>
  BY <1>7 DEF Following, Hands, Alive, Strategys, OnItsWay, Lines
<1>8. ~WriteFails
  BY DEF WriteFails
<1>9. \/ Connect \/ Subscribe \/ Lose \/ Retry \/ Exited \/ UNCHANGED vars
      \/ (\E kind \in Kinds : Receive(kind)) \/ (\E c \in Consumers : Done(c))
      => UNCHANGED <<carry, stage, queues, got, buffer, writing, file>>
  BY DEF Connect, Subscribe, Lose, Retry, Exited, Receive, Done, vars, fanout, readers, recorder
<1> QED
  BY <1>1, <1>2, <1>3, <1>4, <1>5, <1>6, <1>7, <1>8, <1>9 DEF Next

\* As long as no write has failed, the recording begins with what the strategy
\* has taken, in its order, and less than a buffer of it would be lost with the
\* process (Feed!RecordingFollowsStrategy).
THEOREM RecordingFollows == Spec => []RecordingFollowsStrategy
<1> DEFINE Inv == Types /\ (~diskLost => Following)
<1>1. Init => Inv
  <2> SUFFICES ASSUME Init PROVE Inv
    OBVIOUS
  <2>1. Types
    <3>1. <<>> \in Seq(Nat) /\ <<>> \in Seq(Event) /\ <<>> \in Seq(Kinds)
      OBVIOUS
    <3> QED
      BY <3>1 DEF Init, Types
  <2>2. /\ stage = "get" /\ got["strategy"] = <<>> /\ queues["strategy"] = <<>>
        /\ buffer = <<>> /\ writing = <<>> /\ file = <<>>
    BY DEF Init, Consumers
  <2>3. Numbers(queues["strategy"]) = <<>>
    BY <2>2 DEF Numbers
  <2>4. FlushEvery \in Nat \ {0}
    BY SizeAssumption
  <2>5. Strategys \o OnItsWay = <<>> /\ Lines = <<>>
    BY <2>2, <2>3, Joined DEF Strategys, OnItsWay, Lines
  <2> QED
    BY <2>1, <2>2, <2>4, <2>5 DEF Following, Hands, Alive, Consumers
<1>2. Inv /\ [Next]_vars => Inv'
  <2> SUFFICES ASSUME Inv, [Next]_vars PROVE Inv'
    OBVIOUS
  <2>1. Types'
    BY TypesSteps
  <2>2. ~diskLost' => ~diskLost
    BY DEF Next, vars, recorder, Connect, Subscribe, Lose, Retry, Receive, Take, Resume, Write, WriteFails, Get,
           Done, Shutdown, Close, Exited
  <2> QED
    BY <2>1, <2>2, FollowingSteps
<1>3. Inv => RecordingFollowsStrategy
  <2> SUFFICES ASSUME Types, Following
               PROVE  /\ IsPrefix(got["strategy"], Recording)
                      /\ Len(got["strategy"]) < Len(file) + FlushEvery
    BY DEF RecordingFollowsStrategy
  <2>1. Recording = Lines
    BY DEF Recording, Lines, Following, Hands
  <2>2. \E rest \in Seq(Nat) : Lines = got["strategy"] \o rest
    <3>1. CASE Alive
      BY <3>1, Rest
    <3>2. CASE ~Alive
      BY <3>2 DEF Following
    <3> QED
      BY <3>1, <3>2
  <2> QED
    BY <2>1, <2>2, Sides, Beginning DEF Following
<1> QED
  BY <1>1, <1>2, <1>3, PTL DEF Spec

-----------------------------------------------------------------------------
(* Nothing is lost inside.  The listener's queue is the last of the events, one
   after the other: so what has left it is told by how many have, and each step of
   the fan-out or of a consumer only moves the mark between the two. *)

\* The events that have left the listener's queue.
Left == Len(feed) - Len(source)

Windowed ==
    /\ Len(source) <= Len(feed) /\ Len(source) <= Cap
    /\ \A i \in 1..Len(source) : source[i].n = Left + i /\ source[i].kind = feed[Left + i]
    /\ \A n \in dropped : n \in 1..Left /\ n + Cap <= Len(feed)

Delivered(c) == {n \in 1..Left : feed[n] \in Wants[c] /\ n \notin dropped}

AllHanded ==
    Alive => \A c \in Consumers : Increasing(Handed(c)) /\ ToSet(Handed(c)) = Delivered(c)

\* The numbers of a row of events.
LEMMA NumbersInARow ==
    ASSUME NEW q \in Seq(Event), NEW b \in Nat, \A i \in 1..Len(q) : q[i].n = b + i
    PROVE  /\ Len(q) \in Nat /\ DOMAIN Numbers(q) = 1..Len(q)
           /\ \A i \in 1..Len(q) : Numbers(q)[i] = b + i
           /\ ToSet(Numbers(q)) = (b + 1)..(b + Len(q))
<1>1. DOMAIN q = 1..Len(q) /\ Len(q) \in Nat
  BY LenProperties
<1>2. Numbers(q) = [i \in 1..Len(q) |-> q[i].n]
  BY <1>1 DEF Numbers
<1>3. DOMAIN Numbers(q) = 1..Len(q) /\ \A i \in 1..Len(q) : Numbers(q)[i] = b + i
  BY <1>2
<1>4. ToSet(Numbers(q)) = {Numbers(q)[i] : i \in 1..Len(q)}
  BY <1>3 DEF ToSet
<1>5. \A x \in (b + 1)..(b + Len(q)) : x - b \in 1..Len(q) /\ x = b + (x - b)
  BY <1>1
<1>6. \A i \in 1..Len(q) : b + i \in (b + 1)..(b + Len(q))
  BY <1>1
<1> DEFINE s == Numbers(q)
           N == Len(q)
<1> HIDE DEF s, N
<1>7. ToSet(s) = (b + 1)..(b + N)
  <2>1. ASSUME NEW x \in ToSet(s) PROVE x \in (b + 1)..(b + N)
    <3>1. PICK i \in 1..N : x = s[i]
      BY <1>4 DEF s, N
    <3> QED
      BY <1>3, <1>6, <3>1 DEF s, N
  <2>2. ASSUME NEW x \in (b + 1)..(b + N) PROVE x \in ToSet(s)
    <3>1. x - b \in 1..N /\ x = b + (x - b)
      BY <1>5 DEF N
    <3>2. s[x - b] = x
      BY <1>3, <3>1 DEF s, N
    <3> QED
      BY <1>4, <3>1, <3>2 DEF s, N
  <2> QED
    BY <2>1, <2>2
<1> QED
  BY <1>1, <1>3, <1>7 DEF s, N

\* A row of numbers that gets another, greater than all of them.
LEMMA OneMore ==
    ASSUME NEW s \in Seq(Nat), NEW x \in Nat
    PROVE  /\ ToSet(s \o <<x>>) = ToSet(s) \cup {x}
           /\ Increasing(s) /\ (\A y \in ToSet(s) : y < x) => Increasing(s \o <<x>>)
<1> DEFINE t == s \o <<x>>
<1>1. Len(s) \in Nat /\ DOMAIN s = 1..Len(s) /\ \A i \in 1..Len(s) : s[i] \in Nat
  BY LenProperties, ElementOfSeq
<1>2. /\ DOMAIN t = 1..(Len(s) + 1)
      /\ \A i \in 1..Len(s) : t[i] = s[i]
      /\ t[Len(s) + 1] = x
  <2>1. <<x>> \in Seq(Nat) /\ Len(<<x>>) = 1 /\ <<x>>[1] = x
    OBVIOUS
  <2>2. /\ t \in Seq(Nat) /\ Len(t) = Len(s) + 1
        /\ \A i \in 1..(Len(s) + 1) : t[i] = IF i <= Len(s) THEN s[i] ELSE <<x>>[i - Len(s)]
    BY <1>1, <2>1, ConcatProperties
  <2>3. DOMAIN t = 1..Len(t)
    BY <2>2, LenProperties
  <2> HIDE DEF t
  <2> QED
    BY <1>1, <2>1, <2>2, <2>3
<1> HIDE DEF t
<1>3. ToSet(t) = ToSet(s) \cup {x}
  <2>1. \A i \in 1..(Len(s) + 1) : i \in 1..Len(s) \/ i = Len(s) + 1
    BY <1>1
  <2>2. Len(s) + 1 \in 1..(Len(s) + 1) /\ 1..Len(s) \subseteq 1..(Len(s) + 1)
    BY <1>1
  <2>3. \A y : y \in ToSet(t) <=> \E i \in 1..(Len(s) + 1) : t[i] = y
    BY <1>2 DEF ToSet
  <2>4. \A y : y \in ToSet(s) <=> \E i \in 1..Len(s) : s[i] = y
    BY <1>1 DEF ToSet
  <2>5. \A y : y \in ToSet(t) <=> y \in ToSet(s) \/ y = x
    BY <1>2, <2>1, <2>2, <2>3, <2>4
  <2> QED
    BY <2>5
<1>4. ASSUME Increasing(s), \A y \in ToSet(s) : y < x PROVE Increasing(t)
  <2> SUFFICES ASSUME NEW i \in 1..(Len(s) + 1), NEW j \in 1..(Len(s) + 1), i < j PROVE t[i] < t[j]
    BY <1>2 DEF Increasing
  <2>1. i \in 1..Len(s) /\ t[i] = s[i] /\ s[i] \in ToSet(s)
    BY <1>1, <1>2 DEF ToSet
  <2>2. CASE j = Len(s) + 1
    BY <1>2, <1>4, <2>1, <2>2
  <2>3. CASE j # Len(s) + 1
    <3>1. j \in 1..Len(s) /\ t[j] = s[j]
      BY <1>1, <1>2, <2>3
    <3> QED
      BY <1>1, <1>4, <2>1, <3>1 DEF Increasing
  <2> QED
    BY <2>2, <2>3
<1> QED
  BY <1>3, <1>4 DEF t

\* Two rows of numbers, the second all greater than the first.
LEMMA TwoRows ==
    ASSUME NEW s \in Seq(Nat), NEW t \in Seq(Nat), Increasing(s), Increasing(t),
           \A x \in ToSet(s), y \in ToSet(t) : x < y
    PROVE  Increasing(s \o t)
<1> DEFINE r == s \o t
<1>1. /\ Len(s) \in Nat /\ DOMAIN s = 1..Len(s) /\ Len(t) \in Nat /\ DOMAIN t = 1..Len(t)
  BY LenProperties
<1>2. /\ DOMAIN r = 1..(Len(s) + Len(t))
      /\ \A i \in 1..(Len(s) + Len(t)) : r[i] = IF i <= Len(s) THEN s[i] ELSE t[i - Len(s)]
  <2>1. /\ r \in Seq(Nat) /\ Len(r) = Len(s) + Len(t)
        /\ \A i \in 1..(Len(s) + Len(t)) : r[i] = IF i <= Len(s) THEN s[i] ELSE t[i - Len(s)]
    BY ConcatProperties
  <2>2. DOMAIN r = 1..Len(r)
    BY <2>1, LenProperties
  <2> QED
    BY <2>1, <2>2
<1> HIDE DEF r
<1> SUFFICES ASSUME NEW i \in 1..(Len(s) + Len(t)), NEW j \in 1..(Len(s) + Len(t)), i < j
             PROVE  r[i] < r[j]
  BY <1>2 DEF Increasing, r
<1>3. CASE j <= Len(s)
  <2>1. i \in DOMAIN s /\ j \in DOMAIN s /\ r[i] = s[i] /\ r[j] = s[j]
    BY <1>1, <1>2, <1>3
  <2> QED
    BY <2>1 DEF Increasing
<1>4. CASE i <= Len(s) /\ ~(j <= Len(s))
  <2>1. i \in DOMAIN s /\ j - Len(s) \in DOMAIN t /\ r[i] = s[i] /\ r[j] = t[j - Len(s)]
    BY <1>1, <1>2, <1>4
  <2>2. s[i] \in ToSet(s) /\ t[j - Len(s)] \in ToSet(t)
    BY <2>1 DEF ToSet
  <2> QED
    BY <2>1, <2>2
<1>5. CASE ~(i <= Len(s))
  <2>1. /\ i - Len(s) \in DOMAIN t /\ j - Len(s) \in DOMAIN t /\ i - Len(s) < j - Len(s)
        /\ r[i] = t[i - Len(s)] /\ r[j] = t[j - Len(s)]
    BY <1>1, <1>2, <1>5
  <2> QED
    BY <2>1 DEF Increasing
<1> QED
  BY <1>1, <1>3, <1>4, <1>5

\* Rows of numbers in a row, grouped either way.
LEMMA Grouped ==
    ASSUME NEW s \in Seq(Nat), NEW t \in Seq(Nat), NEW u \in Seq(Nat)
    PROVE  (s \o t) \o u = s \o (t \o u)
  BY ConcatAssociative, SMTT(30)

LEMMA Regrouped ==
    ASSUME NEW s \in Seq(Nat), NEW t \in Seq(Nat), NEW u \in Seq(Nat)
    PROVE  (s \o (t \o u)) \o <<>> = (s \o t) \o u
<1>1. (s \o t) \o u = s \o (t \o u)
  BY Grouped
<1>2. s \o (t \o u) \in Seq(Nat)
  BY Joined
<1>3. (s \o (t \o u)) \o <<>> = s \o (t \o u)
  BY <1>2, ConcatEmptySeq
<1> QED
  BY <1>1, <1>3

\* What a consumer is handed is a row of numbers.
LEMMA HandedRow ==
    ASSUME Types, NEW c \in Consumers
    PROVE  /\ got[c] \in Seq(Nat) /\ queues[c] \in Seq(Event) /\ Numbers(queues[c]) \in Seq(Nat)
           /\ got[c] \o Numbers(queues[c]) \in Seq(Nat)
           /\ Carried(c) \in Seq(Nat) /\ Handed(c) \in Seq(Nat)
<1>1. got[c] \in Seq(Nat) /\ queues[c] \in Seq(Event)
  BY DEF Types
<1>2. Numbers(queues[c]) \in Seq(Nat)
  BY <1>1, NumbersOf
<1>3. carry.n \in Nat
  BY SizeAssumption DEF Types, Event, NoEvent
<1>4. Carried(c) \in Seq(Nat)
  BY <1>3, Joined DEF Carried
<1> QED
  BY <1>1, <1>2, <1>4, Joined DEF Handed

\* A round of puts from the i-th consumer on: whoever is in turn has the event in
\* its queue or on its way.
LEMMA ServeHands ==
    ASSUME Types, NEW i \in 1..3, NEW e \in Event \cup {NoEvent}, Serve(i, e), NEW c \in Consumers
    PROVE  /\ Handed(c)' = (got[c] \o Numbers(queues[c]))
                           \o (IF Place[c] >= i /\ e.kind \in Wants[c] THEN <<e.n>> ELSE <<>>)
           /\ stage' \in Consumers \cup {"get"}
<1> DEFINE to   == {d \in Consumers : Place[d] >= i /\ e.kind \in Wants[d]}
           full == {d \in to : Len(queues[d]) >= QueueCap}
           done == {d \in to : \A f \in full : Place[d] < Place[f]}
           base == got[c] \o Numbers(queues[c])
<1>1. /\ queues' = [d \in Consumers |-> IF d \in done THEN Append(queues[d], e) ELSE queues[d]]
      /\ got' = got
      /\ IF full = {} THEN stage' = "get" /\ carry' = NoEvent
         ELSE stage' = (CHOOSE d \in full : \A f \in full : Place[d] <= Place[f]) /\ carry' = e
  BY DEF Serve
<1>2. /\ full \subseteq to /\ done \subseteq to /\ to \subseteq Consumers
      /\ c \in to <=> Place[c] >= i /\ e.kind \in Wants[c]
      /\ c \in done <=> c \in to /\ \A f \in full : Place[c] < Place[f]
  OBVIOUS
<1>3. /\ \A d \in Consumers : d = "strategy" \/ d = "position" \/ d = "risk"
      /\ \A d \in Consumers : Place[d] \in 1..3
      /\ \A d, f \in Consumers : Place[d] = Place[f] => d = f
  BY Places DEF Consumers
<1>4. to # {} => e \in Event
  <2>1. "none" \notin Wants["strategy"] /\ "none" \notin Wants["position"] /\ "none" \notin Wants["risk"]
    BY DEF Wants
  <2>2. \A d \in Consumers : "none" \notin Wants[d]
    BY <1>3, <2>1
  <2>3. \A d \in to : e # NoEvent
    BY <2>2 DEF NoEvent
  <2> QED
    BY <2>3
<1>5. full # {} => stage' \in full /\ carry' = e /\ \A f \in full : Place[stage'] <= Place[f]
  <2> SUFFICES ASSUME full # {}
               PROVE  stage' \in full /\ carry' = e /\ \A f \in full : Place[stage'] <= Place[f]
    OBVIOUS
  <2> HIDE DEF to, full, done
  <2>1. \E d \in full : \A f \in full : Place[d] <= Place[f]
    <3>1. \A d \in full : d = "strategy" \/ d = "position" \/ d = "risk"
      BY <1>2, <1>3
    <3> QED
      BY <3>1, Places
  <2> QED
    BY <1>1, <2>1
<1> HIDE DEF to, full, done
<1>6. base \in Seq(Nat) /\ got[c] \in Seq(Nat) /\ queues[c] \in Seq(Event) /\ Numbers(queues[c]) \in Seq(Nat)
  BY HandedRow
<1>7. Handed(c)' = (got[c] \o Numbers(queues'[c])) \o Carried(c)'
  BY <1>1 DEF Handed
<1>10. stage' \in Consumers \cup {"get"}
  BY <1>1, <1>2, <1>5
<1>8. CASE c \in done
  <2>1. queues'[c] = Append(queues[c], e) /\ e \in Event /\ e.n \in Nat
    BY <1>1, <1>2, <1>4, <1>8, SizeAssumption DEF Event
  <2>2. Numbers(queues'[c]) = Numbers(queues[c]) \o <<e.n>>
    BY <1>6, <2>1, NumbersOf
  <2>3. Carried(c)' = <<>>
    <3>1. stage' # "flush" /\ ~(stage' \in Consumers /\ Place[stage'] <= Place[c])
      <4>1. CASE full = {}
        BY <1>1, <4>1 DEF Consumers
      <4>2. CASE full # {}
        <5>1. stage' \in full /\ stage' \in Consumers /\ Place[c] < Place[stage']
          BY <1>2, <1>5, <1>8, <4>2
        <5>2. Place[c] \in 1..3 /\ Place[stage'] \in 1..3
          BY <1>3, <5>1
        <5> QED
          BY <5>1, <5>2 DEF Consumers
      <4> QED
        BY <4>1, <4>2
    <3> QED
      BY <3>1 DEF Carried
  <2>4. <<e.n>> \in Seq(Nat)
    BY <2>1, Joined
  <2>5. Handed(c)' = (got[c] \o (Numbers(queues[c]) \o <<e.n>>)) \o <<>>
    BY <1>7, <2>2, <2>3
  <2>6. (got[c] \o (Numbers(queues[c]) \o <<e.n>>)) \o <<>>
        = (got[c] \o Numbers(queues[c])) \o <<e.n>>
    BY <1>6, <2>4, Regrouped
  <2>8. Place[c] >= i /\ e.kind \in Wants[c]
    BY <1>2, <1>8
  <2> QED
    BY <1>10, <2>5, <2>6, <2>8
<1>9. CASE c \notin done
  <2>1. queues'[c] = queues[c]
    BY <1>1, <1>9
  <2>2. Carried(c)' = IF c \in to THEN <<e.n>> ELSE <<>>
    <3>1. CASE c \in to
      <4>1. PICK f \in full : ~(Place[c] < Place[f])
        BY <1>2, <1>9, <3>1
      <4>2. stage' \in full /\ carry' = e /\ Place[stage'] <= Place[f]
        BY <1>5, <4>1
      <4>3. stage' \in Consumers /\ f \in Consumers /\ Place[c] \in 1..3 /\ Place[f] \in 1..3 /\ Place[stage'] \in 1..3
        BY <1>2, <1>3, <4>1, <4>2
      <4>4. Place[stage'] <= Place[c]
        BY <4>1, <4>2, <4>3
      <4> QED
        BY <1>2, <3>1, <4>2, <4>3, <4>4 DEF Carried
    <3>2. CASE c \notin to
      <4>1. CASE full = {}
        BY <1>1, <3>2, <4>1 DEF Carried, Consumers
      <4>2. CASE full # {}
        <5>1. stage' \in full /\ carry' = e /\ stage' \in Consumers
          BY <1>2, <1>5, <4>2
        <5>2. Place[stage'] >= i
          BY <5>1 DEF full, to
        <5>3. Place[c] \in 1..3 /\ Place[stage'] \in 1..3
          BY <1>3, <5>1
        <5>4. e.kind \in Wants[c] => ~(Place[stage'] <= Place[c])
          BY <1>2, <3>2, <5>2, <5>3
        <5>5. stage' # "flush"
          BY <5>1 DEF Consumers
        <5> QED
          BY <3>2, <5>1, <5>4, <5>5 DEF Carried
      <4> QED
        BY <4>1, <4>2
    <3> QED
      BY <3>1, <3>2
  <2> QED
    BY <1>2, <1>7, <1>10, <2>1, <2>2
<1> QED
  BY <1>8, <1>9

\* An event that leaves the listener's queue is the next one.
LEMMA HeadIsNext ==
    ASSUME Types, Windowed, source # <<>>
    PROVE  /\ Left \in Nat /\ Len(source) \in Nat /\ Len(source) >= 1 /\ Len(feed) \in Nat
           /\ Head(source) \in Event /\ Tail(source) \in Seq(Event)
           /\ Len(Tail(source)) = Len(source) - 1
           /\ \A i \in 1..(Len(source) - 1) : Tail(source)[i] = source[i + 1]
           /\ Head(source).n = Left + 1 /\ Head(source).kind = feed[Left + 1]
           /\ Left + 1 <= Len(feed)
<1>1. source \in Seq(Event) /\ feed \in Seq(Kinds)
  BY DEF Types
<1>2. Len(source) \in Nat /\ Len(feed) \in Nat /\ Left \in Nat
  BY <1>1, LenProperties DEF Windowed, Left
<1>3. /\ Len(source) >= 1
      /\ Head(source) \in Event /\ Tail(source) \in Seq(Event) /\ Len(Tail(source)) = Len(source) - 1
      /\ \A i \in 1..(Len(source) - 1) : Tail(source)[i] = source[i + 1]
      /\ Head(source) = source[1]
  <2>1. /\ Head(source) \in Event /\ Tail(source) \in Seq(Event) /\ Len(Tail(source)) = Len(source) - 1
        /\ \A i \in 1..Len(Tail(source)) : Tail(source)[i] = source[i + 1]
    BY <1>1, HeadTailProperties
  <2>2. Len(source) >= 1
    BY <1>1, <1>2, EmptySeq
  <2> QED
    BY <1>1, <2>1, <2>2
<1>4. 1 \in 1..Len(source)
  BY <1>2, <1>3
<1>5. Head(source).n = Left + 1 /\ Head(source).kind = feed[Left + 1]
  BY <1>3, <1>4 DEF Windowed
<1>6. Left + 1 <= Len(feed)
  BY <1>2, <1>3 DEF Left
<1> QED
  BY <1>2, <1>3, <1>5, <1>6

\* A new event: the queue's window moves on, and what it loses has left it.
LEMMA ReceiveKeeps ==
    ASSUME Types, Windowed, AllHanded, NEW kind \in Kinds, Receive(kind)
    PROVE  Windowed' /\ AllHanded'
<1> DEFINE n  == Len(feed)
           e  == [n |-> n + 1, kind |-> kind]
           q  == IF Len(source) < Cap THEN source ELSE Tail(source)
           d  == IF Len(source) < Cap THEN 0 ELSE 1
<1>1. n \in Nat /\ Len(source) \in Nat /\ Left \in Nat /\ Cap \in Nat \ {0} /\ MaxSent \in Nat
      /\ source \in Seq(Event) /\ feed \in Seq(Kinds)
  BY LenProperties, SizeAssumption DEF Types, Windowed, Left
<1>2. /\ n < MaxSent /\ feed' = Append(feed, kind)
      /\ source' = Append(q, [n |-> Len(feed'), kind |-> kind])
      /\ dropped' = dropped \cup ((ToSet(Numbers(source)) \cup {Len(feed')}) \ ToSet(Numbers(source')))
      /\ UNCHANGED <<fanout, readers>>
  BY DEF Receive, Queued
<1>3. Len(feed') = n + 1 /\ feed'[n + 1] = kind /\ \A i \in 1..n : feed'[i] = feed[i]
  BY <1>1, <1>2, AppendProperties
<1>4. e \in Event
  BY <1>1, <1>2 DEF Event
<1>5. /\ q \in Seq(Event) /\ d \in {0, 1} /\ Len(q) = Len(source) - d /\ Len(q) \in Nat
      /\ \A i \in 1..Len(q) : q[i] = source[i + d]
      /\ Len(q) < Cap /\ (d = 1 => Len(source) = Cap)
  <2>1. CASE Len(source) < Cap
    BY <1>1, <2>1
  <2>2. CASE ~(Len(source) < Cap)
    <3>1. source # <<>>
      BY <1>1, <2>2
    <3>2. Len(source) = Cap
      BY <1>1, <2>2 DEF Windowed
    <3> QED
      BY <1>1, <2>2, <3>1, <3>2, HeadIsNext
  <2> QED
    BY <2>1, <2>2
<1> HIDE DEF q, d
<1>6. /\ source' = Append(q, e) /\ source' \in Seq(Event) /\ Len(source') = Len(q) + 1
      /\ source'[Len(q) + 1] = e /\ \A i \in 1..Len(q) : source'[i] = source[i + d]
  <2>1. source' = Append(q, e)
    BY <1>2, <1>3
  <2> HIDE DEF e
  <2> QED
    BY <1>4, <1>5, <2>1, AppendProperties
<1>7. Left' = Left + d /\ Left' \in Nat /\ n = Left + Len(source)
  <2>1. n = Left + Len(source)
    BY <1>1 DEF Left
  <2>2. Left' = (n + 1) - Len(source')
    BY <1>3 DEF Left
  <2>3. Len(source') = Len(source) - d + 1
    BY <1>5, <1>6
  <2> HIDE DEF n, e
  <2>4. Left' = Left + d
    BY <1>1, <1>5, <2>1, <2>2, <2>3
  <2> QED
    BY <1>1, <1>5, <2>1, <2>4
<1>8. \A i \in 1..Len(source') : source'[i].n = Left' + i /\ source'[i].kind = feed'[Left' + i]
  <2> TAKE i \in 1..Len(source')
  <2>1. CASE i = Len(q) + 1
    BY <1>1, <1>3, <1>5, <1>6, <1>7, <2>1, SMTT(30)
  <2>2. CASE i # Len(q) + 1
    <3>1. i \in 1..Len(q) /\ i + d \in 1..Len(source) /\ Left + (i + d) \in 1..n
      BY <1>1, <1>5, <1>6, <1>7, <2>2
    <3>2. source'[i].n = Left + (i + d) /\ source'[i].kind = feed[Left + (i + d)]
      BY <1>6, <3>1 DEF Windowed
    <3>3. Left + (i + d) = Left' + i
      BY <1>1, <1>5, <1>7, <3>1
    <3> QED
      BY <1>3, <3>1, <3>2, <3>3
  <2> QED
    BY <2>1, <2>2
<1>9. dropped' = dropped \cup (IF d = 0 THEN {} ELSE {Left + 1})
  <2>1. ToSet(Numbers(source)) = (Left + 1)..n
    BY <1>1, <1>7, NumbersInARow DEF Windowed
  <2>2. ToSet(Numbers(source')) = (Left' + 1)..(n + 1)
    <3>1. ToSet(Numbers(source')) = (Left' + 1)..(Left' + Len(source'))
      BY <1>6, <1>7, <1>8, NumbersInARow
    <3>2. Left' + Len(source') = n + 1
      <4>1. Len(source') = Len(source) - d + 1
        BY <1>5, <1>6
      <4> HIDE DEF n, e
      <4> QED
        BY <1>1, <1>5, <1>7, <4>1
    <3> QED
      BY <3>1, <3>2
  <2>3. dropped' = dropped \cup ((((Left + 1)..n) \cup {n + 1}) \ ((Left' + 1)..(n + 1)))
    BY <1>2, <1>3, <2>1, <2>2
  <2>4. (((Left + 1)..n) \cup {n + 1}) \ ((Left' + 1)..(n + 1)) = IF d = 0 THEN {} ELSE {Left + 1}
    <3>1. CASE d = 0
      BY <1>1, <1>7, <3>1
    <3>2. CASE d = 1
      <4>1. Left + 1 <= n
        BY <1>1, <1>5, <1>7, <3>2
      <4> QED
        BY <1>1, <1>7, <3>2, <4>1
    <3> QED
      BY <1>5, <3>1, <3>2
  <2> QED
    BY <2>3, <2>4
<1>10. Windowed'
  <2>1. Len(source') <= Len(feed') /\ Len(source') <= Cap
    BY <1>1, <1>3, <1>5, <1>6, <1>7
  <2>2. ASSUME NEW m \in dropped' PROVE m \in 1..Left' /\ m + Cap <= Len(feed')
    <3>1. CASE m \in dropped
      BY <1>1, <1>3, <1>5, <1>7, <3>1 DEF Windowed
    <3>2. CASE m \notin dropped
      BY <1>1, <1>3, <1>5, <1>7, <1>9, <2>2, <3>2
    <3> QED
      BY <3>1, <3>2
  <2> QED
    BY <1>8, <2>1, <2>2 DEF Windowed
<1>11. \A c \in Consumers : Delivered(c)' = Delivered(c) /\ Handed(c)' = Handed(c)
  <2> TAKE c \in Consumers
  <2>1. \A m : m \in Delivered(c)' <=> m \in 1..Left' /\ feed'[m] \in Wants[c] /\ m \notin dropped'
    BY DEF Delivered
  <2>2. \A m : m \in Delivered(c) <=> m \in 1..Left /\ feed[m] \in Wants[c] /\ m \notin dropped
    BY DEF Delivered
  <2>3. \A m \in 1..Left : m \in 1..n /\ m # Left + 1 /\ m \in 1..Left'
    BY <1>1, <1>5, <1>7
  <2>4. \A m \in 1..Left' : m \in 1..Left \/ (d = 1 /\ m = Left + 1)
    BY <1>1, <1>5, <1>7
  <2>5. \A m : m \in Delivered(c)' <=> m \in Delivered(c)
    BY <1>3, <1>5, <1>9, <2>1, <2>2, <2>3, <2>4
  <2>6. Delivered(c)' \subseteq Delivered(c) /\ Delivered(c) \subseteq Delivered(c)'
    BY <2>5
  <2>7. Handed(c)' = Handed(c)
    BY <1>2 DEF fanout, readers, Handed, Carried
  <2> QED
    BY <2>6, <2>7
<1>12. Alive' = Alive
  BY <1>2 DEF fanout, Alive
<1>13. AllHanded'
  BY <1>11, <1>12, Zenon DEF AllHanded
<1> QED
  BY <1>10, <1>13

\* The fan-out's next event: it is handed to those who want it.
LEMMA TakeKeeps ==
    ASSUME Types, Windowed, AllHanded, Take
    PROVE  Windowed' /\ AllHanded'
<1> DEFINE e == Head(source)
<1>1. stage = "get" /\ source # <<>> /\ source' = Tail(source) /\ UNCHANGED <<feed, dropped>>
      /\ (Serve(1, e) \/ (stage' = "flush" /\ carry' = e /\ UNCHANGED readers))
  BY Zenon DEF Take
<1>2. /\ Left \in Nat /\ Len(source) \in Nat /\ Len(source) >= 1 /\ Len(feed) \in Nat
      /\ e \in Event /\ Len(source') = Len(source) - 1
      /\ \A i \in 1..(Len(source) - 1) : source'[i] = source[i + 1]
      /\ e.n = Left + 1 /\ e.kind = feed[Left + 1] /\ Left + 1 <= Len(feed)
  BY <1>1, HeadIsNext
<1> HIDE DEF e
<1>3. Left' = Left + 1
  BY <1>1, <1>2 DEF Left
<1>4. Windowed'
  <2>1. ASSUME NEW i \in 1..Len(source')
        PROVE  source'[i].n = Left' + i /\ source'[i].kind = feed[Left' + i]
    <3>1. i + 1 \in 1..Len(source) /\ source'[i] = source[i + 1]
      BY <1>2
    <3>2. source'[i].n = Left + (i + 1) /\ source'[i].kind = feed[Left + (i + 1)]
      BY <3>1 DEF Windowed
    <3>3. Left + (i + 1) = Left' + i
      BY <1>2, <1>3, <3>1
    <3> QED
      BY <3>2, <3>3
  <2>2. \A m \in dropped : m \in 1..Left' /\ m + Cap <= Len(feed)
    BY <1>2, <1>3 DEF Windowed
  <2>3. Len(source') <= Len(feed) /\ Len(source') <= Cap
    BY <1>2, SizeAssumption DEF Windowed
  <2> QED
    BY <1>1, <2>1, <2>2, <2>3 DEF Windowed
<1>5. ASSUME NEW c \in Consumers
      PROVE  Handed(c)' = Handed(c) \o (IF e.kind \in Wants[c] THEN <<e.n>> ELSE <<>>)
  <2>1. Handed(c) = (got[c] \o Numbers(queues[c])) \o <<>>
    BY <1>1 DEF Handed, Carried, Consumers
  <2>2. Handed(c) = got[c] \o Numbers(queues[c])
    BY <2>1, HandedRow, Joined
  <2>3. CASE Serve(1, e)
    <3>1. 1 \in 1..3 /\ e \in Event \cup {NoEvent}
      BY <1>2
    <3>2. Handed(c)' = (got[c] \o Numbers(queues[c]))
                       \o (IF Place[c] >= 1 /\ e.kind \in Wants[c] THEN <<e.n>> ELSE <<>>)
      BY <2>3, <3>1, ServeHands
    <3>3. Place[c] >= 1
      BY Places DEF Consumers
    <3> QED
      BY <2>2, <3>2, <3>3
  <2>4. CASE stage' = "flush" /\ carry' = e /\ UNCHANGED readers
    BY <2>2, <2>4 DEF Handed, Carried, readers
  <2> QED
    BY <1>1, <2>3, <2>4
<1>6. ASSUME NEW c \in Consumers
      PROVE  Delivered(c)' = Delivered(c) \cup (IF e.kind \in Wants[c] THEN {e.n} ELSE {})
  <2>1. Left + 1 \notin dropped
    BY <1>2 DEF Windowed
  <2>2. \A m : m \in Delivered(c)' <=> m \in 1..(Left + 1) /\ feed[m] \in Wants[c] /\ m \notin dropped
    BY <1>1, <1>3 DEF Delivered
  <2>3. \A m : m \in Delivered(c) <=> m \in 1..Left /\ feed[m] \in Wants[c] /\ m \notin dropped
    BY DEF Delivered
  <2>4. \A m : m \in 1..(Left + 1) <=> m \in 1..Left \/ m = Left + 1
    BY <1>2
  <2>5. \A m : m \in Delivered(c)' <=> m \in Delivered(c) \/ (e.kind \in Wants[c] /\ m = e.n)
    BY <1>2, <2>1, <2>2, <2>3, <2>4
  <2>6. CASE e.kind \in Wants[c]
    <3>1. Delivered(c)' = Delivered(c) \cup {e.n}
      <4> DEFINE x == Delivered(c)'
                 y == Delivered(c)
      <4>1. \A m : m \in x <=> m \in y \/ m = e.n
        BY <2>5, <2>6
      <4> HIDE DEF x, y
      <4>2. x = y \cup {e.n}
        BY <4>1
      <4> QED
        BY <4>2 DEF x, y
    <3> QED
      BY <2>6, <3>1
  <2>7. CASE e.kind \notin Wants[c]
    <3>1. Delivered(c)' = Delivered(c)
      <4> DEFINE x == Delivered(c)'
                 y == Delivered(c)
      <4>1. \A m : m \in x <=> m \in y
        BY <2>5, <2>7
      <4> HIDE DEF x, y
      <4>2. x = y
        BY <4>1
      <4> QED
        BY <4>2 DEF x, y
    <3> QED
      BY <2>7, <3>1
  <2> QED
    BY <2>6, <2>7
<1>7. ASSUME NEW c \in Consumers
      PROVE  Increasing(Handed(c)') /\ ToSet(Handed(c)') = Delivered(c)'
  <2>1. Increasing(Handed(c)) /\ ToSet(Handed(c)) = Delivered(c)
    BY <1>1 DEF AllHanded, Alive
  <2>2. Handed(c) \in Seq(Nat) /\ e.n \in Nat
    BY <1>2, HandedRow
  <2>3. \A y \in ToSet(Handed(c)) : y < e.n
    BY <1>2, <2>1 DEF Delivered
  <2>4. CASE e.kind \in Wants[c]
    <3>1. Handed(c)' = Handed(c) \o <<e.n>> /\ Delivered(c)' = Delivered(c) \cup {e.n}
      BY <1>5, <1>6, <2>4
    <3>2. /\ ToSet(Handed(c) \o <<e.n>>) = ToSet(Handed(c)) \cup {e.n}
          /\ Increasing(Handed(c) \o <<e.n>>)
      BY <2>1, <2>2, <2>3, OneMore
    <3> QED
      BY <2>1, <3>1, <3>2
  <2>5. CASE e.kind \notin Wants[c]
    <3>1. Handed(c)' = Handed(c) \o <<>> /\ Delivered(c)' = Delivered(c) \cup {}
      BY <1>5, <1>6, <2>5
    <3>2. Handed(c) \o <<>> = Handed(c)
      BY <2>2, Joined
    <3> QED
      BY <2>1, <3>1, <3>2
  <2> QED
    BY <2>4, <2>5
<1>8. AllHanded'
  BY <1>7 DEF AllHanded, Increasing
<1> QED
  BY <1>4, <1>8

\* A consumer takes what is queued for it.
LEMMA GetKeeps ==
    ASSUME Types, Types', AllHanded, NEW d \in Consumers, Get(d)
    PROVE  AllHanded'
<1>1. /\ queues[d] # <<>>
      /\ queues' = [queues EXCEPT ![d] = Tail(queues[d])]
      /\ got' = [got EXCEPT ![d] = Append(got[d], Head(queues[d]).n)]
      /\ UNCHANGED <<carry, stage, feed, source, dropped>>
  BY DEF Get, fanout
<1>2. ASSUME NEW c \in Consumers PROVE Handed(c)' = Handed(c)
  <2>1. Carried(c)' = Carried(c)
    BY <1>1 DEF Carried
  <2>2. got'[c] \o Numbers(queues'[c]) = got[c] \o Numbers(queues[c])
    <3>1. CASE c = d
      <4> DEFINE q == queues[d]
                 h == Head(q).n
      <4>1. q \in Seq(Event) /\ q # <<>> /\ Tail(q) \in Seq(Event) /\ got[d] \in Seq(Nat)
        BY <1>1, HeadTailProperties, HandedRow
      <4>2. h \in Nat /\ Numbers(q) = <<h>> \o Numbers(Tail(q)) /\ Numbers(Tail(q)) \in Seq(Nat)
        BY <4>1, NumbersOf
      <4>3. got'[d] = Append(got[d], h) /\ queues'[d] = Tail(q)
        BY <1>1 DEF Types
      <4> HIDE DEF h, q
      <4>4. Append(got[d], h) = got[d] \o <<h>> /\ <<h>> \in Seq(Nat)
        BY <4>1, <4>2, Joined
      <4>5. (got[d] \o <<h>>) \o Numbers(Tail(q)) = got[d] \o (<<h>> \o Numbers(Tail(q)))
        BY <4>1, <4>2, <4>4, Grouped
      <4> QED
        BY <3>1, <4>2, <4>3, <4>4, <4>5 DEF q
    <3>2. CASE c # d
      BY <1>1, <3>2 DEF Types
    <3> QED
      BY <3>1, <3>2
  <2> QED
    BY <2>1, <2>2 DEF Handed
<1>3. Alive' = Alive /\ \A c \in Consumers : Delivered(c)' = Delivered(c)
  BY <1>1 DEF Alive, Delivered, Left
<1> QED
  BY <1>2, <1>3, Zenon DEF AllHanded

\* A round of puts that goes on: who has been served is not served again, and who
\* has not been is handed the event that was on its way.
LEMMA ServeKeeps ==
    ASSUME Types, AllHanded, Alive, NEW i \in 1..3, Serve(i, carry), UNCHANGED <<feed, source, dropped>>,
           \A c \in Consumers : Carried(c) = IF Place[c] >= i /\ carry.kind \in Wants[c]
                                              THEN <<carry.n>> ELSE <<>>
    PROVE  AllHanded'
<1>1. ASSUME NEW c \in Consumers PROVE Handed(c)' = Handed(c)
  <2> DEFINE on == IF Place[c] >= i /\ carry.kind \in Wants[c] THEN <<carry.n>> ELSE <<>>
  <2>1. carry \in Event \cup {NoEvent}
    BY DEF Types
  <2>2. Handed(c)' = (got[c] \o Numbers(queues[c])) \o on
    BY <2>1, ServeHands
  <2>3. Carried(c) = on
    OBVIOUS
  <2> HIDE DEF on
  <2>4. Handed(c) = (got[c] \o Numbers(queues[c])) \o on
    BY <2>3 DEF Handed
  <2> QED
    BY <2>2, <2>4
<1>2. \A c \in Consumers : Delivered(c)' = Delivered(c)
  BY DEF Delivered, Left
<1> QED
  BY <1>1, <1>2, Zenon DEF AllHanded

LEMMA WindowSteps ==
    ASSUME Types, Types', Windowed, AllHanded, [Next]_vars
    PROVE  Windowed' /\ AllHanded'
<1>1. ASSUME NEW kind \in Kinds, Receive(kind) PROVE Windowed' /\ AllHanded'
  BY <1>1, ReceiveKeeps
<1>2. CASE Take
  BY <1>2, TakeKeeps
<1>3. ASSUME UNCHANGED <<feed, source, dropped>> PROVE Windowed'
  BY <1>3 DEF Windowed, Left
<1>4. ASSUME UNCHANGED <<feed, source, dropped, carry, stage, queues, got>>
      PROVE  Windowed' /\ AllHanded'
  BY <1>3, <1>4, ZenonT(60) DEF AllHanded, Alive, Handed, Carried, Delivered, Left, Increasing
<1>5. ASSUME UNCHANGED <<feed, source, dropped>>, ~Alive' PROVE Windowed' /\ AllHanded'
  BY <1>3, <1>5 DEF AllHanded
<1>6. ASSUME NEW c \in Consumers, Resume(c) PROVE Windowed' /\ AllHanded'
  <2>1. stage = c /\ Serve(Place[c], carry) /\ UNCHANGED <<feed, source, dropped>>
    BY <1>6 DEF Resume
  <2>2. Alive /\ Place[c] \in 1..3
    BY <2>1, Places DEF Alive, Consumers
  <2>3. \A d \in Consumers : Carried(d) = IF Place[d] >= Place[c] /\ carry.kind \in Wants[d]
                                          THEN <<carry.n>> ELSE <<>>
    <3> TAKE d \in Consumers
    <3>1. Place[d] \in 1..3 /\ stage # "flush" /\ stage \in Consumers
      BY <2>1, Places DEF Consumers
    <3>2. Place[stage] <= Place[d] <=> Place[d] >= Place[c]
      BY <2>1, <2>2, <3>1
    <3> QED
      BY <3>1, <3>2 DEF Carried
  <2>4. AllHanded'
    BY <2>1, <2>2, <2>3, ServeKeeps
  <2> QED
    BY <1>3, <2>1, <2>4
<1>7. CASE Write
  <2>1. CASE stage = "flush"
    <3>1. Serve(1, carry) /\ UNCHANGED <<feed, source, dropped>> /\ Alive /\ 1 \in 1..3
      BY <1>7, <2>1 DEF Write, Alive
    <3>2. \A d \in Consumers : Carried(d) = IF Place[d] >= 1 /\ carry.kind \in Wants[d]
                                            THEN <<carry.n>> ELSE <<>>
      BY <2>1, Places DEF Carried, Consumers
    <3>3. AllHanded'
      BY <3>1, <3>2, ServeKeeps
    <3> QED
      BY <1>3, <3>1, <3>3
  <2>2. CASE stage # "flush"
    BY <1>4, <1>7, <2>2 DEF Write, fanout, readers
  <2> QED
    BY <2>1, <2>2
<1>8. CASE WriteFails
  <2>1. CASE stage = "flush"
    BY <1>5, <1>8, <2>1 DEF WriteFails, Alive, Consumers
  <2>2. CASE stage # "flush"
    BY <1>4, <1>8, <2>2 DEF WriteFails, readers
  <2> QED
    BY <2>1, <2>2
<1>9. ASSUME NEW c \in Consumers, Get(c) PROVE Windowed' /\ AllHanded'
  BY <1>3, <1>9, GetKeeps DEF Get
<1>10. CASE Shutdown \/ Close
  BY <1>5, <1>10 DEF Shutdown, Close, Alive, Consumers
<1>11. CASE Connect \/ Subscribe \/ Lose \/ Retry
  BY <1>4, <1>11 DEF Connect, Subscribe, Lose, Retry, fanout, readers
<1>12. ASSUME NEW c \in Consumers, Done(c) PROVE Windowed' /\ AllHanded'
  BY <1>4, <1>12 DEF Done, fanout
<1>13. CASE Exited \/ UNCHANGED vars
  BY <1>4, <1>13 DEF Exited, vars, fanout, readers
<1> QED
  BY <1>1, <1>2, <1>6, <1>7, <1>8, <1>9, <1>10, <1>11, <1>12, <1>13 DEF Next

\* Initially nothing has come.
LEMMA InitWindow == Init => Types /\ Windowed /\ AllHanded
<1> SUFFICES ASSUME Init PROVE Types /\ Windowed /\ AllHanded
  OBVIOUS
<1>1. <<>> \in Seq(Nat) /\ <<>> \in Seq(Event) /\ <<>> \in Seq(Kinds) /\ Len(<<>>) = 0
  OBVIOUS
<1>2. Types
  BY <1>1 DEF Init, Types
<1>3. Windowed
  BY <1>1, SizeAssumption DEF Init, Windowed, Left
<1>4. ASSUME NEW c \in Consumers PROVE Increasing(Handed(c)) /\ ToSet(Handed(c)) = Delivered(c)
  <2>1. got[c] = <<>> /\ queues[c] = <<>> /\ Carried(c) = <<>>
    BY DEF Init, Carried, Consumers
  <2>2. Numbers(<<>>) = <<>>
    BY DEF Numbers
  <2>3. Handed(c) = <<>>
    BY <1>1, <2>1, <2>2, Joined DEF Handed
  <2>4. ToSet(<<>>) = {} /\ Increasing(<<>>)
    BY DEF ToSet, Increasing
  <2>5. Delivered(c) = {}
    BY <1>1 DEF Init, Delivered, Left
  <2> QED
    BY <2>3, <2>4, <2>5
<1> QED
  BY <1>2, <1>3, <1>4 DEF AllHanded

\* What has been handed and what is still to come is what is owed.
LEMMA HandedIsOwed ==
    ASSUME Types, Windowed, AllHanded
    PROVE  NothingLostInside
<1>1. \A n \in dropped : n + Cap <= Len(feed)
  BY DEF Windowed
<1>2. ASSUME Alive, NEW c \in Consumers
      PROVE  /\ Increasing(Handed(c) \o Numbers(source))
             /\ ToSet(Handed(c)) \cup Coming(c) = Owed(c)
  <2>1. /\ source \in Seq(Event) /\ Len(source) \in Nat /\ DOMAIN source = 1..Len(source)
        /\ Len(feed) \in Nat /\ DOMAIN feed = 1..Len(feed)
        /\ Left \in Nat /\ Len(feed) = Left + Len(source)
    BY LenProperties DEF Types, Windowed, Left
  <2>2. /\ DOMAIN Numbers(source) = 1..Len(source) /\ Numbers(source) \in Seq(Nat)
        /\ \A i \in 1..Len(source) : Numbers(source)[i] = Left + i
        /\ ToSet(Numbers(source)) = (Left + 1)..(Left + Len(source))
    BY <2>1, NumbersInARow, NumbersOf DEF Windowed
  <2>3. Increasing(Handed(c)) /\ ToSet(Handed(c)) = Delivered(c) /\ Handed(c) \in Seq(Nat)
    BY <1>2, HandedRow DEF AllHanded
  <2>4. Increasing(Numbers(source))
    <3> DEFINE s == Numbers(source)
    <3>1. DOMAIN s = 1..Len(source) /\ \A i \in 1..Len(source) : s[i] = Left + i
      BY <2>2
    <3> HIDE DEF s
    <3>2. Increasing(s)
      BY <2>1, <3>1 DEF Increasing
    <3> QED
      BY <3>2 DEF s
  <2>5. \A x \in ToSet(Handed(c)), y \in ToSet(Numbers(source)) : x < y
    BY <2>1, <2>2, <2>3 DEF Delivered
  <2>6. Increasing(Handed(c) \o Numbers(source))
    BY <2>2, <2>3, <2>4, <2>5, TwoRows
  <2>7. \A n : n \in Coming(c) <=> n \in (Left + 1)..Len(feed) /\ feed[n] \in Wants[c]
    <3>1. \A n : n \in Coming(c) <=> \E i \in 1..Len(source) : source[i].kind \in Wants[c] /\ n = source[i].n
      BY <2>1 DEF Coming, ToSet
    <3>2. \A i \in 1..Len(source) : source[i].n = Left + i /\ source[i].kind = feed[Left + i]
      BY DEF Windowed
    <3>3. \A n : n \in Coming(c) <=> \E i \in 1..Len(source) : feed[Left + i] \in Wants[c] /\ n = Left + i
      BY <3>1, <3>2
    <3>4. \A n \in (Left + 1)..Len(feed) : n - Left \in 1..Len(source) /\ Left + (n - Left) = n
      BY <2>1
    <3>5. \A i \in 1..Len(source) : Left + i \in (Left + 1)..Len(feed)
      BY <2>1
    <3>6. ASSUME NEW n \in Coming(c) PROVE n \in (Left + 1)..Len(feed) /\ feed[n] \in Wants[c]
      BY <3>3, <3>5, <3>6
    <3>7. ASSUME NEW n \in (Left + 1)..Len(feed), feed[n] \in Wants[c] PROVE n \in Coming(c)
      BY <3>3, <3>4, <3>7
    <3> QED
      BY <3>6, <3>7
  <2>8. \A n : n \in Delivered(c) <=> n \in 1..Left /\ feed[n] \in Wants[c] /\ n \notin dropped
    BY DEF Delivered
  <2>9. \A n : n \in Owed(c) <=> n \in 1..Len(feed) /\ feed[n] \in Wants[c] /\ n \notin dropped
    BY <2>1 DEF Owed
  <2>10. \A n : n \in 1..Len(feed) <=> n \in 1..Left \/ n \in (Left + 1)..Len(feed)
    BY <2>1
  <2>11. \A n \in dropped : n \notin (Left + 1)..Len(feed)
    BY <2>1 DEF Windowed
  <2>12. \A n : n \in Owed(c) <=> n \in Delivered(c) \/ n \in Coming(c)
    BY <2>7, <2>8, <2>9, <2>10, <2>11, Zenon
  <2>13. Delivered(c) \cup Coming(c) = Owed(c)
    <3> DEFINE x == Delivered(c)
               y == Coming(c)
               z == Owed(c)
    <3>1. \A n : n \in z <=> n \in x \/ n \in y
      BY <2>12
    <3> HIDE DEF x, y, z
    <3>2. x \cup y = z
      BY <3>1
    <3> QED
      BY <3>2 DEF x, y, z
  <2> QED
    BY <2>3, <2>6, <2>13
<1> QED
  BY <1>1, <1>2 DEF NothingLostInside

\* While the fan-out lives, the overflow of the listener's queue is the only loss,
\* and it costs old events only: every consumer is handed every other event of its
\* kinds, once and in order (Feed!NothingLostInside).
THEOREM EverythingIsHanded == Spec => []NothingLostInside
<1> DEFINE Inv == Types /\ Windowed /\ AllHanded
<1>1. Init => Inv
  BY InitWindow
<1>2. Inv /\ [Next]_vars => Inv'
  BY TypesSteps, WindowSteps
<1>3. Inv => NothingLostInside
  BY HandedIsOwed
<1> QED
  BY <1>1, <1>2, <1>3, PTL DEF Spec
-----------------------------------------------------------------------------
(* Loops: what a function on 0..N that is defined step by step is. *)

LEMMA LeastNumber ==
    ASSUME NEW S, S \subseteq Nat, S # {}
    PROVE  \E x \in S : \A y \in S : x <= y
<1> DEFINE L == OpToRel(<, Nat)
<1>1. \E x \in S : \A y \in S : ~(<<y, x>> \in L)
  <2>1. IsWellFoundedOn(L, Nat)
    BY NatLessThanWellFounded
  <2> HIDE DEF L
  <2> QED
    BY <2>1, WFMin
<1>2. \A x, y \in Nat : x < y => <<x, y>> \in L
  BY DEF OpToRel
<1> HIDE DEF L
<1>3. PICK x \in S : \A y \in S : ~(<<y, x>> \in L)
  BY <1>1
<1>4. \A y \in S : x <= y
  <2> TAKE y \in S
  <2>1. x \in Nat /\ y \in Nat /\ ~(<<y, x>> \in L)
    BY <1>3
  <2>2. ~(y < x)
    BY <1>2, <2>1
  <2> QED
    BY <2>1, <2>2
<1> QED
  BY <1>4

\* What holds of 0, and of each number after the one before it.
LEMMA UpTo ==
    ASSUME NEW N \in Nat, NEW G, 0 \in G, \A n \in 1..N : n - 1 \in G => n \in G
    PROVE  0..N \subseteq G
<1> DEFINE Bad == (0..N) \ G
<1> SUFFICES ASSUME Bad # {} PROVE FALSE
  OBVIOUS
<1>1. Bad \subseteq Nat /\ \A n \in 0..N : n \in Bad <=> n \notin G
  OBVIOUS
<1>2. PICK m \in Bad : \A y \in Bad : m <= y
  <2> HIDE DEF Bad
  <2> QED
    BY <1>1, LeastNumber
<1>3. m \in 1..N
  OBVIOUS
<1>4. m - 1 \in 0..N /\ m - 1 \in Nat /\ ~(m <= m - 1)
  BY <1>3
<1>5. m - 1 \in G
  <2> HIDE DEF Bad
  <2> QED
    BY <1>1, <1>2, <1>4
<1> QED
  BY <1>3, <1>5

\* A loop: each turn F[n] leads from the (n - 1)-th of the sets T to the n-th.
IsLoop(N, T, base, F) == base \in T[0] /\ \A n \in 1..N : \A x \in T[n - 1] : F[n][x] \in T[n]
RunsAs(f, N, T, base, F) ==
    /\ f[0] = base /\ \A n \in 1..N : f[n] = F[n][f[n - 1]]
    /\ \A n \in 0..N : f[n] \in T[n]

LEMMA LoopExists ==
    ASSUME NEW N \in Nat, NEW T, NEW base, NEW F, IsLoop(N, T, base, F)
    PROVE  \E f : RunsAs(f, N, T, base, F)
<1> USE DEF IsLoop
<1> DEFINE Runs(f, m) == /\ f[0] = base /\ \A n \in 1..m : f[n] = F[n][f[n - 1]]
                         /\ \A n \in 0..m : f[n] \in T[n]
           G == {m \in 0..N : \E f : Runs(f, m)}
<1>1. 0 \in G
  <2> DEFINE f == [n \in {0} |-> base]
  <2>1. f[0] = base
    OBVIOUS
  <2> HIDE DEF f
  <2>2. Runs(f, 0)
    BY <2>1
  <2> HIDE DEF Runs
  <2> QED
    BY <2>2
<1>2. ASSUME NEW m \in 1..N, m - 1 \in G PROVE m \in G
  <2>1. PICK f : Runs(f, m - 1)
    BY <1>2
  <2> DEFINE g == [n \in 0..m |-> IF n = m THEN F[m][f[m - 1]] ELSE f[n]]
  <2>2. g[m] = F[m][f[m - 1]] /\ \A n \in 0..(m - 1) : g[n] = f[n]
    OBVIOUS
  <2>3. 0 \in 0..(m - 1) /\ m - 1 \in 0..(m - 1) /\ \A n \in 1..(m - 1) : n - 1 \in 0..(m - 1) /\ n \in 0..(m - 1)
    OBVIOUS
  <2> HIDE DEF g
  <2>4. g[0] = base /\ \A n \in 1..(m - 1) : g[n] = F[n][g[n - 1]]
    BY <2>1, <2>2, <2>3
  <2>5. g[m] = F[m][g[m - 1]]
    BY <2>2, <2>3
  <2>6. \A n \in 0..(m - 1) : g[n] \in T[n]
    BY <2>1, <2>2
  <2>7. g[m] \in T[m]
    BY <2>3, <2>5, <2>6
  <2>8. \A n \in 1..m : n = m \/ n \in 1..(m - 1)
    OBVIOUS
  <2>9. \A n \in 0..m : n = m \/ n \in 0..(m - 1)
    OBVIOUS
  <2>10. Runs(g, m)
    BY <2>4, <2>5, <2>6, <2>7, <2>8, <2>9
  <2> HIDE DEF Runs
  <2> QED
    BY <2>10
<1>3. N \in G
  <2> HIDE DEF G
  <2> QED
    BY <1>1, <1>2, UpTo
<1> QED
  BY <1>3 DEF RunsAs

\* What a loop's turns keep to.
LEMMA LoopIs ==
    ASSUME NEW N \in Nat, NEW T, NEW f, f[0] \in T[0],
           \A n \in 1..N : f[n - 1] \in T[n - 1] => f[n] \in T[n]
    PROVE  \A n \in 0..N : f[n] \in T[n]
<1> DEFINE G == {n \in 0..N : f[n] \in T[n]}
<1>1. 0 \in G /\ \A n \in 1..N : n - 1 \in G => n \in G
  OBVIOUS
<1>2. 0..N \subseteq G
  <2> HIDE DEF G
  <2> QED
    BY <1>1, UpTo
<1> QED
  BY <1>2

-----------------------------------------------------------------------------
(* What the recorder writes. *)

Ascending(s) == \A i, j \in DOMAIN s : i < j => s[i] < s[j]

\* One more at the end.
LEMMA OneLonger ==
    ASSUME NEW S, NEW s \in Seq(S), NEW x \in S
    PROVE  /\ Append(s, x) \in Seq(S) /\ Len(Append(s, x)) = Len(s) + 1
           /\ \A i \in 1..Len(s) : Append(s, x)[i] = s[i]
           /\ Append(s, x)[Len(s) + 1] = x
           /\ ToSet(Append(s, x)) = ToSet(s) \cup {x}
<1>1. Len(s) \in Nat /\ DOMAIN s = 1..Len(s)
  BY LenProperties
<1>2. /\ Append(s, x) \in Seq(S) /\ Len(Append(s, x)) = Len(s) + 1
      /\ \A i \in 1..Len(s) : Append(s, x)[i] = s[i]
      /\ Append(s, x)[Len(s) + 1] = x
  BY <1>1
<1>3. DOMAIN Append(s, x) = 1..(Len(s) + 1)
  BY <1>2, LenProperties
<1>4. 1..(Len(s) + 1) = 1..Len(s) \cup {Len(s) + 1}
  BY <1>1
<1> DEFINE t == Append(s, x)
<1> HIDE DEF t
<1>5. ToSet(t) = ToSet(s) \cup {x}
  BY <1>1, <1>2, <1>3, <1>4 DEF ToSet, t
<1> QED
  BY <1>2, <1>5 DEF t

\* A selection keeps the order and has what it should of the lines.
Selected(s, lines, events, n) ==
    /\ s \in Seq(Nat) /\ Ascending(s)
    /\ ToSet(s) = {x \in {lines[i] : i \in 1..n} : x \in events}

LEMMA SelectsOne ==
    ASSUME NEW lines \in Seq(Nat), Ascending(lines), NEW events, NEW n \in 1..Len(lines),
           NEW s, Selected(s, lines, events, n - 1)
    PROVE  Selected(IF lines[n] \in events THEN Append(s, lines[n]) ELSE s, lines, events, n)
<1>1. /\ Len(lines) \in Nat /\ DOMAIN lines = 1..Len(lines) /\ n \in Nat /\ lines[n] \in Nat
      /\ 1..n = 1..(n - 1) \cup {n}
  BY LenProperties, ElementOfSeq
<1>2. s \in Seq(Nat) /\ Ascending(s) /\ Len(s) \in Nat /\ DOMAIN s = 1..Len(s)
  BY LenProperties DEF Selected
<1>3. {lines[i] : i \in 1..n} = {lines[i] : i \in 1..(n - 1)} \cup {lines[n]}
  BY <1>1
<1>4. CASE lines[n] \notin events
  BY <1>3, <1>4 DEF Selected
<1>5. CASE lines[n] \in events
  <2> DEFINE t == Append(s, lines[n])
  <2>1. /\ t \in Seq(Nat) /\ Len(t) = Len(s) + 1 /\ t[Len(s) + 1] = lines[n]
        /\ \A i \in 1..Len(s) : t[i] = s[i]
        /\ ToSet(t) = ToSet(s) \cup {lines[n]}
    BY <1>1, <1>2, OneLonger
  <2>2. DOMAIN t = 1..(Len(s) + 1)
    BY <2>1, LenProperties
  <2> HIDE DEF t
  <2>3. ASSUME NEW i \in 1..Len(s) PROVE s[i] < lines[n]
    <3>1. s[i] \in ToSet(s)
      BY <1>2 DEF ToSet
    <3>2. PICK j \in 1..(n - 1) : s[i] = lines[j]
      BY <3>1 DEF Selected
    <3> QED
      BY <1>1, <3>2, SMTT(30) DEF Ascending
  <2>4. Ascending(t)
    <3>1. ASSUME NEW i \in DOMAIN t, NEW j \in DOMAIN t, i < j PROVE t[i] < t[j]
      <4>1. i \in 1..Len(s)
        BY <1>2, <2>2, <3>1
      <4>2. CASE j \in 1..Len(s)
        BY <1>2, <2>1, <3>1, <4>1, <4>2 DEF Ascending
      <4>3. CASE j = Len(s) + 1
        BY <2>1, <2>3, <4>1, <4>3
      <4>4. j \in 1..Len(s) \/ j = Len(s) + 1
        <5>1. j \in 1..(Len(s) + 1)
          BY <2>2, <3>1
        <5> QED
          BY <1>2, <5>1
      <4> QED
        BY <4>2, <4>3, <4>4
    <3> QED
      BY <3>1 DEF Ascending
  <2>5. ToSet(t) = {x \in {lines[i] : i \in 1..n} : x \in events}
    BY <1>3, <1>5, <2>1 DEF Selected
  <2> QED
    BY <1>5, <2>1, <2>4, <2>5 DEF Selected, t
<1> QED
  BY <1>4, <1>5

LEMMA OnlySelects ==
    ASSUME NEW lines \in Seq(Nat), Ascending(lines), NEW events
    PROVE  LET s == Only(lines, events)
           IN  s \in Seq(Nat) /\ Ascending(s) /\ ToSet(s) = ToSet(lines) \cap events
<1> DEFINE N == Len(lines)
           T == [n \in 0..N |-> {s \in Seq(Nat) : Selected(s, lines, events, n)}]
           Next1(s, n) == IF lines[n] \in events THEN Append(s, lines[n]) ELSE s
           F == [n \in 1..N |-> [s \in Seq(Nat) |-> Next1(s, n)]]
           Body(f) == [n \in 0..N |-> IF n = 0 THEN <<>> ELSE Next1(f[n - 1], n)]
           only == CHOOSE f : f = Body(f)
<1>0. N \in Nat /\ DOMAIN lines = 1..N
  BY LenProperties
<1>1. Only(lines, events) = only[N]
  BY DEF Only
<1>2. /\ \A n \in 0..N : T[n] = {s \in Seq(Nat) : Selected(s, lines, events, n)}
      /\ \A n \in 1..N : \A s \in Seq(Nat) : F[n][s] = Next1(s, n)
      /\ 0 \in 0..N /\ \A n \in 1..N : n \in 0..N /\ n - 1 \in 0..N /\ n # 0
  BY <1>0
<1>3. \A n \in 1..N : \A s : Selected(s, lines, events, n - 1) => Selected(Next1(s, n), lines, events, n)
  BY SelectsOne
<1>4. Selected(<<>>, lines, events, 0)
  <2>1. <<>> \in Seq(Nat) /\ Len(<<>>) = 0 /\ DOMAIN <<>> = 1..0
    BY EmptySeq, LenProperties
  <2>2. 1..0 = {}
    OBVIOUS
  <2> QED
    BY <2>1, <2>2 DEF Selected, Ascending, ToSet
<1> HIDE DEF N, T, F, Next1
<1>5. <<>> \in T[0] /\ \A n \in 1..N : \A s \in T[n - 1] : s \in Seq(Nat) /\ Next1(s, n) \in T[n]
  <2>1. <<>> \in T[0]
    BY <1>2, <1>4 DEF Selected
  <2>2. ASSUME NEW n \in 1..N, NEW s \in T[n - 1] PROVE s \in Seq(Nat) /\ Next1(s, n) \in T[n]
    <3>1. s \in Seq(Nat) /\ Selected(s, lines, events, n - 1)
      BY <1>2
    <3>2. Selected(Next1(s, n), lines, events, n)
      BY <1>3, <3>1
    <3>3. Next1(s, n) \in Seq(Nat)
      BY <3>2 DEF Selected
    <3> QED
      BY <1>2, <3>1, <3>2, <3>3
  <2> QED
    BY <2>1, <2>2
<1>6. \E f : f = Body(f)
  <2>1. PICK f : RunsAs(f, N, T, <<>>, F)
    <3>1. \A n \in 1..N : \A s \in T[n - 1] : F[n][s] \in T[n]
      BY <1>2, <1>5
    <3>2. IsLoop(N, T, <<>>, F)
      BY <1>5, <3>1, Zenon DEF IsLoop
    <3> QED
      BY <1>0, <3>2, LoopExists
  <2> DEFINE g == [n \in 0..N |-> f[n]]
             h == Body(g)
  <2>2. \A n \in 0..N : g[n] = f[n]
    OBVIOUS
  <2>3. \A n \in 0..N : h[n] = IF n = 0 THEN <<>> ELSE Next1(g[n - 1], n)
    <3> HIDE DEF g
    <3> QED
      OBVIOUS
  <2>4. g = [n \in 0..N |-> g[n]] /\ h = [n \in 0..N |-> h[n]]
    OBVIOUS
  <2> HIDE DEF g, h
  <2>5. ASSUME NEW n \in 0..N PROVE g[n] = h[n]
    <3>1. CASE n = 0
      BY <2>1, <2>2, <2>3, <3>1 DEF RunsAs
    <3>2. CASE n # 0
      <4>1. n \in 1..N /\ n - 1 \in 0..N
        BY <1>0, <3>2
      <4>2. f[n - 1] \in Seq(Nat) /\ f[n] = F[n][f[n - 1]]
        BY <1>2, <2>1, <4>1 DEF RunsAs
      <4>3. f[n] = Next1(f[n - 1], n)
        BY <1>2, <4>1, <4>2
      <4> QED
        BY <2>2, <2>3, <3>2, <4>1, <4>3
    <3> QED
      BY <3>1, <3>2
  <2>6. g = h
    BY <2>4, <2>5
  <2> HIDE DEF Body
  <2> QED
    BY <2>6 DEF h
<1>7. only = Body(only)
  <2> HIDE DEF Body
  <2> QED
    BY <1>6
<1>8. only[0] = <<>> /\ \A n \in 1..N : only[n] = Next1(only[n - 1], n)
  <2> DEFINE h == Body(only)
  <2> HIDE DEF only
  <2>1. \A n \in 0..N : h[n] = IF n = 0 THEN <<>> ELSE Next1(only[n - 1], n)
    OBVIOUS
  <2>2. only = h
    BY <1>7
  <2> HIDE DEF h, Body
  <2> QED
    BY <1>2, <2>1, <2>2
<1> HIDE DEF only, Body
<1>9. \A n \in 0..N : only[n] \in T[n]
  <2>1. only[0] \in T[0] /\ \A n \in 1..N : only[n - 1] \in T[n - 1] => only[n] \in T[n]
    BY <1>5, <1>8
  <2> QED
    BY <1>0, <2>1, LoopIs
<1>10. Selected(only[N], lines, events, N)
  <2>1. N \in 0..N
    BY <1>0
  <2> QED
    BY <1>2, <1>9, <2>1
<1>11. ToSet(lines) = {lines[i] : i \in 1..N}
  BY <1>0 DEF ToSet
<1> QED
  BY <1>1, <1>10, <1>11 DEF Selected

\* A text is the lines, each with its newline.
LEMMA TextIs ==
    ASSUME NEW lines \in Seq(1..MaxLines)
    PROVE  LET text == Text(lines)
           IN  /\ text \in Seq(Tokens) /\ Len(text) = 2 * Len(lines)
               /\ \A i \in 1..Len(text) : text[i] > 0 =>
                     /\ i < Len(text) /\ text[i + 1] = NL
                     /\ \E k \in 1..Len(lines) : i = 2 * k - 1 /\ text[i] = lines[k]
               /\ \A k \in 1..Len(lines) : text[2 * k - 1] = lines[k] /\ text[2 * k] = NL
<1> USE RecordingAssumption
<1> DEFINE N == Len(lines)
           text == Text(lines)
<1>1. N \in Nat /\ \A k \in 1..N : lines[k] \in 1..MaxLines
  BY LenProperties, ElementOfSeq
<1> HIDE DEF N
<1>2. ASSUME NEW k \in 1..N
      PROVE  /\ 2 * k - 1 \in 1..(2 * N) /\ 2 * k \in 1..(2 * N)
             /\ (2 * k - 1) % 2 = 1 /\ (2 * k) % 2 = 0
             /\ ((2 * k - 1) + 1) \div 2 = k
  BY <1>1
<1>3. ASSUME NEW i \in 1..(2 * N), i % 2 = 1
      PROVE  (i + 1) \div 2 \in 1..N /\ i = 2 * ((i + 1) \div 2) - 1
  BY <1>1, <1>3
<1>4. text = [i \in 1..(2 * N) |-> IF i % 2 = 1 THEN lines[(i + 1) \div 2] ELSE NL]
  BY DEF Text, N
<1> HIDE DEF text
<1>5. \A i \in 1..(2 * N) : text[i] = IF i % 2 = 1 THEN lines[(i + 1) \div 2] ELSE NL
  BY <1>4
<1>6. ASSUME NEW i \in 1..(2 * N) PROVE text[i] \in Tokens
  <2>1. CASE i % 2 = 1
    <3>1. text[i] \in 1..MaxLines
      BY <1>1, <1>3, <1>5, <2>1
    <3> QED
      BY <3>1 DEF Tokens
  <2>2. CASE i % 2 # 1
    BY <1>5, <2>2 DEF Tokens
  <2> QED
    BY <2>1, <2>2
<1>7. text \in Seq(Tokens) /\ Len(text) = 2 * N
  <2>1. 2 * N \in Nat
    BY <1>1
  <2>2. text \in [1..(2 * N) -> Tokens]
    BY <1>4, <1>5, <1>6
  <2> QED
    BY <2>1, <2>2 DEF Seq
<1>8. \A k \in 1..N : text[2 * k - 1] = lines[k] /\ text[2 * k] = NL
  <2> TAKE k \in 1..N
  <2>1. text[2 * k - 1] = lines[((2 * k - 1) + 1) \div 2]
    BY <1>2, <1>5
  <2>2. text[2 * k] = NL
    <3>1. ~((2 * k) % 2 = 1)
      BY <1>2
    <3> QED
      BY <1>2, <1>5, <3>1
  <2> QED
    BY <1>2, <2>1, <2>2
<1>9. ASSUME NEW i \in 1..(2 * N), text[i] > 0
      PROVE  /\ i < 2 * N /\ text[i + 1] = NL
             /\ \E k \in 1..N : i = 2 * k - 1 /\ text[i] = lines[k]
  <2>1. i % 2 = 1
    BY <1>5, <1>9 DEF NL
  <2> DEFINE k == (i + 1) \div 2
  <2>2. k \in 1..N /\ i = 2 * k - 1
    BY <1>3, <2>1
  <2> HIDE DEF k
  <2>3. i < 2 * N /\ i + 1 = 2 * k
    BY <1>1, <2>2
  <2> QED
    BY <1>8, <2>2, <2>3
<1> QED
  BY <1>7, <1>8, <1>9 DEF N, text

\* What reaches a file of some lines: they come in their order, though perhaps not all.
RisesIn(f) == \A i, j \in DOMAIN f : i < j /\ f[i] > 0 /\ f[j] > 0 => f[i] < f[j]
Written(tokens, lines) ==
    /\ tokens \in Seq(Tokens)
    /\ RisesIn(tokens)
    /\ \A i \in DOMAIN tokens : tokens[i] > 0 => tokens[i] \in ToSet(lines)

LEMMA TextWritten ==
    ASSUME NEW lines \in Seq(1..MaxLines), Ascending(lines)
    PROVE  Written(Text(lines), lines)
<1> DEFINE text == Text(lines)
<1>1. /\ text \in Seq(Tokens) /\ Len(text) = 2 * Len(lines)
      /\ \A i \in 1..Len(text) : text[i] > 0 =>
            \E k \in 1..Len(lines) : i = 2 * k - 1 /\ text[i] = lines[k]
  BY TextIs
<1> HIDE DEF text
<1>2. DOMAIN text = 1..Len(text) /\ Len(lines) \in Nat /\ DOMAIN lines = 1..Len(lines)
  BY <1>1, LenProperties
<1>3. RisesIn(text)
  <2>1. ASSUME NEW i \in DOMAIN text, NEW j \in DOMAIN text, i < j, text[i] > 0, text[j] > 0
        PROVE  text[i] < text[j]
    <3>1. PICK k \in 1..Len(lines) : i = 2 * k - 1 /\ text[i] = lines[k]
      BY <1>1, <1>2, <2>1
    <3>2. PICK m \in 1..Len(lines) : j = 2 * m - 1 /\ text[j] = lines[m]
      BY <1>1, <1>2, <2>1
    <3>3. k < m
      BY <1>2, <2>1, <3>1, <3>2
    <3> QED
      BY <1>2, <3>1, <3>2, <3>3 DEF Ascending
  <2> QED
    BY <2>1 DEF RisesIn
<1>4. \A i \in DOMAIN text : text[i] > 0 => text[i] \in ToSet(lines)
  BY <1>1, <1>2 DEF ToSet
<1> QED
  BY <1>1, <1>3, <1>4 DEF Written, text

\* So it is with a write that stops early.
LEMMA CutWritten ==
    ASSUME NEW text, NEW lines, Written(text, lines), NEW tokens \in CutShort(text)
    PROVE  Written(tokens, lines)
<1>1. text \in Seq(Tokens) /\ Len(text) \in Nat /\ DOMAIN text = 1..Len(text)
  BY LenProperties DEF Written
<1>2. PICK k \in 0..Len(text) : \/ tokens = SubSeq(text, 1, k)
                                \/ tokens = Append(SubSeq(text, 1, k), Torn)
  <2>1. \/ \E k \in 0..Len(text) : tokens = SubSeq(text, 1, k)
        \/ \E k \in {j \in 0..(Len(text) - 1) : text[j + 1] # NL} : tokens = Append(SubSeq(text, 1, k), Torn)
    BY Zenon DEF CutShort
  <2>2. \A j \in 0..(Len(text) - 1) : j \in 0..Len(text)
    BY <1>1
  <2> QED
    BY <2>1, <2>2
<1> DEFINE cut == SubSeq(text, 1, k)
<1>3. cut \in Seq(Tokens) /\ Len(cut) = k /\ \A i \in 1..k : cut[i] = text[i]
  <2>1. \A i \in 1..k : text[i] \in Tokens
    BY <1>1, ElementOfSeq
  <2> QED
    BY <2>1, SubSeqProperties
<1>4. DOMAIN cut = 1..k
  BY <1>3, LenProperties
<1> HIDE DEF cut
<1>5. /\ tokens \in Seq(Tokens) /\ (Len(tokens) = k \/ Len(tokens) = k + 1)
      /\ \A i \in 1..Len(tokens) : tokens[i] > 0 => i \in 1..k /\ tokens[i] = text[i]
  <2>1. CASE tokens = cut
    BY <1>3, <2>1
  <2>2. CASE tokens = Append(cut, Torn)
    <3>1. Torn \in Tokens /\ ~(Torn > 0)
      BY DEF Torn, Tokens
    <3>2. tokens \in Seq(Tokens) /\ Len(tokens) = k + 1 /\ tokens[k + 1] = Torn
          /\ \A i \in 1..k : tokens[i] = cut[i]
      BY <1>3, <2>2, <3>1, OneLonger
    <3>3. \A i \in 1..(k + 1) : i \in 1..k \/ i = k + 1
      OBVIOUS
    <3> QED
      BY <1>3, <3>1, <3>2, <3>3
  <2> QED
    BY <1>2, <2>1, <2>2 DEF cut
<1>6. DOMAIN tokens = 1..Len(tokens)
  BY <1>5, LenProperties
<1>7. \A i \in 1..k : i \in DOMAIN text
  BY <1>1
<1>8. RisesIn(tokens)
  <2>1. ASSUME NEW i \in DOMAIN tokens, NEW j \in DOMAIN tokens, i < j, tokens[i] > 0, tokens[j] > 0
        PROVE  tokens[i] < tokens[j]
    <3>1. i \in DOMAIN text /\ j \in DOMAIN text /\ tokens[i] = text[i] /\ tokens[j] = text[j]
      BY <1>5, <1>6, <1>7, <2>1, ZenonT(30)
    <3> QED
      BY <2>1, <3>1, SMTT(30) DEF Written, RisesIn
  <2> QED
    BY <2>1 DEF RisesIn
<1>9. ASSUME NEW i \in DOMAIN tokens, tokens[i] > 0 PROVE tokens[i] \in ToSet(lines)
  BY <1>5, <1>6, <1>7, <1>9, Zenon DEF Written
<1> QED
  BY <1>5, <1>8, <1>9 DEF Written

-----------------------------------------------------------------------------
(* The directory. *)

LEMMA Names ==
    ASSUME NEW d, NEW e
    PROVE  /\ Plain(d) # Archive(e) /\ Plain(d) # Partial(e) /\ Archive(d) # Partial(e)
           /\ Archive(e) # Plain(d) /\ Partial(e) # Plain(d) /\ Partial(e) # Archive(d)
           /\ (Plain(d) = Plain(e) <=> d = e)
           /\ (Archive(d) = Archive(e) <=> d = e)
           /\ (Partial(d) = Partial(e) <=> d = e)
<1>1. "jsonl" # "gz" /\ "jsonl" # "part" /\ "gz" # "part"
  OBVIOUS
<1> QED
  BY <1>1 DEF Plain, Archive, Partial

FileNames == {"jsonl", "gz", "part"} \X Days

LEMMA NamesOfDays ==
    ASSUME NEW d \in Days
    PROVE  Plain(d) \in FileNames /\ Archive(d) \in FileNames /\ Partial(d) \in FileNames
BY DEF Plain, Archive, Partial, FileNames

\* What is on file stays what it is.
LEMMA FiledIn ==
    ASSUME NEW f, NEW name, NEW content, NEW N, NEW S,
           DOMAIN f \subseteq N, \A x \in DOMAIN f : f[x] \in S, name \in N, content \in S
    PROVE  LET g == With(f, name, content)
           IN  DOMAIN f \subseteq DOMAIN g /\ DOMAIN g \subseteq N /\ \A x \in DOMAIN g : g[x] \in S
<1> DEFINE g == With(f, name, content)
<1>1. /\ DOMAIN g = DOMAIN f \cup {name} /\ g[name] = content
      /\ \A x \in DOMAIN f : x # name => g[x] = f[x]
  BY DEF With
<1> HIDE DEF g
<1>2. ASSUME NEW x \in DOMAIN g PROVE g[x] \in S
  <2>1. CASE x = name
    BY <1>1, <2>1
  <2>2. CASE x # name
    <3>1. x \in DOMAIN f
      BY <1>1, <2>2
    <3>2. g[x] = f[x] /\ f[x] \in S
      BY <1>1, <2>2, <3>1
    <3> QED
      BY <3>2
  <2> QED
    BY <2>1, <2>2
<1>3. DOMAIN f \subseteq DOMAIN g /\ DOMAIN g \subseteq N
  BY <1>1
<1>4. DOMAIN f \subseteq DOMAIN g /\ DOMAIN g \subseteq N /\ \A x \in DOMAIN g : g[x] \in S
  BY <1>2, <1>3
<1> QED
  BY <1>4, Zenon DEF g

LEMMA RemovedIn ==
    ASSUME NEW f, NEW name, NEW N, NEW S,
           DOMAIN f \subseteq N, \A x \in DOMAIN f : f[x] \in S
    PROVE  LET g == Without(f, name)
           IN  /\ DOMAIN g \subseteq N /\ \A x \in DOMAIN g : g[x] \in S
               /\ \A x \in DOMAIN f : x # name => x \in DOMAIN g
<1> DEFINE g == Without(f, name)
<1>1. /\ DOMAIN g = DOMAIN f \ {name}
      /\ \A x \in DOMAIN f : x # name => g[x] = f[x]
  BY DEF Without
<1> HIDE DEF g
<1>2. ASSUME NEW x \in DOMAIN g PROVE g[x] \in S
  <2>1. x \in DOMAIN f /\ x # name
    BY <1>1
  <2>2. g[x] = f[x] /\ f[x] \in S
    BY <1>1, <2>1
  <2> QED
    BY <2>2
<1>3. DOMAIN g \subseteq N /\ \A x \in DOMAIN f : x # name => x \in DOMAIN g
  BY <1>1
<1>4. DOMAIN g \subseteq N /\ (\A x \in DOMAIN g : g[x] \in S) /\ \A x \in DOMAIN f : x # name => x \in DOMAIN g
  BY <1>2, <1>3
<1> QED
  BY <1>4, Zenon DEF g

-----------------------------------------------------------------------------
(* The invariant. *)

Waiting == ToSet(job) \cup ToSet(unflushed)

\* Events are on their way in their order, and follow those of their day.
Ordered ==
    /\ Ascending(job) /\ Ascending(unflushed)
    /\ job = <<>> \/ unflushed = <<>>
    /\ \A d \in Days : RisesIn(written[d])
    /\ \A d \in Days : \A i \in DOMAIN written[d] : written[d][i] > 0 =>
          /\ written[d][i] \in 1..Len(dates) /\ dates[written[d][i]] = d
          /\ \A n \in Waiting : dates[n] = d => written[d][i] < n

\* A write that returned ended its rows, and a line is written once.
Ended ==
    /\ Waiting \cap acked = {}
    /\ \A d \in Days : \A i \in DOMAIN written[d] :
          written[d][i] \in acked => i < Len(written[d]) /\ written[d][i + 1] = NL

\* The archive begins as the day does, the plain file ends as the day does, and
\* nothing between the two is owed.
OwedLines == acked \ raced
BeginsOf(a, w) == Len(a) <= Len(w) /\ \A i \in 1..Len(a) : a[i] = w[i]
EndsOf(p, w)   == Len(p) <= Len(w) /\ \A i \in 1..Len(p) : p[i] = w[Len(w) - Len(p) + i]
Excused(w, m, n, owed) == \A i \in (m + 1)..n : w[i] \notin owed

CoversBy(w, p, a, archived, owed) ==
    /\ EndsOf(p, w) /\ BeginsOf(a, w)
    /\ IF archived THEN Excused(w, Len(a), Len(w) - Len(p), owed) ELSE Len(p) = Len(w)
Covering == \A d \in Days :
    CoversBy(written[d], Content(Plain(d)), Content(Archive(d)), Has(Archive(d)), OwedLines)

Handling == handle # Closed =>
    IF handle.linked THEN Has(Plain(handle.day))
    ELSE Has(Archive(handle.day)) /\ ~Has(Plain(handle.day))

\* Where the compaction stands.
Compacting ==
    /\ pc \in {"copy", "verify", "replace"} => ~Has(Archive(at))
    /\ pc \in {"verify", "replace"} =>
          /\ Has(Partial(at)) /\ BeginsOf(dir[Partial(at)], written[at])
          /\ Excused(written[at], Len(dir[Partial(at)]), Len(written[at]), OwedLines)
    /\ pc = "unlink" =>
          Has(Archive(at)) /\ Excused(written[at], Len(dir[Archive(at)]), Len(written[at]), OwedLines)

-----------------------------------------------------------------------------
(* The types. *)

LEMMA SeqWithin ==
    ASSUME NEW S, NEW T, NEW s \in Seq(S), ToSet(s) \subseteq T
    PROVE  s \in Seq(T)
<1>1. Len(s) \in Nat /\ s \in [1..Len(s) -> S] /\ DOMAIN s = 1..Len(s)
  BY LenProperties
<1>2. \A i \in 1..Len(s) : s[i] \in T
  BY <1>1 DEF ToSet
<1>3. s \in [1..Len(s) -> T]
  BY <1>1, <1>2
<1> QED
  BY <1>1, <1>3 DEF Seq

LEMMA ElementsOf ==
    ASSUME NEW S, NEW s \in Seq(S)
    PROVE  /\ ToSet(s) \subseteq S
           /\ \A i \in 1..Len(s) : s[i] \in ToSet(s)
           /\ \A x \in ToSet(s) : \E i \in 1..Len(s) : x = s[i]
           /\ s # <<>> => Head(s) \in ToSet(s) /\ Len(s) > 0
<1>1. Len(s) \in Nat /\ DOMAIN s = 1..Len(s) /\ \A i \in 1..Len(s) : s[i] \in S
  BY LenProperties, ElementOfSeq
<1>2. s # <<>> => Len(s) > 0
  BY <1>1, EmptySeq
<1>3. s # <<>> => Head(s) = s[1] /\ 1 \in 1..Len(s)
  BY <1>1, <1>2
<1> QED
  BY <1>1, <1>2, <1>3 DEF ToSet

\* The first group of the lines in hand, and the others.
LEMMA GroupsAre ==
    ASSUME RecordingTypeOK, Ascending(job), job # <<>>
    PROVE  /\ GroupDay \in Days
           /\ FirstGroup \in Seq(1..Len(dates)) /\ FirstGroup \in Seq(1..MaxLines) /\ Ascending(FirstGroup)
           /\ ToSet(FirstGroup) = {n \in ToSet(job) : dates[n] = GroupDay}
           /\ OtherGroups \in Seq(1..Len(dates)) /\ Ascending(OtherGroups)
           /\ ToSet(OtherGroups) = {n \in ToSet(job) : dates[n] # GroupDay}
           /\ Len(FirstGroup) > 0
<1> DEFINE L == Len(dates)
<1>1. L \in Nat /\ L <= MaxLines /\ job \in Seq(1..L) /\ \A n \in 1..L : dates[n] \in Days
  BY LenProperties, ElementOfSeq DEF RecordingTypeOK
<1> HIDE DEF L
<1>2. job \in Seq(Nat) /\ ToSet(job) \subseteq 1..L /\ Head(job) \in ToSet(job)
  <2>1. 1..L \subseteq Nat
    BY <1>1
  <2> QED
    BY <1>1, <2>1, SeqMonotonic, ElementsOf
<1>3. GroupDay \in Days
  BY <1>1, <1>2 DEF GroupDay
<1>4. FirstGroup \in Seq(Nat) /\ Ascending(FirstGroup) /\ ToSet(FirstGroup) = {n \in ToSet(job) : dates[n] = GroupDay}
  <2> DEFINE E == {n \in ToSet(job) : dates[n] = GroupDay}
  <2>1. ToSet(job) \cap E = E
    OBVIOUS
  <2> HIDE DEF E
  <2>2. FirstGroup = Only(job, E)
    BY DEF FirstGroup, E
  <2>3. FirstGroup \in Seq(Nat) /\ Ascending(FirstGroup) /\ ToSet(FirstGroup) = ToSet(job) \cap E
    BY <1>2, <2>2, OnlySelects
  <2> QED
    BY <2>1, <2>3 DEF E
<1>5. OtherGroups \in Seq(Nat) /\ Ascending(OtherGroups) /\ ToSet(OtherGroups) = {n \in ToSet(job) : dates[n] # GroupDay}
  <2> DEFINE E == {n \in ToSet(job) : dates[n] # GroupDay}
  <2>1. ToSet(job) \cap E = E
    OBVIOUS
  <2> HIDE DEF E
  <2>2. OtherGroups = Only(job, E)
    BY DEF OtherGroups, E
  <2>3. OtherGroups \in Seq(Nat) /\ Ascending(OtherGroups) /\ ToSet(OtherGroups) = ToSet(job) \cap E
    BY <1>2, <2>2, OnlySelects
  <2> QED
    BY <2>1, <2>3 DEF E
<1>6. FirstGroup \in Seq(1..L) /\ OtherGroups \in Seq(1..L)
  <2>1. ToSet(FirstGroup) \subseteq 1..L /\ ToSet(OtherGroups) \subseteq 1..L
    BY <1>2, <1>4, <1>5
  <2> QED
    BY <1>4, <1>5, <2>1, SeqWithin
<1>7. FirstGroup \in Seq(1..MaxLines)
  <2>1. 1..L \subseteq 1..MaxLines
    BY <1>1, RecordingAssumption
  <2> QED
    BY <1>6, <2>1, SeqMonotonic
<1>8. Len(FirstGroup) > 0
  <2>1. Head(job) \in ToSet(FirstGroup)
    BY <1>2, <1>4 DEF GroupDay
  <2>2. PICK i \in 1..Len(FirstGroup) : TRUE
    BY <1>4, <2>1, ElementsOf
  <2> QED
    BY <1>4, <2>2, LenProperties
<1> QED
  BY <1>3, <1>4, <1>5, <1>6, <1>7, <1>8 DEF L

\* What an append changes.
LEMMA AppendedIs ==
    ASSUME RecordingTypeOK, Handling, handle # Closed, NEW tokens \in Seq(Tokens), Appended(tokens)
    PROVE  LET d == handle.day
           IN  /\ d \in Days /\ d = GroupDay /\ job # <<>>
               /\ written' \in [Days -> Seq(Tokens)]
               /\ written'[d] = written[d] \o tokens /\ \A e \in Days : e # d => written'[e] = written[e]
               /\ DOMAIN dir' = DOMAIN dir
               /\ handle.linked => dir'[Plain(d)] = dir[Plain(d)] \o tokens
               /\ \A x \in DOMAIN dir : ~(handle.linked /\ x = Plain(d)) => dir'[x] = dir[x]
               /\ \A x \in DOMAIN dir : dir'[x] \in Seq(Tokens)
<1> DEFINE d == handle.day
<1>1. handle \in [day : Days, linked : BOOLEAN] /\ d = GroupDay /\ job # <<>>
  BY DEF RecordingTypeOK
<1>2. d \in Days /\ handle.linked \in BOOLEAN
  BY <1>1
<1>3. written \in [Days -> Seq(Tokens)] /\ \A x \in DOMAIN dir : dir[x] \in Seq(Tokens)
  BY DEF RecordingTypeOK
<1>4. written' = [written EXCEPT ![d] = @ \o tokens]
  BY DEF Appended
<1>5. IF handle.linked THEN dir' = [dir EXCEPT ![Plain(d)] = @ \o tokens] ELSE dir' = dir
  BY DEF Appended
<1>6. handle.linked => Plain(d) \in DOMAIN dir
  BY DEF Handling, Has
<1> HIDE DEF d
<1>7. written[d] \o tokens \in Seq(Tokens)
  BY <1>2, <1>3, ConcatProperties
<1>8. handle.linked => dir[Plain(d)] \o tokens \in Seq(Tokens)
  BY <1>3, <1>6, ConcatProperties
<1>9. /\ written' \in [Days -> Seq(Tokens)]
      /\ written'[d] = written[d] \o tokens /\ \A e \in Days : e # d => written'[e] = written[e]
  BY <1>2, <1>3, <1>4, <1>7
<1>10. CASE handle.linked
  <2>1. /\ DOMAIN dir' = DOMAIN dir /\ dir'[Plain(d)] = dir[Plain(d)] \o tokens
        /\ \A x \in DOMAIN dir : x # Plain(d) => dir'[x] = dir[x]
    BY <1>5, <1>6, <1>10
  <2> QED
    BY <1>1, <1>2, <1>3, <1>8, <1>9, <1>10, <2>1 DEF d
<1>11. CASE ~handle.linked
  BY <1>1, <1>2, <1>3, <1>5, <1>9, <1>11 DEF d
<1> QED
  BY <1>10, <1>11

LEMMA WriteOutTypes ==
    ASSUME RecordingTypeOK, Ordered, Handling, WriteOut
    PROVE  RecordingTypeOK' /\ Written(Text(FirstGroup), FirstGroup) /\ Appended(Text(FirstGroup))
<1>1. /\ handle # Closed /\ Appended(Text(FirstGroup))
      /\ acked' = acked \cup ToSet(FirstGroup)
      /\ (raced' = raced \cup ToSet(FirstGroup) \/ raced' = raced)
      /\ job' = OtherGroups /\ handle' = Closed
      /\ UNCHANGED <<today, faults, dates, unflushed, tears, pc, at, size>>
  BY Zenon DEF WriteOut, clock, cron
<1>2. job # <<>> /\ Ascending(job)
  BY <1>1 DEF RecordingTypeOK, Ordered
<1>3. /\ FirstGroup \in Seq(1..MaxLines) /\ Ascending(FirstGroup) /\ OtherGroups \in Seq(1..Len(dates))
      /\ ToSet(FirstGroup) \subseteq 1..Len(dates)
  BY <1>2, GroupsAre, ElementsOf
<1>4. Written(Text(FirstGroup), FirstGroup)
  BY <1>3, TextWritten
<1>5. Text(FirstGroup) \in Seq(Tokens)
  BY <1>4 DEF Written
<1>6. /\ written' \in [Days -> Seq(Tokens)] /\ DOMAIN dir' = DOMAIN dir
      /\ \A x \in DOMAIN dir : dir'[x] \in Seq(Tokens)
  BY <1>1, <1>5, AppendedIs
<1>7. (acked \subseteq 1..Len(dates) /\ raced \subseteq acked)'
  BY <1>1, <1>3 DEF RecordingTypeOK
<1> QED
  BY <1>1, <1>3, <1>4, <1>6, <1>7 DEF RecordingTypeOK, Has

LEMMA CrashTypes ==
    ASSUME RecordingTypeOK, Ordered, Handling, Crash
    PROVE  /\ RecordingTypeOK'
           /\ \/ UNCHANGED <<dir, written, tears>>
              \/ /\ handle # Closed
                 /\ \E tokens \in CutShort(Text(FirstGroup)) :
                       /\ Written(tokens, FirstGroup) /\ Appended(tokens)
                       /\ tears' = IF tokens = <<>> \/ Last(tokens) = NL THEN tears ELSE tears + 1
<1>1. /\ faults < MaxFaults /\ faults' = faults + 1
      /\ unflushed' = <<>> /\ job' = <<>> /\ handle' = Closed
      /\ UNCHANGED <<today, dates, acked, raced, pc, at, size>>
  BY Zenon DEF Crash, cron
<1>2. <<>> \in Seq(1..Len(dates)) /\ Len(dates) \in Nat
  BY EmptySeq, LenProperties DEF RecordingTypeOK
<1>3. CASE handle = Closed
  <2>1. UNCHANGED <<dir, written, tears>>
    BY Zenon, <1>3 DEF Crash
  <2> QED
    BY <1>1, <1>2, <2>1, RecordingAssumption DEF RecordingTypeOK, Has
<1>4. CASE handle # Closed
  <2>1. PICK tokens \in CutShort(Text(FirstGroup)) :
           /\ Appended(tokens)
           /\ tears' = IF tokens = <<>> \/ Last(tokens) = NL THEN tears ELSE tears + 1
    BY Zenon, <1>4 DEF Crash
  <2>2. job # <<>> /\ Ascending(job)
    BY <1>4 DEF RecordingTypeOK, Ordered
  <2>3. Written(Text(FirstGroup), FirstGroup)
    BY <2>2, GroupsAre, TextWritten
  <2>4. Written(tokens, FirstGroup)
    BY <2>1, <2>3, CutWritten
  <2>5. tokens \in Seq(Tokens)
    BY <2>4 DEF Written
  <2>6. /\ written' \in [Days -> Seq(Tokens)] /\ DOMAIN dir' = DOMAIN dir
        /\ \A x \in DOMAIN dir : dir'[x] \in Seq(Tokens)
    BY <1>4, <2>1, <2>5, AppendedIs
  <2>7. tears' \in 0..faults' /\ faults' \in 0..MaxFaults
    BY <1>1, <2>1, RecordingAssumption DEF RecordingTypeOK
  <2>8. RecordingTypeOK'
    BY <1>1, <1>2, <2>6, <2>7 DEF RecordingTypeOK, Has
  <2> QED
    BY <1>4, <2>1, <2>4, <2>8
<1> QED
  BY <1>3, <1>4

LEMMA RecordIs ==
    ASSUME RecordingTypeOK, NEW d \in Days, Record(d)
    PROVE  /\ job = <<>> /\ handle = Closed /\ Len(dates) \in Nat
           /\ dates' \in Seq(Days) /\ Len(dates') = Len(dates) + 1 /\ Len(dates') <= MaxLines
           /\ \A n \in 1..Len(dates) : dates'[n] = dates[n]
           /\ LET lines == Append(unflushed, Len(dates) + 1)
              IN  (unflushed' = <<>> /\ job' = lines) \/ (unflushed' = lines /\ job' = <<>>)
           /\ UNCHANGED <<today, faults, handle, dir, written, acked, raced, tears, pc, at, size>>
<1>1. /\ job = <<>> /\ Len(dates) < MaxLines /\ dates' = Append(dates, d)
      /\ LET lines == Append(unflushed, Len(dates'))
         IN  (unflushed' = <<>> /\ job' = lines) \/ (unflushed' = lines /\ job' = job)
      /\ UNCHANGED <<today, faults, handle, dir, written, acked, raced, tears, pc, at, size>>
  BY DEF Record, clock, ghost, cron
<1>2. Len(dates) \in Nat /\ dates \in Seq(Days) /\ handle = Closed
  BY <1>1, LenProperties DEF RecordingTypeOK
<1>3. dates' \in Seq(Days) /\ Len(dates') = Len(dates) + 1 /\ \A n \in 1..Len(dates) : dates'[n] = dates[n]
  BY <1>1, <1>2, OneLonger
<1> QED
  BY <1>1, <1>2, <1>3, RecordingAssumption

LEMMA RecordTypes ==
    ASSUME RecordingTypeOK, NEW d \in Days, Record(d)
    PROVE  RecordingTypeOK'
<1> DEFINE L == Len(dates)
           lines == Append(unflushed, L + 1)
<1>1. /\ handle = Closed /\ L \in Nat
      /\ dates' \in Seq(Days) /\ Len(dates') = L + 1 /\ Len(dates') <= MaxLines
      /\ (unflushed' = <<>> /\ job' = lines) \/ (unflushed' = lines /\ job' = <<>>)
      /\ UNCHANGED <<today, faults, handle, dir, written, acked, raced, tears, pc, at, size>>
  BY RecordIs
<1>2. unflushed \in Seq(1..L)
  BY DEF RecordingTypeOK
<1> HIDE DEF L
<1>3. 1..L \subseteq 1..(L + 1) /\ L + 1 \in 1..(L + 1)
  BY <1>1
<1>4. unflushed \in Seq(1..(L + 1))
  BY <1>2, <1>3, SeqMonotonic
<1>5. lines \in Seq(1..(L + 1)) /\ <<>> \in Seq(1..(L + 1))
  BY <1>3, <1>4, OneLonger, EmptySeq
<1> HIDE DEF lines
<1>6. unflushed' \in Seq(1..(L + 1)) /\ job' \in Seq(1..(L + 1))
  BY <1>1, <1>5
<1>7. (acked \subseteq 1..Len(dates) /\ raced \subseteq acked)'
  BY <1>1, <1>3 DEF RecordingTypeOK, L
<1> QED
  BY <1>1, <1>6, <1>7 DEF RecordingTypeOK, Has

LEMMA FromTypes ==
    ASSUME RecordingTypeOK
    PROVE  /\ today \in Days /\ faults \in faults..MaxFaults /\ faults + 1 > faults /\ faults \in Nat
           /\ at \in Days /\ size \in Nat /\ pc \in {"idle", "copy", "verify", "replace", "unlink"}
           /\ (pc # "idle" => Plain(at) \in DOMAIN dir)
           /\ DOMAIN dir \subseteq FileNames /\ \A x \in DOMAIN dir : dir[x] \in Seq(Tokens)
<1>1. today \in Days /\ faults \in 0..MaxFaults /\ at \in Days /\ size \in Nat
      /\ pc \in {"idle", "copy", "verify", "replace", "unlink"}
  BY DEF RecordingTypeOK
<1>2. pc # "idle" => Plain(at) \in DOMAIN dir
  BY DEF RecordingTypeOK, Has
<1>3. DOMAIN dir \subseteq FileNames /\ \A x \in DOMAIN dir : dir[x] \in Seq(Tokens)
  BY DEF RecordingTypeOK, FileNames
<1>4. faults \in faults..MaxFaults /\ faults + 1 > faults /\ faults \in Nat
  BY <1>1, RecordingAssumption
<1> QED
  BY <1>1, <1>2, <1>3, <1>4

\* A step that touches files and hands only.
LEMMA FileTypes ==
    ASSUME RecordingTypeOK, UNCHANGED <<dates, unflushed, job, written, acked, raced, tears>>,
           today' \in Days, faults' \in faults..MaxFaults,
           handle' = handle \/ (handle' \in [day : Days, linked : BOOLEAN] /\ job # <<>> /\ handle'.day = GroupDay),
           DOMAIN dir' \subseteq FileNames, \A x \in DOMAIN dir' : dir'[x] \in Seq(Tokens),
           pc' \in {"idle", "copy", "verify", "replace", "unlink"}, at' \in Days, size' \in Nat,
           pc' # "idle" => Plain(at') \in DOMAIN dir'
    PROVE  RecordingTypeOK'
<1>1. GroupDay' = GroupDay
  BY DEF GroupDay
<1>2. (handle \in [day : Days, linked : BOOLEAN] \cup {Closed} /\ (handle # Closed => job # <<>> /\ handle.day = GroupDay))'
  BY <1>1 DEF RecordingTypeOK
<1>3. (faults \in 0..MaxFaults /\ tears \in 0..faults)'
  BY RecordingAssumption DEF RecordingTypeOK
<1>4. (pc # "idle" => Has(Plain(at)))'
  BY DEF Has
<1>5. (DOMAIN dir \subseteq {"jsonl", "gz", "part"} \X Days /\ \A name \in DOMAIN dir : dir[name] \in Seq(Tokens))'
  BY DEF FileNames
<1>6. /\ (dates \in Seq(Days) /\ Len(dates) <= MaxLines)'
      /\ (unflushed \in Seq(1..Len(dates)) /\ job \in Seq(1..Len(dates)))'
      /\ (written \in [Days -> Seq(Tokens)])' /\ (acked \subseteq 1..Len(dates) /\ raced \subseteq acked)'
  BY DEF RecordingTypeOK
<1> QED
  BY <1>2, <1>3, <1>4, <1>5, <1>6 DEF RecordingTypeOK

LEMMA OpenTypes ==
    ASSUME RecordingTypeOK, Ordered, OpenFile
    PROVE  RecordingTypeOK'
<1>0. /\ today \in Days /\ faults \in faults..MaxFaults /\ faults + 1 > faults /\ faults \in Nat
      /\ at \in Days /\ size \in Nat /\ pc \in {"idle", "copy", "verify", "replace", "unlink"}
      /\ (pc # "idle" => Plain(at) \in DOMAIN dir)
      /\ DOMAIN dir \subseteq FileNames /\ \A x \in DOMAIN dir : dir[x] \in Seq(Tokens)
  BY FromTypes
<1>1. /\ job # <<>> /\ handle' = [day |-> GroupDay, linked |-> TRUE]
      /\ dir' = IF Has(Plain(GroupDay)) THEN dir ELSE With(dir, Plain(GroupDay), <<>>)
      /\ UNCHANGED <<today, faults, dates, unflushed, job, written, acked, raced, tears, pc, at, size>>
  BY Zenon DEF OpenFile, clock, ghost, cron
<1>2. GroupDay \in Days
  BY <1>1, GroupsAre DEF Ordered
<1>3. handle' \in [day : Days, linked : BOOLEAN] /\ handle'.day = GroupDay'
  BY <1>1, <1>2 DEF GroupDay
<1>4. Plain(GroupDay) \in FileNames /\ <<>> \in Seq(Tokens)
  BY <1>2, NamesOfDays, EmptySeq
<1>5. DOMAIN dir \subseteq DOMAIN dir' /\ DOMAIN dir' \subseteq FileNames /\ \A x \in DOMAIN dir' : dir'[x] \in Seq(Tokens)
  <2>1. CASE Has(Plain(GroupDay))
    BY <1>0, <1>1, <2>1
  <2>2. CASE ~Has(Plain(GroupDay))
    <3>1. dir' = With(dir, Plain(GroupDay), <<>>)
      BY <1>1, <2>2
    <3> QED
      BY <1>0, <1>4, <3>1, FiledIn
  <2> QED
    BY <2>1, <2>2
<1> QED
  BY <1>0, <1>1, <1>3, <1>5, FileTypes DEF GroupDay

LEMMA CompactionTypes ==
    ASSUME RecordingTypeOK, Compacting, Compaction \/ Interrupted \/ \E d \in Days : Begin(d)
    PROVE  RecordingTypeOK'
<1>0. /\ today \in Days /\ faults \in faults..MaxFaults /\ faults + 1 > faults /\ faults \in Nat
      /\ at \in Days /\ size \in Nat /\ pc \in {"idle", "copy", "verify", "replace", "unlink"}
      /\ (pc # "idle" => Plain(at) \in DOMAIN dir)
      /\ DOMAIN dir \subseteq FileNames /\ \A x \in DOMAIN dir : dir[x] \in Seq(Tokens)
  BY FromTypes
<1>1. at \in Days /\ Plain(at) \in FileNames /\ Archive(at) \in FileNames /\ Partial(at) \in FileNames
  BY NamesOfDays DEF RecordingTypeOK
<1>2. DOMAIN dir \subseteq FileNames /\ \A x \in DOMAIN dir : dir[x] \in Seq(Tokens)
  BY DEF RecordingTypeOK, FileNames
<1>3. pc # "idle" => Plain(at) \in DOMAIN dir /\ dir[Plain(at)] \in Seq(Tokens)
  BY DEF RecordingTypeOK, Has
<1>4. ASSUME NEW d \in Days, Begin(d) PROVE RecordingTypeOK'
  <2>1. /\ Has(Plain(d)) /\ pc' = "copy" /\ at' = d /\ size' = Len(dir[Plain(d)])
        /\ dir' = Without(dir, Partial(d))
        /\ UNCHANGED <<today, faults, dates, unflushed, job, handle, written, acked, raced, tears>>
    BY <1>4, Zenon DEF Begin, clock, bot, ghost
  <2>2. Plain(d) # Partial(d)
    BY Names
  <2>3. size' \in Nat
    BY <1>2, <2>1, LenProperties DEF Has
  <2>4. /\ DOMAIN dir' \subseteq FileNames /\ Plain(d) \in DOMAIN dir'
        /\ \A x \in DOMAIN dir' : dir'[x] \in Seq(Tokens)
    BY <1>2, <2>1, <2>2, RemovedIn DEF Has
  <2> QED
    BY <1>0, <2>1, <2>3, <2>4, FileTypes
<1>5. ASSUME Copy PROVE RecordingTypeOK'
  <2>1. /\ pc = "copy" /\ pc' = "verify" /\ dir' = With(dir, Partial(at), dir[Plain(at)])
        /\ UNCHANGED <<today, faults, dates, unflushed, job, handle, written, acked, raced, tears, at, size>>
    BY <1>5, Zenon DEF Copy, clock, bot, ghost
  <2>2. DOMAIN dir \subseteq DOMAIN dir' /\ DOMAIN dir' \subseteq FileNames /\ \A x \in DOMAIN dir' : dir'[x] \in Seq(Tokens)
    BY <1>1, <1>2, <1>3, <2>1, FiledIn
  <2> QED
    BY <1>0, <1>3, <2>1, <2>2, FileTypes
<1>6. ASSUME Verify PROVE RecordingTypeOK'
  <2>1. /\ pc = "verify"
        /\ (pc' = "replace" /\ dir' = dir) \/ (pc' = "idle" /\ dir' = Without(dir, Partial(at)))
        /\ UNCHANGED <<today, faults, dates, unflushed, job, handle, written, acked, raced, tears, at, size>>
    BY <1>6, Zenon DEF Verify, clock, bot, ghost
  <2>2. CASE dir' = dir
    BY <1>0, <1>3, <2>1, <2>2, FileTypes
  <2>3. CASE pc' = "idle" /\ dir' = Without(dir, Partial(at))
    <3>1. DOMAIN dir' \subseteq FileNames /\ \A x \in DOMAIN dir' : dir'[x] \in Seq(Tokens)
      BY <1>2, <2>3, RemovedIn
    <3> QED
      BY <2>1, <2>3, <3>1 DEF RecordingTypeOK, FileNames, Has, GroupDay
  <2> QED
    BY <2>1, <2>2, <2>3
<1>7. ASSUME Replace PROVE RecordingTypeOK'
  <2> DEFINE g == With(dir, Archive(at), dir[Partial(at)])
  <2>1. /\ pc = "replace" /\ pc' = "unlink" /\ dir' = Without(g, Partial(at))
        /\ UNCHANGED <<today, faults, dates, unflushed, job, handle, written, acked, raced, tears, at, size>>
    BY <1>7, Zenon DEF Replace, clock, bot, ghost
  <2>2. Partial(at) \in DOMAIN dir
    BY <2>1 DEF Compacting, Has
  <2>3. DOMAIN g \subseteq FileNames /\ (\A x \in DOMAIN g : g[x] \in Seq(Tokens)) /\ Plain(at) \in DOMAIN g
    BY <1>1, <1>2, <1>3, <2>1, <2>2, FiledIn
  <2>4. Plain(at) # Partial(at)
    BY Names
  <2> HIDE DEF g
  <2>5. DOMAIN dir' \subseteq FileNames /\ (\A x \in DOMAIN dir' : dir'[x] \in Seq(Tokens)) /\ Plain(at) \in DOMAIN dir'
    BY <2>1, <2>3, <2>4, RemovedIn
  <2> QED
    BY <1>0, <2>1, <2>5, FileTypes
<1>8. ASSUME Unlink PROVE RecordingTypeOK'
  <2>1. /\ pc' = "idle" /\ dir' = Without(dir, Plain(at))
        /\ handle' = IF handle.day = at THEN [handle EXCEPT !.linked = FALSE] ELSE handle
        /\ UNCHANGED <<today, faults, dates, unflushed, job, written, acked, raced, tears, at, size>>
    BY <1>8, Zenon DEF Unlink, clock, ghost
  <2>2. DOMAIN dir' \subseteq FileNames /\ \A x \in DOMAIN dir' : dir'[x] \in Seq(Tokens)
    BY <1>2, <2>1, RemovedIn
  <2>3. handle' = handle \/ (handle' \in [day : Days, linked : BOOLEAN] /\ job # <<>> /\ handle'.day = GroupDay)
    <3>1. CASE handle.day # at
      BY <2>1, <3>1
    <3>2. CASE handle.day = at
      <4>1. handle # Closed
        BY <1>1, <3>2, RecordingAssumption DEF Closed, Days
      <4>2. handle \in [day : Days, linked : BOOLEAN] /\ job # <<>> /\ handle.day = GroupDay
        BY <4>1 DEF RecordingTypeOK
      <4>3. handle' \in [day : Days, linked : BOOLEAN] /\ handle'.day = handle.day
        BY <2>1, <3>2, <4>2
      <4> QED
        BY <4>2, <4>3
    <3> QED
      BY <3>1, <3>2
  <2> QED
    BY <1>0, <2>1, <2>2, <2>3, FileTypes
<1>9. ASSUME Keep PROVE RecordingTypeOK'
  <2>1. /\ pc' = "idle"
        /\ UNCHANGED <<today, faults, dates, unflushed, job, handle, dir, written, acked, raced, tears, at, size>>
    BY <1>9, Zenon DEF Keep, clock, bot, ghost
  <2> QED
    BY <1>0, <2>1, FileTypes
<1>10. ASSUME Interrupted PROVE RecordingTypeOK'
  <2>1. /\ faults < MaxFaults /\ faults' = faults + 1 /\ pc' = "idle"
        /\ dir' = IF pc = "copy" THEN With(dir, Partial(at), <<>>) ELSE dir
        /\ UNCHANGED <<today, dates, unflushed, job, handle, written, acked, raced, tears, at, size>>
    BY <1>10, Zenon DEF Interrupted, bot, ghost
  <2>2. <<>> \in Seq(Tokens)
    BY EmptySeq
  <2>3. DOMAIN dir' \subseteq FileNames /\ \A x \in DOMAIN dir' : dir'[x] \in Seq(Tokens)
    <3>1. CASE pc = "copy"
      BY <1>1, <1>2, <2>1, <2>2, <3>1, FiledIn
    <3>2. CASE pc # "copy"
      BY <1>2, <2>1, <3>2
    <3> QED
      BY <3>1, <3>2
  <2>4. faults' \in faults..MaxFaults
    BY <1>0, <2>1, RecordingAssumption
  <2> QED
    BY <1>0, <2>1, <2>3, <2>4, FileTypes
<1> QED
  BY <1>4, <1>5, <1>6, <1>7, <1>8, <1>9, <1>10 DEF Compaction

LEMMA RecordingTypesStep ==
    ASSUME RecordingTypeOK, Ordered, Handling, Compacting, [RecordingNext]_recording
    PROVE  RecordingTypeOK'
<1>0. /\ today \in Days /\ faults \in faults..MaxFaults /\ faults + 1 > faults /\ faults \in Nat
      /\ at \in Days /\ size \in Nat /\ pc \in {"idle", "copy", "verify", "replace", "unlink"}
      /\ (pc # "idle" => Plain(at) \in DOMAIN dir)
      /\ DOMAIN dir \subseteq FileNames /\ \A x \in DOMAIN dir : dir[x] \in Seq(Tokens)
  BY FromTypes
<1>1. ASSUME NEW d \in Days, Record(d) PROVE RecordingTypeOK'
  BY <1>1, RecordTypes
<1>2. ASSUME Flush PROVE RecordingTypeOK'
  <2>1. /\ job = <<>> /\ unflushed' = <<>> /\ job' = unflushed
        /\ UNCHANGED <<today, faults, dates, handle, dir, written, acked, raced, tears, pc, at, size>>
    BY <1>2, Zenon DEF Flush, clock, ghost, cron
  <2>2. <<>> \in Seq(1..Len(dates)) /\ handle = Closed
    BY <2>1, EmptySeq DEF RecordingTypeOK
  <2> QED
    BY <2>1, <2>2 DEF RecordingTypeOK, Has
<1>3. ASSUME NextDay PROVE RecordingTypeOK'
  <2>1. /\ today < MaxDay /\ today' = today + 1
        /\ UNCHANGED <<faults, dates, unflushed, job, handle, dir, written, acked, raced, tears, pc, at, size>>
    BY <1>3, Zenon DEF NextDay, bot, ghost, cron
  <2>2. today' \in Days
    BY <1>0, <2>1, RecordingAssumption DEF Days
  <2> QED
    BY <1>0, <2>1, <2>2, FileTypes
<1>4. CASE UNCHANGED recording
  <2>1. UNCHANGED <<today, faults, dates, unflushed, job, handle, dir, written, acked, raced, tears, pc, at, size>>
    BY <1>4, Zenon DEF recording, clock, bot, ghost, cron
  <2> QED
    BY <1>0, <2>1, FileTypes
<1> QED
  BY <1>1, <1>2, <1>3, <1>4, OpenTypes, WriteOutTypes, CrashTypes, CompactionTypes DEF RecordingNext

-----------------------------------------------------------------------------
(* The order of the events. *)

LEMMA JoinedTokens ==
    ASSUME NEW w \in Seq(Tokens), NEW t \in Seq(Tokens)
    PROVE  /\ w \o t \in Seq(Tokens) /\ Len(w \o t) = Len(w) + Len(t) /\ Len(w) \in Nat /\ Len(t) \in Nat
           /\ DOMAIN w = 1..Len(w) /\ DOMAIN t = 1..Len(t) /\ DOMAIN (w \o t) = 1..(Len(w) + Len(t))
           /\ \A i \in 1..Len(w) : (w \o t)[i] = w[i]
           /\ \A i \in 1..Len(t) : (w \o t)[Len(w) + i] = t[i]
           /\ \A i \in 1..(Len(w) + Len(t)) :
                 i \in 1..Len(w) \/ (i - Len(w) \in 1..Len(t) /\ (w \o t)[i] = t[i - Len(w)])
<1>1. Len(w) \in Nat /\ Len(t) \in Nat /\ DOMAIN w = 1..Len(w) /\ DOMAIN t = 1..Len(t)
  BY LenProperties
<1> DEFINE x == w \o t
<1>2. /\ x \in Seq(Tokens) /\ Len(x) = Len(w) + Len(t)
      /\ \A i \in 1..(Len(w) + Len(t)) : x[i] = IF i <= Len(w) THEN w[i] ELSE t[i - Len(w)]
  BY ConcatProperties
<1>3. DOMAIN x = 1..(Len(w) + Len(t))
  BY <1>2, LenProperties
<1> HIDE DEF x
<1>4. \A i \in 1..Len(w) : x[i] = w[i]
  BY <1>1, <1>2
<1>5. \A i \in 1..Len(t) : x[Len(w) + i] = t[i]
  BY <1>1, <1>2
<1>6. \A i \in 1..(Len(w) + Len(t)) :
         i \in 1..Len(w) \/ (i - Len(w) \in 1..Len(t) /\ x[i] = t[i - Len(w)])
  BY <1>1, <1>2
<1> QED
  BY <1>1, <1>2, <1>3, <1>4, <1>5, <1>6 DEF x

LEMMA JoinedRises ==
    ASSUME NEW w \in Seq(Tokens), NEW t \in Seq(Tokens), RisesIn(w), RisesIn(t),
           \A i \in DOMAIN w : \A j \in DOMAIN t : w[i] > 0 /\ t[j] > 0 => w[i] < t[j]
    PROVE  RisesIn(w \o t)
<1> DEFINE x == w \o t
<1>1. /\ Len(w) \in Nat /\ Len(t) \in Nat
      /\ DOMAIN w = 1..Len(w) /\ DOMAIN t = 1..Len(t) /\ DOMAIN x = 1..(Len(w) + Len(t))
      /\ \A i \in 1..Len(w) : x[i] = w[i]
      /\ \A i \in 1..(Len(w) + Len(t)) :
            i \in 1..Len(w) \/ (i - Len(w) \in 1..Len(t) /\ x[i] = t[i - Len(w)])
  BY JoinedTokens
<1> HIDE DEF x
<1>2. ASSUME NEW i \in DOMAIN x, NEW j \in DOMAIN x, i < j, x[i] > 0, x[j] > 0 PROVE x[i] < x[j]
  <2>1. CASE j \in 1..Len(w)
    <3>1. i \in 1..Len(w)
      BY <1>1, <1>2, <2>1
    <3> QED
      BY <1>1, <1>2, <2>1, <3>1 DEF RisesIn
  <2>2. CASE j \notin 1..Len(w) /\ i \in 1..Len(w)
    <3>1. j - Len(w) \in DOMAIN t /\ x[j] = t[j - Len(w)] /\ i \in DOMAIN w /\ x[i] = w[i]
      BY <1>1, <2>2
    <3> QED
      BY <1>2, <3>1
  <2>3. CASE j \notin 1..Len(w) /\ i \notin 1..Len(w)
    <3>1. /\ j - Len(w) \in DOMAIN t /\ x[j] = t[j - Len(w)]
          /\ i - Len(w) \in DOMAIN t /\ x[i] = t[i - Len(w)]
          /\ i - Len(w) < j - Len(w)
      BY <1>1, <1>2, <2>3
    <3> QED
      BY <1>2, <3>1 DEF RisesIn
  <2> QED
    BY <2>1, <2>2, <2>3
<1>3. RisesIn(x)
  BY <1>2 DEF RisesIn
<1> QED
  BY <1>3 DEF x

\* What is written of a group continues its day and is new.
LEMMA GroupFollows ==
    ASSUME RecordingTypeOK, Ordered, Ended, Handling, handle # Closed,
           NEW tokens, Written(tokens, FirstGroup), Appended(tokens)
    PROVE  /\ tokens \in Seq(Tokens) /\ handle.day \in Days /\ job # <<>> /\ unflushed = <<>>
           /\ \A d \in Days : RisesIn(written'[d])
           /\ \A d \in Days : \A i \in DOMAIN written'[d] : written'[d][i] > 0 =>
                 /\ written'[d][i] \in 1..Len(dates) /\ dates[written'[d][i]] = d
                 /\ \A n \in Waiting : dates[n] = d /\ d # handle.day => written'[d][i] < n
           /\ \A d \in Days : \A i \in DOMAIN written[d] : written[d][i] \notin ToSet(FirstGroup)
           /\ \A i \in DOMAIN tokens : tokens[i] \notin acked
<1> DEFINE d0 == handle.day
           L  == Len(dates)
<1>1. tokens \in Seq(Tokens) /\ RisesIn(tokens) /\ \A i \in DOMAIN tokens : tokens[i] > 0 => tokens[i] \in ToSet(FirstGroup)
  BY DEF Written
<1>2. /\ d0 \in Days /\ d0 = GroupDay /\ job # <<>>
      /\ written'[d0] = written[d0] \o tokens /\ \A e \in Days : e # d0 => written'[e] = written[e]
  BY <1>1, AppendedIs
<1>3. unflushed = <<>> /\ Ascending(job)
  BY <1>2 DEF Ordered
<1>4. ToSet(FirstGroup) = {n \in ToSet(job) : dates[n] = d0} /\ ToSet(job) \subseteq 1..L
  <2>1. job \in Seq(1..L)
    BY DEF RecordingTypeOK
  <2> QED
    BY <1>2, <1>3, <2>1, GroupsAre, ElementsOf
<1>5. ToSet(FirstGroup) \subseteq Waiting
  BY <1>4 DEF Waiting
<1>6. L \in Nat
  BY LenProperties DEF RecordingTypeOK
<1>7. \A d \in Days : RisesIn(written[d]) /\ written[d] \in Seq(Tokens)
  BY DEF Ordered, RecordingTypeOK
<1>8. \A d \in Days : \A i \in DOMAIN written[d] : written[d][i] > 0 =>
         /\ written[d][i] \in 1..L /\ dates[written[d][i]] = d
         /\ \A n \in Waiting : dates[n] = d => written[d][i] < n
  BY DEF Ordered
<1> HIDE DEF d0, L
<1>9. \A i \in DOMAIN written[d0] : \A j \in DOMAIN tokens :
         written[d0][i] > 0 /\ tokens[j] > 0 => written[d0][i] < tokens[j]
  BY <1>1, <1>2, <1>4, <1>5, <1>8
<1>10. \A d \in Days : RisesIn(written'[d])
  <2>1. RisesIn(written'[d0])
    BY <1>1, <1>2, <1>7, <1>9, JoinedRises
  <2> QED
    BY <1>2, <1>7, <2>1
<1>11. ASSUME NEW d \in Days, NEW i \in DOMAIN written'[d], written'[d][i] > 0
       PROVE  /\ written'[d][i] \in 1..L /\ dates[written'[d][i]] = d
              /\ \A n \in Waiting : dates[n] = d /\ d # d0 => written'[d][i] < n
  <2>1. CASE d # d0
    <3>1. written'[d] = written[d]
      BY <1>2, <2>1
    <3> QED
      BY <1>8, <1>11, <3>1
  <2>2. CASE d = d0
    <3> DEFINE w == written[d0]
    <3>1. /\ DOMAIN w = 1..Len(w) /\ DOMAIN tokens = 1..Len(tokens) /\ DOMAIN (w \o tokens) = 1..(Len(w) + Len(tokens))
          /\ \A k \in 1..Len(w) : (w \o tokens)[k] = w[k]
          /\ \A k \in 1..(Len(w) + Len(tokens)) :
                k \in 1..Len(w) \/ (k - Len(w) \in 1..Len(tokens) /\ (w \o tokens)[k] = tokens[k - Len(w)])
      BY <1>1, <1>2, <1>7, JoinedTokens
    <3>2. CASE i \in 1..Len(w)
      <4>1. i \in DOMAIN w /\ written'[d][i] = w[i]
        BY <1>2, <2>2, <3>1, <3>2
      <4> QED
        BY <1>2, <1>8, <1>11, <2>2, <4>1
    <3>3. CASE i \notin 1..Len(w)
      <4>1. i - Len(w) \in DOMAIN tokens /\ written'[d][i] = tokens[i - Len(w)]
        BY <1>2, <2>2, <3>1, <3>3
      <4>2. written'[d][i] \in ToSet(FirstGroup)
        BY <1>1, <1>11, <4>1
      <4> QED
        BY <1>4, <2>2, <4>2
    <3> QED
      BY <3>2, <3>3
  <2> QED
    BY <2>1, <2>2
<1>12. ASSUME NEW d \in Days, NEW i \in DOMAIN written[d], written[d][i] \in ToSet(FirstGroup) PROVE FALSE
  <2> DEFINE x == written[d][i]
  <2>1. x \in 1..L /\ dates[x] = d0 /\ x \in Waiting
    BY <1>4, <1>5, <1>12
  <2>2. x > 0
    BY <1>6, <2>1
  <2>3. dates[x] = d /\ \A n \in Waiting : dates[n] = d => x < n
    BY <1>8, <2>2
  <2>4. x < x
    BY <2>1, <2>3
  <2> HIDE DEF x
  <2> QED
    BY <1>6, <2>1, <2>4
<1>13. ASSUME NEW i \in DOMAIN tokens, tokens[i] \in acked PROVE FALSE
  <2>1. tokens[i] > 0
    <3>1. acked \subseteq 1..L
      BY DEF RecordingTypeOK, L
    <3>2. tokens[i] \in 1..L
      BY <1>13, <3>1
    <3> QED
      BY <1>6, <3>2
  <2>2. tokens[i] \in Waiting
    BY <1>1, <1>5, <2>1
  <2> QED
    BY <1>13, <2>2 DEF Ended
<1> QED
  BY <1>1, <1>2, <1>3, <1>10, <1>11, <1>12, <1>13 DEF d0, L

\* Only these steps change what is on its way or written.
LEMMA FlowIs ==
    ASSUME [RecordingNext]_recording
    PROVE  \/ \E d \in Days : Record(d)
           \/ Flush \/ WriteOut \/ Crash
           \/ UNCHANGED <<dates, unflushed, job, written, acked, raced, tears>>
<1> USE Zenon DEF clock, bot, ghost, cron
<1>1. ASSUME NEW d \in Days, Begin(d) PROVE UNCHANGED <<dates, unflushed, job, written, acked, raced, tears>>
  BY <1>1 DEF Begin
<1>2. ASSUME OpenFile \/ NextDay \/ Interrupted PROVE UNCHANGED <<dates, unflushed, job, written, acked, raced, tears>>
  BY <1>2 DEF OpenFile, NextDay, Interrupted
<1>3. ASSUME Compaction PROVE UNCHANGED <<dates, unflushed, job, written, acked, raced, tears>>
  BY <1>3 DEF Compaction, Copy, Verify, Replace, Unlink, Keep
<1>4. UNCHANGED recording => UNCHANGED <<dates, unflushed, job, written, acked, raced, tears>>
  BY DEF recording
<1> QED
  BY <1>1, <1>2, <1>3, <1>4 DEF RecordingNext

LEMMA NothingWaits == ToSet(<<>>) = {} /\ Ascending(<<>>) /\ DOMAIN <<>> = {}
BY DEF ToSet, Ascending

LEMMA RecordKeepsOrder ==
    ASSUME RecordingTypeOK, Ordered, Ended, NEW day \in Days, Record(day)
    PROVE  Ordered' /\ Ended'
<1> DEFINE L == Len(dates)
           lines == Append(unflushed, L + 1)
<1>1. /\ job = <<>> /\ L \in Nat /\ \A n \in 1..L : dates'[n] = dates[n]
      /\ (unflushed' = <<>> /\ job' = lines) \/ (unflushed' = lines /\ job' = <<>>)
      /\ Len(dates') = L + 1
      /\ UNCHANGED <<today, faults, handle, dir, written, acked, raced, tears, pc, at, size>>
  BY RecordIs
<1>2. unflushed \in Seq(1..L) /\ acked \subseteq 1..L
  BY DEF RecordingTypeOK
<1>3. Ascending(unflushed) /\ \A d \in Days : RisesIn(written[d])
  BY DEF Ordered
<1>4. \A d \in Days : \A i \in DOMAIN written[d] : written[d][i] > 0 =>
         /\ written[d][i] \in 1..L /\ dates[written[d][i]] = d
         /\ \A n \in Waiting : dates[n] = d => written[d][i] < n
  BY DEF Ordered
<1>5. /\ Waiting \cap acked = {}
      /\ \A d \in Days : \A i \in DOMAIN written[d] :
            written[d][i] \in acked => i < Len(written[d]) /\ written[d][i + 1] = NL
  BY DEF Ended
<1> HIDE DEF L
<1>6. Waiting = ToSet(unflushed) /\ ToSet(unflushed) \subseteq 1..L
  BY <1>1, <1>2, NothingWaits, ElementsOf DEF Waiting
<1>7. /\ ToSet(lines) = ToSet(unflushed) \cup {L + 1}
      /\ Ascending(lines)
  <2>1. unflushed \in Seq(Nat) /\ L + 1 \in Nat
    <3>1. 1..L \subseteq Nat
      BY <1>1
    <3> QED
      BY <1>1, <1>2, <3>1, SeqMonotonic
  <2>2. /\ lines \in Seq(Nat) /\ Len(lines) = Len(unflushed) + 1
        /\ \A i \in 1..Len(unflushed) : lines[i] = unflushed[i]
        /\ lines[Len(unflushed) + 1] = L + 1
        /\ ToSet(lines) = ToSet(unflushed) \cup {L + 1}
    BY <2>1, OneLonger
  <2>3. Len(unflushed) \in Nat /\ DOMAIN unflushed = 1..Len(unflushed) /\ DOMAIN lines = 1..(Len(unflushed) + 1)
    BY <2>1, <2>2, LenProperties
  <2>4. \A i \in 1..Len(unflushed) : unflushed[i] \in 1..L
    BY <1>2, ElementOfSeq
  <2> HIDE DEF lines
  <2>5. \A i \in DOMAIN lines : i \in 1..Len(unflushed) \/ i = Len(unflushed) + 1
    BY <2>3
  <2>6. ASSUME NEW i \in DOMAIN lines, NEW j \in DOMAIN lines, i < j PROVE lines[i] < lines[j]
    <3>1. i \in 1..Len(unflushed)
      BY <2>3, <2>6
    <3>2. CASE j \in 1..Len(unflushed)
      BY <1>3, <2>2, <2>3, <2>6, <3>1, <3>2 DEF Ascending
    <3>3. CASE j = Len(unflushed) + 1
      BY <1>1, <2>2, <2>4, <3>1, <3>3
    <3> QED
      BY <2>5, <3>2, <3>3
  <2> QED
    BY <2>2, <2>6 DEF Ascending
<1>8. Waiting' = ToSet(unflushed) \cup {L + 1}
  BY <1>1, <1>7, NothingWaits DEF Waiting
<1>9. Ascending(job') /\ Ascending(unflushed') /\ (job' = <<>> \/ unflushed' = <<>>)
  BY <1>1, <1>7, NothingWaits
<1>10. ASSUME NEW d \in Days, NEW i \in DOMAIN written[d], written[d][i] > 0
       PROVE  /\ written[d][i] \in 1..(L + 1) /\ dates'[written[d][i]] = d
              /\ \A n \in Waiting' : dates'[n] = d => written[d][i] < n
  <2> DEFINE x == written[d][i]
  <2>1. x \in 1..L /\ dates[x] = d /\ \A n \in Waiting : dates[n] = d => x < n
    BY <1>4, <1>10
  <2> HIDE DEF x
  <2>2. x \in 1..(L + 1) /\ dates'[x] = d
    BY <1>1, <2>1
  <2>3. ASSUME NEW n \in Waiting', dates'[n] = d PROVE x < n
    <3>1. CASE n = L + 1
      BY <1>1, <2>1, <3>1
    <3>2. CASE n \in ToSet(unflushed)
      BY <1>1, <1>6, <2>1, <2>3, <3>2
    <3> QED
      BY <1>8, <3>1, <3>2
  <2> QED
    BY <2>2, <2>3 DEF x
<1>11. Waiting' \cap acked = {}
  BY <1>1, <1>2, <1>5, <1>6, <1>8
<1>12. Ordered'
  BY <1>1, <1>3, <1>9, <1>10 DEF Ordered
<1>13. Ended'
  BY <1>1, <1>5, <1>11 DEF Ended
<1> QED
  BY <1>12, <1>13

\* The lines of a group, or what an early stop leaves of them, come after those of their day.
LEMMA WriteKeepsOrder ==
    ASSUME RecordingTypeOK, Ordered, Ended, Handling, WriteOut
    PROVE  Ordered' /\ Ended'
<1> DEFINE d0 == handle.day
           t == Text(FirstGroup)
           L == Len(dates)
<1>1. /\ handle # Closed
      /\ acked' = acked \cup ToSet(FirstGroup) /\ job' = OtherGroups
      /\ UNCHANGED <<dates, unflushed>>
  BY Zenon DEF WriteOut, clock, cron
<1>2. Written(t, FirstGroup) /\ Appended(t)
  BY WriteOutTypes
<1> HIDE DEF t
<1>3. /\ t \in Seq(Tokens) /\ d0 \in Days /\ job # <<>> /\ unflushed = <<>>
      /\ \A d \in Days : RisesIn(written'[d])
      /\ \A d \in Days : \A i \in DOMAIN written'[d] : written'[d][i] > 0 =>
            /\ written'[d][i] \in 1..L /\ dates[written'[d][i]] = d
            /\ \A n \in Waiting : dates[n] = d /\ d # d0 => written'[d][i] < n
      /\ \A d \in Days : \A i \in DOMAIN written[d] : written[d][i] \notin ToSet(FirstGroup)
  BY <1>1, <1>2, GroupFollows
<1>4. /\ written'[d0] = written[d0] \o t /\ \A e \in Days : e # d0 => written'[e] = written[e]
      /\ d0 = GroupDay
  BY <1>1, <1>2, <1>3, AppendedIs
<1>5. Ascending(job)
  BY DEF Ordered
<1>6. /\ FirstGroup \in Seq(1..MaxLines) /\ ToSet(FirstGroup) = {n \in ToSet(job) : dates[n] = d0}
      /\ Ascending(OtherGroups) /\ ToSet(OtherGroups) = {n \in ToSet(job) : dates[n] # d0}
      /\ ToSet(FirstGroup) \subseteq 1..L /\ L \in Nat
  <2>1. /\ FirstGroup \in Seq(1..MaxLines) /\ FirstGroup \in Seq(1..L)
        /\ ToSet(FirstGroup) = {n \in ToSet(job) : dates[n] = d0}
        /\ Ascending(OtherGroups) /\ ToSet(OtherGroups) = {n \in ToSet(job) : dates[n] # d0}
    BY <1>3, <1>4, <1>5, GroupsAre
  <2>2. L \in Nat
    BY LenProperties DEF RecordingTypeOK
  <2>3. ToSet(FirstGroup) \subseteq 1..L
    BY <2>1, ElementsOf
  <2> QED
    BY <2>1, <2>2, <2>3
<1>7. /\ Waiting' = {n \in ToSet(job) : dates[n] # d0} /\ Waiting = ToSet(job)
  BY <1>1, <1>3, <1>6, NothingWaits DEF Waiting
<1>8. /\ \A d \in Days : \A i \in 1..Len(written[d]) :
            written[d][i] \in acked => i < Len(written[d]) /\ written[d][i + 1] = NL
      /\ \A d \in Days : written[d] \in Seq(Tokens) /\ DOMAIN written[d] = 1..Len(written[d]) /\ Len(written[d]) \in Nat
      /\ Waiting \cap acked = {} /\ acked \subseteq 1..L
  <2>1. \A d \in Days : written[d] \in Seq(Tokens)
    BY DEF RecordingTypeOK
  <2>2. \A d \in Days : DOMAIN written[d] = 1..Len(written[d]) /\ Len(written[d]) \in Nat
    BY <2>1, LenProperties
  <2> QED
    BY <2>1, <2>2 DEF Ended, RecordingTypeOK
<1>9. /\ Len(t) \in Nat
      /\ \A i \in 1..Len(t) : t[i] > 0 => i < Len(t) /\ t[i + 1] = NL
  BY <1>3, <1>6, LenProperties, TextIs DEF t
<1> HIDE DEF d0, L
<1>10. Ordered'
  <2>1. ASSUME NEW d \in Days, NEW i \in DOMAIN written'[d], written'[d][i] > 0
        PROVE  /\ written'[d][i] \in 1..L /\ dates[written'[d][i]] = d
               /\ \A n \in Waiting' : dates[n] = d => written'[d][i] < n
    BY <1>3, <1>7, <2>1
  <2>2. Ascending(unflushed) /\ unflushed' = <<>>
    BY <1>1, <1>3, NothingWaits
  <2> QED
    BY <1>1, <1>3, <1>6, <2>1, <2>2 DEF Ordered, L
<1>11. Ended'
  <2>1. Waiting' \cap acked' = {}
    BY <1>1, <1>6, <1>7, <1>8
  <2>2. ASSUME NEW d \in Days, NEW i \in DOMAIN written'[d], written'[d][i] \in acked'
        PROVE  i < Len(written'[d]) /\ written'[d][i + 1] = NL
    <3>1. CASE d # d0
      <4>1. written'[d] = written[d]
        BY <1>4, <3>1
      <4>2. i \in 1..Len(written[d]) /\ written[d][i] \in acked
        BY <1>1, <1>3, <1>8, <2>2, <4>1
      <4> QED
        BY <1>8, <4>1, <4>2
    <3>2. CASE d = d0
      <4> DEFINE w == written[d0]
                 x == w \o t
      <4>1. /\ Len(x) = Len(w) + Len(t) /\ Len(w) \in Nat /\ DOMAIN x = 1..(Len(w) + Len(t))
            /\ \A k \in 1..Len(w) : x[k] = w[k]
            /\ \A k \in 1..Len(t) : x[Len(w) + k] = t[k]
            /\ \A k \in 1..(Len(w) + Len(t)) :
                  k \in 1..Len(w) \/ (k - Len(w) \in 1..Len(t) /\ x[k] = t[k - Len(w)])
        BY <1>3, <1>8, JoinedTokens
      <4>2. written'[d] = x /\ i \in 1..(Len(w) + Len(t)) /\ x[i] \in acked'
        BY <1>4, <2>2, <3>2, <4>1
      <4>3. w \in Seq(Tokens) /\ (\A k \in 1..Len(w) : w[k] \notin ToSet(FirstGroup))
            /\ \A k \in 1..Len(w) : w[k] \in acked => k < Len(w) /\ w[k + 1] = NL
        BY <1>3, <1>8
      <4> HIDE DEF w, x
      <4>4. CASE i \in 1..Len(w)
        <5>1. w[i] \in acked
          BY <1>1, <4>1, <4>2, <4>3, <4>4
        <5>2. i < Len(w) /\ w[i + 1] = NL /\ i + 1 \in 1..Len(w)
          BY <4>1, <4>3, <4>4, <5>1
        <5>3. x[i + 1] = NL
          BY <4>1, <5>2
        <5> QED
          BY <1>9, <4>1, <4>2, <5>2, <5>3
      <4>5. CASE i \notin 1..Len(w)
        <5> DEFINE k == i - Len(w)
        <5>1. k \in 1..Len(t) /\ x[i] = t[k]
          BY <4>1, <4>2, <4>5
        <5>2. t[k] \in 1..L
          BY <1>1, <1>6, <1>8, <4>2, <5>1
        <5>3. t[k] > 0
          BY <1>6, <5>2
        <5>4. k < Len(t) /\ t[k + 1] = NL
          BY <1>9, <5>1, <5>3
        <5>5. Len(w) \in Nat /\ Len(t) \in Nat /\ i \in 1..(Len(w) + Len(t)) /\ Len(x) = Len(w) + Len(t)
          BY <1>9, <4>1, <4>2
        <5>6. k + 1 \in 1..Len(t) /\ i + 1 = Len(w) + (k + 1) /\ i < Len(x)
          BY <5>1, <5>4, <5>5
        <5>7. x[Len(w) + (k + 1)] = t[k + 1]
          BY <4>1, <5>6
        <5> QED
          BY <4>2, <5>4, <5>6, <5>7
      <4> QED
        BY <4>4, <4>5
    <3> QED
      BY <3>1, <3>2
  <2> QED
    BY <2>1, <2>2 DEF Ended
<1> QED
  BY <1>10, <1>11

LEMMA CrashKeepsOrder ==
    ASSUME RecordingTypeOK, Ordered, Ended, Handling, Crash
    PROVE  Ordered' /\ Ended'
<1> DEFINE d0 == handle.day
           L == Len(dates)
<1>1. unflushed' = <<>> /\ job' = <<>> /\ UNCHANGED <<dates, acked>>
  BY Zenon DEF Crash
<1>2. Waiting' = {} /\ Ascending(job') /\ Ascending(unflushed')
  BY <1>1, NothingWaits DEF Waiting
<1>3. CASE UNCHANGED written
  BY <1>1, <1>2, <1>3 DEF Ordered, Ended
<1>4. CASE /\ handle # Closed
           /\ \E tokens \in CutShort(Text(FirstGroup)) : Written(tokens, FirstGroup) /\ Appended(tokens)
  <2>1. PICK t : Written(t, FirstGroup) /\ Appended(t)
    BY <1>4
  <2>2. /\ t \in Seq(Tokens) /\ d0 \in Days
        /\ \A d \in Days : RisesIn(written'[d])
        /\ \A d \in Days : \A i \in DOMAIN written'[d] : written'[d][i] > 0 =>
              written'[d][i] \in 1..L /\ dates[written'[d][i]] = d
        /\ \A i \in DOMAIN t : t[i] \notin acked
    BY <1>4, <2>1, GroupFollows
  <2>3. written'[d0] = written[d0] \o t /\ \A e \in Days : e # d0 => written'[e] = written[e]
    BY <1>4, <2>1, <2>2, AppendedIs
  <2>4. Ordered'
    BY <1>1, <1>2, <2>2 DEF Ordered
  <2> HIDE DEF d0
  <2>5. ASSUME NEW d \in Days, NEW i \in DOMAIN written'[d], written'[d][i] \in acked
        PROVE  i < Len(written'[d]) /\ written'[d][i + 1] = NL
    <3>1. CASE d # d0
      <4>1. written'[d] = written[d]
        BY <2>3, <3>1
      <4> QED
        BY <2>5, <4>1 DEF Ended
    <3>2. CASE d = d0
      <4> DEFINE w == written[d0]
                 x == w \o t
      <4>0. w \in Seq(Tokens)
        BY <2>2 DEF RecordingTypeOK
      <4>1. /\ Len(x) = Len(w) + Len(t) /\ Len(w) \in Nat /\ Len(t) \in Nat /\ DOMAIN x = 1..(Len(w) + Len(t))
            /\ \A k \in 1..Len(w) : x[k] = w[k]
            /\ DOMAIN t = 1..Len(t) /\ DOMAIN w = 1..Len(w)
            /\ \A k \in 1..(Len(w) + Len(t)) :
                  k \in 1..Len(w) \/ (k - Len(w) \in 1..Len(t) /\ x[k] = t[k - Len(w)])
        BY <2>2, <4>0, JoinedTokens
      <4>2. written'[d] = x /\ i \in 1..(Len(w) + Len(t)) /\ x[i] \in acked
        BY <2>3, <2>5, <3>2, <4>1
      <4>3. \A k \in 1..Len(w) : w[k] \in acked => k < Len(w) /\ w[k + 1] = NL
        BY <2>2, <4>1 DEF Ended
      <4> HIDE DEF w, x
      <4>4. i \in 1..Len(w)
        BY <2>2, <4>1, <4>2
      <4>5. i < Len(w) /\ w[i + 1] = NL /\ i + 1 \in 1..Len(w)
        BY <4>1, <4>2, <4>3, <4>4
      <4> QED
        BY <4>1, <4>2, <4>5
    <3> QED
      BY <3>1, <3>2
  <2>6. Ended'
    BY <1>1, <1>2, <2>5 DEF Ended
  <2> QED
    BY <2>4, <2>6
<1> QED
  BY <1>3, <1>4, CrashTypes

LEMMA OrderStep ==
    ASSUME RecordingTypeOK, Ordered, Ended, Handling, [RecordingNext]_recording
    PROVE  Ordered' /\ Ended'
<1>1. CASE Flush
  <2>1. job = <<>> /\ unflushed' = <<>> /\ job' = unflushed /\ UNCHANGED <<dates, written, acked>>
    BY <1>1, Zenon DEF Flush, ghost
  <2>2. Waiting' = Waiting
    BY <2>1 DEF Waiting
  <2> QED
    BY <2>1, <2>2 DEF Ordered, Ended
<1>2. CASE UNCHANGED <<dates, unflushed, job, written, acked, raced, tears>>
  <2>1. Waiting' = Waiting
    BY <1>2 DEF Waiting
  <2> QED
    BY <1>2, <2>1 DEF Ordered, Ended
<1> QED
  BY <1>1, <1>2, FlowIs, RecordKeepsOrder, WriteKeepsOrder, CrashKeepsOrder

-----------------------------------------------------------------------------
(* What is on file of a day. *)

SameFile(x) == (x \in DOMAIN dir' <=> x \in DOMAIN dir) /\ (x \in DOMAIN dir => dir'[x] = dir[x])

LEMMA SameIs ==
    ASSUME NEW x, SameFile(x)
    PROVE  (Has(x)' <=> Has(x)) /\ Content(x)' = Content(x)
BY DEF SameFile, Has, Content

LEMMA WithIs ==
    ASSUME NEW name, NEW content, dir' = With(dir, name, content)
    PROVE  /\ name \in DOMAIN dir' /\ dir'[name] = content
           /\ \A x : x # name => SameFile(x)
BY DEF With, SameFile

LEMMA WithoutIs ==
    ASSUME NEW name, dir' = Without(dir, name)
    PROVE  /\ name \notin DOMAIN dir'
           /\ \A x : x # name => SameFile(x)
BY DEF Without, SameFile

\* The days' files after the steps of the compaction that touch the unfinished archive only.
LEMMA AsideIs ==
    ASSUME \/ \E d \in Days : Begin(d)
           \/ Copy \/ Verify \/ Keep \/ Interrupted
    PROVE  /\ \A e \in Days : SameFile(Plain(e)) /\ SameFile(Archive(e))
           /\ UNCHANGED <<dates, unflushed, job, handle, written, acked, raced, tears>>
<1>1. UNCHANGED <<dates, unflushed, job, handle, written, acked, raced, tears>>
  BY Zenon DEF Begin, Copy, Verify, Keep, Interrupted, clock, bot, ghost
<1>2. \/ dir' = dir
      \/ \E d \in Days : dir' = Without(dir, Partial(d))
      \/ dir' = Without(dir, Partial(at))
      \/ \E content : dir' = With(dir, Partial(at), content)
  BY Zenon DEF Begin, Copy, Verify, Keep, Interrupted, clock, bot, ghost
<1>3. CASE dir' = dir
  BY <1>1, <1>3 DEF SameFile
<1>4. ASSUME NEW d, dir' = Without(dir, Partial(d)) PROVE \A e \in Days : SameFile(Plain(e)) /\ SameFile(Archive(e))
  BY <1>4, WithoutIs, Names
<1>5. ASSUME NEW content, dir' = With(dir, Partial(at), content) PROVE \A e \in Days : SameFile(Plain(e)) /\ SameFile(Archive(e))
  BY <1>5, WithIs, Names
<1> QED
  BY <1>1, <1>2, <1>3, <1>4, <1>5

\* The archive takes its place.
LEMMA ReplaceIs ==
    ASSUME Replace
    PROVE  /\ pc = "replace" /\ pc' = "unlink"
           /\ Archive(at) \in DOMAIN dir' /\ dir'[Archive(at)] = dir[Partial(at)]
           /\ \A e \in Days : SameFile(Plain(e)) /\ (e # at => SameFile(Archive(e)))
           /\ UNCHANGED <<dates, unflushed, job, handle, written, acked, raced, tears, at>>
<1> DEFINE g == With(dir, Archive(at), dir[Partial(at)])
<1>1. /\ pc = "replace" /\ pc' = "unlink" /\ dir' = Without(g, Partial(at))
      /\ UNCHANGED <<dates, unflushed, job, handle, written, acked, raced, tears, at>>
  BY Zenon DEF Replace, clock, bot, ghost
<1>2. /\ DOMAIN g = DOMAIN dir \cup {Archive(at)} /\ g[Archive(at)] = dir[Partial(at)]
      /\ \A x \in DOMAIN dir : x # Archive(at) => g[x] = dir[x]
  BY DEF With
<1> HIDE DEF g
<1>3. /\ DOMAIN dir' = DOMAIN g \ {Partial(at)}
      /\ \A x \in DOMAIN g : x # Partial(at) => dir'[x] = g[x]
  BY <1>1 DEF Without
<1>4. \A x : x # Archive(at) /\ x # Partial(at) => SameFile(x)
  BY <1>2, <1>3 DEF SameFile
<1>5. Archive(at) # Partial(at)
  BY Names
<1>6. \A e \in Days : SameFile(Plain(e)) /\ (e # at => SameFile(Archive(e)))
  BY <1>4, Names
<1> QED
  BY <1>1, <1>2, <1>3, <1>5, <1>6

LEMMA UnlinkIs ==
    ASSUME Unlink
    PROVE  /\ pc = "unlink" /\ pc' = "idle"
           /\ Plain(at) \notin DOMAIN dir'
           /\ \A e \in Days : SameFile(Archive(e)) /\ (e # at => SameFile(Plain(e)))
           /\ handle' = IF handle.day = at THEN [handle EXCEPT !.linked = FALSE] ELSE handle
           /\ UNCHANGED <<dates, unflushed, job, written, acked, raced, tears, at>>
<1>1. /\ pc = "unlink" /\ pc' = "idle" /\ dir' = Without(dir, Plain(at))
      /\ handle' = IF handle.day = at THEN [handle EXCEPT !.linked = FALSE] ELSE handle
      /\ UNCHANGED <<dates, unflushed, job, written, acked, raced, tears, at>>
  BY Zenon DEF Unlink, clock, ghost
<1>2. \A e \in Days : SameFile(Archive(e)) /\ (e # at => SameFile(Plain(e)))
  BY <1>1, WithoutIs, Names
<1> QED
  BY <1>1, <1>2, WithoutIs

\* A file that is opened is there, empty when it was not.
LEMMA OpenIs ==
    ASSUME OpenFile
    PROVE  /\ handle = Closed /\ handle' = [day |-> GroupDay, linked |-> TRUE]
           /\ Plain(GroupDay) \in DOMAIN dir'
           /\ \A x : x # Plain(GroupDay) => SameFile(x)
           /\ \A e \in Days : Content(Plain(e))' = Content(Plain(e))
           /\ \A e \in Days : SameFile(Archive(e)) /\ SameFile(Partial(e))
           /\ UNCHANGED <<dates, unflushed, job, written, acked, raced, tears, pc, at>>
<1>1. /\ handle = Closed /\ handle' = [day |-> GroupDay, linked |-> TRUE]
      /\ dir' = IF Has(Plain(GroupDay)) THEN dir ELSE With(dir, Plain(GroupDay), <<>>)
      /\ UNCHANGED <<dates, unflushed, job, written, acked, raced, tears, pc, at>>
  BY Zenon DEF OpenFile, clock, ghost, cron
<1>2. CASE Plain(GroupDay) \in DOMAIN dir
  BY <1>1, <1>2 DEF Has, SameFile, Content
<1>3. CASE Plain(GroupDay) \notin DOMAIN dir
  <2>1. dir' = With(dir, Plain(GroupDay), <<>>)
    BY <1>1, <1>3 DEF Has
  <2>2. /\ Plain(GroupDay) \in DOMAIN dir' /\ dir'[Plain(GroupDay)] = <<>>
        /\ \A x : x # Plain(GroupDay) => SameFile(x)
    BY <2>1, WithIs
  <2>3. ASSUME NEW e \in Days PROVE Content(Plain(e))' = Content(Plain(e))
    <3>1. CASE Plain(e) = Plain(GroupDay)
      <4>1. Content(Plain(e)) = <<>>
        BY <1>3, <3>1 DEF Content, Has
      <4>2. Content(Plain(e))' = <<>>
        BY <2>2, <3>1 DEF Content, Has, Plain
      <4> QED
        BY <4>1, <4>2
    <3>2. CASE Plain(e) # Plain(GroupDay)
      BY <2>2, <3>2, SameIs
    <3> QED
      BY <3>1, <3>2
  <2>4. \A e \in Days : SameFile(Archive(e)) /\ SameFile(Partial(e))
    BY <2>2, Names
  <2> QED
    BY <1>1, <2>2, <2>3, <2>4
<1> QED
  BY <1>2, <1>3

LEMMA HandlingStep ==
    ASSUME RecordingTypeOK, Handling, Compacting, [RecordingNext]_recording
    PROVE  Handling'
<1>1. CASE handle' = Closed
  BY <1>1 DEF Handling
<1>2. ASSUME UNCHANGED handle, \A e \in Days : SameFile(Plain(e)) /\ SameFile(Archive(e)) PROVE Handling'
  <2>1. CASE handle # Closed
    <3>1. handle.day \in Days
      BY <2>1 DEF RecordingTypeOK
    <3> DEFINE d == handle.day
    <3>2. d' = d
      BY <1>2
    <3> HIDE DEF d
    <3>3. d \in Days
      BY <3>1 DEF d
    <3>4. SameFile(Plain(d)) /\ SameFile(Archive(d))
      BY <1>2, <3>3
    <3>5. (Plain(d) \in DOMAIN dir' <=> Plain(d) \in DOMAIN dir) /\ (Archive(d) \in DOMAIN dir' <=> Archive(d) \in DOMAIN dir)
      BY <3>4 DEF SameFile
    <3>6. (Has(Plain(d))' <=> Has(Plain(d))) /\ (Has(Archive(d))' <=> Has(Archive(d)))
      BY <3>2, <3>5 DEF Has, Plain, Archive
    <3> QED
      BY <1>2, <2>1, <3>6 DEF Handling, d
  <2> QED
    BY <1>2, <2>1 DEF Handling, Closed
<1>3. ASSUME OpenFile PROVE Handling'
  BY <1>3, OpenIs DEF Handling, Has, Plain
<1>4. ASSUME Unlink, handle' # Closed PROVE Handling'
  <2>1. /\ pc = "unlink" /\ Plain(at) \notin DOMAIN dir'
        /\ \A e \in Days : SameFile(Archive(e)) /\ (e # at => SameFile(Plain(e)))
        /\ handle' = IF handle.day = at THEN [handle EXCEPT !.linked = FALSE] ELSE handle
        /\ UNCHANGED at
    BY <1>4, UnlinkIs
  <2>2. Archive(at) \in DOMAIN dir /\ at \in Days
    BY <2>1 DEF Compacting, Has, RecordingTypeOK
  <2>3. Archive(at) \in DOMAIN dir'
    BY <2>1, <2>2 DEF SameFile
  <2>4. CASE handle.day = at
    <3>1. handle # Closed
      BY <2>2, <2>4, RecordingAssumption DEF Closed, Days
    <3>2. handle \in [day : Days, linked : BOOLEAN]
      BY <3>1 DEF RecordingTypeOK
    <3>3. handle'.linked = FALSE /\ handle'.day = at
      BY <2>1, <2>4, <3>2
    <3> QED
      BY <2>1, <2>3, <3>3 DEF Handling, Has, Plain, Archive
  <2>5. CASE handle.day # at
    <3>1. handle' = handle /\ handle # Closed
      BY <1>4, <2>1, <2>5
    <3>2. handle.day \in Days
      BY <3>1 DEF RecordingTypeOK
    <3>3. SameFile(Plain(handle.day)) /\ SameFile(Archive(handle.day))
      BY <2>1, <2>5, <3>2
    <3> QED
      BY <3>1, <3>3 DEF Handling, Has, SameFile, Plain, Archive
  <2> QED
    BY <2>4, <2>5
<1>5. ASSUME Replace PROVE Handling'
  <2>1. /\ pc = "replace" /\ Archive(at) \in DOMAIN dir'
        /\ \A e \in Days : SameFile(Plain(e)) /\ (e # at => SameFile(Archive(e)))
        /\ UNCHANGED <<handle, at>>
    BY <1>5, ReplaceIs
  <2>2. ~Has(Archive(at))
    BY <2>1 DEF Compacting
  <2>3. CASE handle # Closed
    <3>1. handle.day \in Days
      BY <2>3 DEF RecordingTypeOK
    <3>2. CASE handle.linked
      BY <2>1, <2>3, <3>1, <3>2 DEF Handling, Has, SameFile, Plain
    <3>3. CASE ~handle.linked
      <4>1. Has(Archive(handle.day)) /\ ~Has(Plain(handle.day))
        BY <2>3, <3>3 DEF Handling
      <4>2. handle.day # at
        BY <2>2, <4>1
      <4> QED
        BY <2>1, <3>1, <3>3, <4>1, <4>2 DEF Handling, Has, SameFile, Plain, Archive
    <3> QED
      BY <3>2, <3>3
  <2> QED
    BY <2>1, <2>3 DEF Handling, Closed
<1>6. ASSUME NEW d \in Days, Record(d) PROVE Handling'
  BY <1>2, <1>6, RecordIs DEF SameFile
<1>7. ASSUME UNCHANGED <<handle, dir>> PROVE Handling'
  BY <1>2, <1>7 DEF SameFile
<1>8. ASSUME Flush \/ NextDay \/ UNCHANGED recording PROVE UNCHANGED <<handle, dir>>
  BY <1>8, Zenon DEF Flush, NextDay, recording, clock, bot, ghost, cron
<1>9. ASSUME WriteOut \/ Crash PROVE handle' = Closed
  BY <1>9, Zenon DEF WriteOut, Crash
<1>10. ASSUME Copy \/ Verify \/ Keep \/ Interrupted \/ \E d \in Days : Begin(d) PROVE Handling'
  <2>1. UNCHANGED handle /\ \A e \in Days : SameFile(Plain(e)) /\ SameFile(Archive(e))
    BY <1>10, AsideIs
  <2> QED
    BY <1>2, <2>1
<1> QED
  BY <1>1, <1>3, <1>4, <1>5, <1>6, <1>7, <1>8, <1>9, <1>10 DEF RecordingNext, Compaction

-----------------------------------------------------------------------------
(* The archive and the plain file cover the day. *)

\* Files whose day has not changed go on covering it.
LEMMA StillCovers ==
    ASSUME NEW d \in Days, Covering, SameFile(Archive(d)), Content(Plain(d))' = Content(Plain(d)),
           written'[d] = written[d], \A i \in DOMAIN written[d] : written[d][i] \in OwedLines' => written[d][i] \in OwedLines,
           written[d] \in Seq(Tokens), Content(Plain(d)) \in Seq(Tokens), Content(Archive(d)) \in Seq(Tokens)
    PROVE  CoversBy(written'[d], Content(Plain(d))', Content(Archive(d))', Has(Archive(d))', OwedLines')
<1> DEFINE w == written[d]
           p == Content(Plain(d))
           a == Content(Archive(d))
<1>1. (Has(Archive(d))' <=> Has(Archive(d))) /\ Content(Archive(d))' = a
  BY SameIs
<1>2. CoversBy(w, p, a, Has(Archive(d)), OwedLines)
  BY DEF Covering
<1>3. /\ Len(w) \in Nat /\ DOMAIN w = 1..Len(w) /\ Len(p) \in Nat /\ Len(a) \in Nat
  BY LenProperties
<1>4. written'[d] = w /\ Content(Plain(d))' = p /\ \A i \in 1..Len(w) : w[i] \in OwedLines' => w[i] \in OwedLines
  BY <1>3
<1> DEFINE o == OwedLines
           oo == OwedLines'
           h == Has(Archive(d))
           hh == Has(Archive(d))'
<1>5. h \in BOOLEAN /\ hh \in BOOLEAN /\ (hh <=> h)
  BY <1>1 DEF Has
<1> HIDE DEF w, p, a, o, oo, h, hh
<1>6. CoversBy(w, p, a, h, o) /\ \A i \in 1..Len(w) : w[i] \in oo => w[i] \in o
  BY <1>2, <1>4 DEF o, oo, h
<1>7. h => Excused(w, Len(a), Len(w) - Len(p), oo)
  BY <1>3, <1>6 DEF CoversBy, Excused
<1>8. CoversBy(w, p, a, h, oo)
  BY <1>5, <1>6, <1>7 DEF CoversBy
<1>9. CoversBy(w, p, a, hh, oo)
  BY <1>5, <1>8 DEF CoversBy
<1> QED
  BY <1>1, <1>4, <1>9, Zenon DEF oo, hh

\* What an append adds to the file that is there, it adds to the day.
LEMMA LinkedCovers ==
    ASSUME NEW w \in Seq(Tokens), NEW p \in Seq(Tokens), NEW a \in Seq(Tokens), NEW t \in Seq(Tokens),
           NEW archived \in BOOLEAN, NEW owed, NEW owed2,
           CoversBy(w, p, a, archived, owed),
           \A i \in DOMAIN w : w[i] \in owed2 => w[i] \in owed
    PROVE  CoversBy(w \o t, p \o t, a, archived, owed2)
<1> DEFINE x == w \o t
           q == p \o t
<1>1. /\ Len(w) \in Nat /\ Len(t) \in Nat /\ DOMAIN w = 1..Len(w) /\ Len(x) = Len(w) + Len(t)
      /\ \A i \in 1..Len(w) : x[i] = w[i]
      /\ \A i \in 1..Len(t) : x[Len(w) + i] = t[i]
  BY JoinedTokens
<1>2. /\ Len(p) \in Nat /\ Len(q) = Len(p) + Len(t)
      /\ \A i \in 1..Len(p) : q[i] = p[i]
      /\ \A i \in 1..(Len(p) + Len(t)) :
            i \in 1..Len(p) \/ (i - Len(p) \in 1..Len(t) /\ q[i] = t[i - Len(p)])
  BY JoinedTokens
<1>3. Len(a) \in Nat
  BY LenProperties
<1> HIDE DEF x, q
<1>4. EndsOf(p, w) /\ BeginsOf(a, w)
      /\ (archived => Excused(w, Len(a), Len(w) - Len(p), owed)) /\ (~archived => Len(p) = Len(w))
  BY DEF CoversBy
<1>5. BeginsOf(a, x)
  BY <1>1, <1>3, <1>4 DEF BeginsOf
<1>6. EndsOf(q, x)
  <2>1. Len(p) <= Len(w) /\ \A i \in 1..Len(p) : p[i] = w[Len(w) - Len(p) + i]
    BY <1>4 DEF EndsOf
  <2>2. Len(x) - Len(q) = Len(w) - Len(p) /\ Len(q) <= Len(x)
    BY <1>1, <1>2, <2>1
  <2>3. ASSUME NEW i \in 1..Len(q) PROVE q[i] = x[Len(w) - Len(p) + i]
    <3>1. CASE i \in 1..Len(p)
      <4>1. Len(w) - Len(p) + i \in 1..Len(w)
        BY <1>1, <1>2, <2>1, <3>1
      <4> QED
        BY <1>1, <1>2, <2>1, <3>1, <4>1
    <3>2. CASE i - Len(p) \in 1..Len(t) /\ q[i] = t[i - Len(p)]
      <4>1. x[Len(w) + (i - Len(p))] = t[i - Len(p)]
        BY <1>1, <3>2
      <4>2. Len(w) + (i - Len(p)) = Len(w) - Len(p) + i
        BY <1>1, <1>2
      <4> QED
        BY <3>2, <4>1, <4>2
    <3> QED
      BY <1>2, <3>1, <3>2
  <2> QED
    BY <2>2, <2>3 DEF EndsOf
<1>7. archived => Excused(x, Len(a), Len(x) - Len(q), owed2)
  <2>1. Len(x) - Len(q) = Len(w) - Len(p)
    BY <1>1, <1>2
  <2>2. ASSUME archived, NEW i \in (Len(a) + 1)..(Len(w) - Len(p)) PROVE x[i] \notin owed2
    <3>1. i \in 1..Len(w) /\ w[i] \notin owed
      BY <1>1, <1>2, <1>3, <1>4, <2>2 DEF Excused
    <3> QED
      BY <1>1, <3>1
  <2> QED
    BY <2>1, <2>2 DEF Excused
<1>8. ~archived => Len(q) = Len(x)
  BY <1>1, <1>2, <1>4
<1>9. CoversBy(x, q, a, archived, owed2)
  BY <1>5, <1>6, <1>7, <1>8 DEF CoversBy
<1> QED
  BY <1>9 DEF x, q

\* Nothing is owed of what the two do not have.
LEMMA StillExcused ==
    ASSUME NEW w \in Seq(Tokens), NEW t \in Seq(Tokens), NEW m \in Nat, NEW owed, NEW owed2,
           Excused(w, m, Len(w), owed),
           \A i \in DOMAIN w : w[i] \in owed2 => w[i] \in owed,
           \A i \in DOMAIN t : t[i] \notin owed2
    PROVE  Excused(w \o t, m, Len(w \o t), owed2)
<1> DEFINE x == w \o t
<1>1. /\ Len(w) \in Nat /\ Len(t) \in Nat /\ DOMAIN w = 1..Len(w) /\ DOMAIN t = 1..Len(t) /\ Len(x) = Len(w) + Len(t)
      /\ \A i \in 1..Len(w) : x[i] = w[i]
      /\ \A i \in 1..(Len(w) + Len(t)) :
            i \in 1..Len(w) \/ (i - Len(w) \in 1..Len(t) /\ x[i] = t[i - Len(w)])
  BY JoinedTokens
<1> HIDE DEF x
<1>2. ASSUME NEW i \in (m + 1)..Len(x) PROVE x[i] \notin owed2
  <2>1. i \in 1..(Len(w) + Len(t))
    BY <1>1
  <2>2. CASE i \in 1..Len(w)
    <3>1. i \in (m + 1)..Len(w)
      BY <1>1, <2>2
    <3> QED
      BY <1>1, <2>2, <3>1 DEF Excused
  <2>3. CASE i - Len(w) \in 1..Len(t) /\ x[i] = t[i - Len(w)]
    BY <1>1, <2>3
  <2> QED
    BY <1>1, <2>1, <2>2, <2>3
<1> QED
  BY <1>2 DEF Excused, x

\* What a write takes from what is owed, and where the compaction has read on it adds nothing.
LEMMA NothingIsOwed ==
    ASSUME RecordingTypeOK, Ordered, Ended, Handling, handle # Closed, WriteOut \/ Crash
    PROVE  \/ UNCHANGED <<dir, written, acked, raced, pc, at>>
           \/ \E t \in Seq(Tokens) :
                 /\ Appended(t) /\ handle.day \in Days /\ UNCHANGED <<pc, at>>
                 /\ \A d \in Days : \A i \in DOMAIN written[d] : written[d][i] \in OwedLines' => written[d][i] \in OwedLines
                 /\ Finishing(handle.day) \/ ~handle.linked => \A i \in DOMAIN t : t[i] \notin OwedLines'
<1>1. CASE WriteOut
  <2> DEFINE t == Text(FirstGroup)
  <2>1. /\ acked' = acked \cup ToSet(FirstGroup)
        /\ raced' = IF Finishing(handle.day) \/ ~handle.linked THEN raced \cup ToSet(FirstGroup) ELSE raced
        /\ UNCHANGED <<pc, at>>
    BY <1>1, Zenon DEF WriteOut, cron
  <2>2. Written(t, FirstGroup) /\ Appended(t)
    BY <1>1, WriteOutTypes
  <2> HIDE DEF t
  <2>3. /\ t \in Seq(Tokens) /\ handle.day \in Days /\ job # <<>>
        /\ \A d \in Days : \A i \in DOMAIN written[d] : written[d][i] \notin ToSet(FirstGroup)
        /\ \A i \in DOMAIN t : t[i] \notin acked
    BY <2>2, GroupFollows
  <2>4. \A i \in DOMAIN t : t[i] > 0 => t[i] \in ToSet(FirstGroup)
    BY <2>2 DEF Written
  <2>5. ToSet(FirstGroup) \subseteq 1..Len(dates)
    BY <2>3, GroupsAre, ElementsOf DEF Ordered
  <2>6. \A d \in Days : \A i \in DOMAIN written[d] : written[d][i] \in OwedLines' => written[d][i] \in OwedLines
    BY <2>1, <2>3 DEF OwedLines
  <2>7. ASSUME Finishing(handle.day) \/ ~handle.linked, NEW i \in DOMAIN t, t[i] \in OwedLines' PROVE FALSE
    <3>1. t[i] \in acked' /\ t[i] \notin ToSet(FirstGroup)
      BY <2>1, <2>7 DEF OwedLines
    <3>2. t[i] \in acked
      BY <2>1, <3>1
    <3> QED
      BY <2>3, <3>2
  <2> QED
    BY <2>1, <2>2, <2>3, <2>6, <2>7
<1>2. CASE Crash
  <2>1. UNCHANGED <<acked, raced, pc, at>>
    BY <1>2, Zenon DEF Crash, cron
  <2>2. OwedLines' = OwedLines /\ OwedLines \subseteq acked
    BY <2>1 DEF OwedLines
  <2>3. CASE UNCHANGED <<dir, written, tears>>
    BY <2>1, <2>3
  <2>4. CASE \E tokens \in CutShort(Text(FirstGroup)) : Written(tokens, FirstGroup) /\ Appended(tokens)
    <3>1. PICK t : Written(t, FirstGroup) /\ Appended(t)
      BY <2>4
    <3>2. t \in Seq(Tokens) /\ handle.day \in Days /\ \A i \in DOMAIN t : t[i] \notin acked
      BY <3>1, GroupFollows
    <3> QED
      BY <2>1, <2>2, <3>1, <3>2
  <2> QED
    BY <1>2, <2>3, <2>4, CrashTypes
<1> QED
  BY <1>1, <1>2

LEMMA ContentTypes ==
    ASSUME RecordingTypeOK, NEW x
    PROVE  Content(x) \in Seq(Tokens) /\ (x \in DOMAIN dir => dir[x] \in Seq(Tokens))
BY EmptySeq DEF RecordingTypeOK, Content, Has

LEMMA AppendCovers ==
    ASSUME RecordingTypeOK, Handling, Covering, Compacting, handle # Closed,
           NEW t \in Seq(Tokens), Appended(t), handle.day \in Days, UNCHANGED <<pc, at>>,
           \A d \in Days : \A i \in DOMAIN written[d] : written[d][i] \in OwedLines' => written[d][i] \in OwedLines,
           Finishing(handle.day) \/ ~handle.linked => \A i \in DOMAIN t : t[i] \notin OwedLines'
    PROVE  Covering' /\ Compacting'
<1> DEFINE d0 == handle.day
<1>1. /\ written'[d0] = written[d0] \o t /\ \A e \in Days : e # d0 => written'[e] = written[e]
      /\ DOMAIN dir' = DOMAIN dir
      /\ handle.linked => dir'[Plain(d0)] = dir[Plain(d0)] \o t
      /\ \A x \in DOMAIN dir : ~(handle.linked /\ x = Plain(d0)) => dir'[x] = dir[x]
  BY AppendedIs
<1>2. \A e \in Days : SameFile(Archive(e)) /\ SameFile(Partial(e)) /\ (e # d0 => SameFile(Plain(e)))
  BY <1>1, Names DEF SameFile
<1>3. \A e \in Days : written[e] \in Seq(Tokens)
  BY DEF RecordingTypeOK
<1>4. IF handle.linked THEN Has(Plain(d0)) ELSE Has(Archive(d0)) /\ ~Has(Plain(d0))
  BY DEF Handling
<1>5. d0 \in Days
  OBVIOUS
<1> HIDE DEF d0
<1>6. Covering'
  <2>1. ASSUME NEW d \in Days
        PROVE  CoversBy(written'[d], Content(Plain(d))', Content(Archive(d))', Has(Archive(d))', OwedLines')
    <3>1. /\ written[d] \in Seq(Tokens) /\ Content(Plain(d)) \in Seq(Tokens) /\ Content(Archive(d)) \in Seq(Tokens)
          /\ SameFile(Archive(d))
      BY <1>2, <1>3, ContentTypes
    <3>2. CASE d # d0
      <4>1. Content(Plain(d))' = Content(Plain(d)) /\ written'[d] = written[d]
        BY <1>1, <1>2, <3>2, SameIs
      <4> QED
        BY <3>1, <4>1, StillCovers
    <3>3. CASE d = d0
      <4> DEFINE w == written[d]
                 p == Content(Plain(d))
                 a == Content(Archive(d))
                 o == OwedLines
                 oo == OwedLines'
                 h == Has(Archive(d))
                 hh == Has(Archive(d))'
                 pp == Content(Plain(d))'
      <4>1. written'[d] = w \o t /\ Content(Archive(d))' = a /\ (hh <=> h) /\ h \in BOOLEAN /\ hh \in BOOLEAN
        BY <1>1, <3>1, <3>3, SameIs DEF Has
      <4>2. CoversBy(w, p, a, h, o)
        BY DEF Covering
      <4>3. \A i \in DOMAIN w : w[i] \in oo => w[i] \in o
        OBVIOUS
      <4>4. CASE handle.linked
        <5>1. pp = p \o t
          <6>1. Plain(d) \in DOMAIN dir /\ Plain(d) \in DOMAIN dir' /\ dir'[Plain(d)] = dir[Plain(d)] \o t
            BY <1>1, <1>4, <3>3, <4>4 DEF Has
          <6> QED
            BY <6>1 DEF Content, Has
        <5> HIDE DEF w, p, a, o, oo, h, hh, pp
        <5>2. CoversBy(w \o t, p \o t, a, h, oo)
          BY <3>1, <4>1, <4>2, <4>3, LinkedCovers DEF w, p, a
        <5>3. CoversBy(w \o t, pp, a, hh, oo)
          BY <4>1, <5>1, <5>2 DEF CoversBy
        <5> QED
          BY <4>1, <5>3, Zenon DEF oo, hh, pp
      <4>5. CASE ~handle.linked
        <5>1. h /\ p = <<>> /\ pp = <<>>
          <6>1. Has(Archive(d)) /\ Plain(d) \notin DOMAIN dir /\ Plain(d) \notin DOMAIN dir'
            BY <1>1, <1>4, <3>3, <4>5 DEF Has
          <6> QED
            BY <6>1 DEF Content, Has
        <5>2. \A i \in DOMAIN t : t[i] \notin oo
          BY <4>5
        <5>3. w \in Seq(Tokens) /\ a \in Seq(Tokens)
          BY <3>1
        <5> HIDE DEF w, p, a, o, oo, h, hh, pp
        <5>4. /\ Len(w) \in Nat /\ Len(a) \in Nat /\ Len(<<>>) = 0
              /\ Len(w \o t) \in Nat /\ Len(w) <= Len(w \o t) /\ \A i \in 1..Len(w) : (w \o t)[i] = w[i]
          <6>1. Len(w) \in Nat /\ Len(a) \in Nat /\ Len(t) \in Nat /\ Len(<<>>) = 0
            BY <5>3, LenProperties, EmptySeq
          <6>2. Len(w \o t) = Len(w) + Len(t) /\ \A i \in 1..Len(w) : (w \o t)[i] = w[i]
            BY <5>3, JoinedTokens
          <6> QED
            BY <6>1, <6>2
        <5>5. BeginsOf(a, w) /\ Excused(w, Len(a), Len(w), o)
          BY <4>2, <5>1, <5>4 DEF CoversBy
        <5>6. Excused(w \o t, Len(a), Len(w \o t), oo)
          BY <4>3, <5>2, <5>3, <5>4, <5>5, StillExcused
        <5>7. EndsOf(<<>>, w \o t) /\ BeginsOf(a, w \o t)
          BY <5>4, <5>5 DEF EndsOf, BeginsOf
        <5>8. CoversBy(w \o t, pp, a, hh, oo)
          BY <4>1, <5>1, <5>4, <5>6, <5>7 DEF CoversBy
        <5> QED
          BY <4>1, <5>8, Zenon DEF oo, hh, pp
      <4> QED
        BY <4>4, <4>5
    <3> QED
      BY <3>2, <3>3
  <2> QED
    BY <2>1 DEF Covering
<1>7. Compacting'
  <2>1. at \in Days /\ at' = at /\ pc' = pc
    BY DEF RecordingTypeOK
  <2>2. SameFile(Archive(at)) /\ SameFile(Partial(at))
    BY <1>2, <2>1
  <2>3. pc \in {"copy", "verify", "replace"} => Archive(at) \notin DOMAIN dir'
    BY <2>2 DEF Compacting, SameFile, Has
  <2>4. ASSUME pc \in {"verify", "replace", "unlink"}, NEW f \in Seq(Tokens), BeginsOf(f, written[at]),
               Excused(written[at], Len(f), Len(written[at]), OwedLines)
        PROVE  BeginsOf(f, written'[at]) /\ Excused(written'[at], Len(f), Len(written'[at]), OwedLines')
    <3> DEFINE w == written[at]
               o == OwedLines
               oo == OwedLines'
    <3>1. w \in Seq(Tokens) /\ \A i \in DOMAIN w : w[i] \in oo => w[i] \in o
      BY <1>3, <2>1
    <3>2. Len(w) \in Nat /\ Len(f) \in Nat /\ DOMAIN w = 1..Len(w)
      BY <3>1, LenProperties
    <3>3. CASE at # d0
      <4>1. written'[at] = w
        BY <1>1, <2>1, <3>3
      <4> HIDE DEF w, o, oo
      <4>2. Excused(w, Len(f), Len(w), o)
        BY <2>4 DEF w, o
      <4>3. Excused(w, Len(f), Len(w), oo)
        BY <3>1, <3>2, <4>2 DEF Excused
      <4> QED
        BY <2>4, <4>1, <4>3 DEF w, oo
    <3>4. CASE at = d0
      <4>1. written'[at] = w \o t
        BY <1>1, <3>4
      <4>2. pc \in {"verify", "replace", "unlink"} => Finishing(d0)
        BY <3>4 DEF Finishing
      <4>3. \A i \in DOMAIN t : t[i] \notin oo
        BY <2>4, <4>2 DEF d0
      <4> HIDE DEF w, o, oo
      <4>4. BeginsOf(f, w) /\ Excused(w, Len(f), Len(w), o)
        BY <2>4 DEF w, o
      <4>5. Excused(w \o t, Len(f), Len(w \o t), oo)
        BY <3>1, <3>2, <4>3, <4>4, StillExcused
      <4>6. Len(w \o t) = Len(w) + Len(t) /\ Len(t) \in Nat /\ \A i \in 1..Len(w) : (w \o t)[i] = w[i]
        BY <3>1, JoinedTokens
      <4>7. BeginsOf(f, w \o t)
        BY <3>2, <4>4, <4>6 DEF BeginsOf
      <4> QED
        BY <4>1, <4>5, <4>7 DEF oo
    <3> QED
      BY <3>3, <3>4
  <2>5. ASSUME pc \in {"verify", "replace"}
        PROVE  /\ Partial(at) \in DOMAIN dir' /\ BeginsOf(dir'[Partial(at)], written'[at])
               /\ Excused(written'[at], Len(dir'[Partial(at)]), Len(written'[at]), OwedLines')
    <3>1. /\ Partial(at) \in DOMAIN dir /\ BeginsOf(dir[Partial(at)], written[at])
          /\ Excused(written[at], Len(dir[Partial(at)]), Len(written[at]), OwedLines)
      BY <2>5 DEF Compacting, Has
    <3>2. Partial(at) \in DOMAIN dir' /\ dir'[Partial(at)] = dir[Partial(at)] /\ dir[Partial(at)] \in Seq(Tokens)
      BY <2>2, <3>1, ContentTypes DEF SameFile
    <3> QED
      BY <2>4, <2>5, <3>1, <3>2
  <2>6. ASSUME pc = "unlink"
        PROVE  /\ Archive(at) \in DOMAIN dir'
               /\ Excused(written'[at], Len(dir'[Archive(at)]), Len(written'[at]), OwedLines')
    <3>1. /\ Archive(at) \in DOMAIN dir
          /\ Excused(written[at], Len(dir[Archive(at)]), Len(written[at]), OwedLines)
      BY <2>6 DEF Compacting, Has
    <3>2. Archive(at) \in DOMAIN dir' /\ dir'[Archive(at)] = dir[Archive(at)] /\ dir[Archive(at)] \in Seq(Tokens)
      BY <2>2, <3>1, ContentTypes DEF SameFile
    <3>3. BeginsOf(dir[Archive(at)], written[at])
      BY <2>1, <3>1 DEF Covering, CoversBy, Content, Has
    <3> QED
      BY <2>4, <2>6, <3>1, <3>2, <3>3
  <2> QED
    BY <2>1, <2>3, <2>5, <2>6 DEF Compacting, Has, Partial, Archive
<1> QED
  BY <1>6, <1>7

\* Files that stay keep the cover.
LEMMA SameCovers ==
    ASSUME RecordingTypeOK, Covering, UNCHANGED <<written, acked, raced>>,
           \A d \in Days : SameFile(Archive(d)) /\ Content(Plain(d))' = Content(Plain(d))
    PROVE  Covering' /\ OwedLines' = OwedLines
<1>1. OwedLines' = OwedLines
  BY DEF OwedLines
<1>2. ASSUME NEW d \in Days
      PROVE  CoversBy(written'[d], Content(Plain(d))', Content(Archive(d))', Has(Archive(d))', OwedLines')
  <2>1. written[d] \in Seq(Tokens) /\ Content(Plain(d)) \in Seq(Tokens) /\ Content(Archive(d)) \in Seq(Tokens)
    BY ContentTypes DEF RecordingTypeOK
  <2> QED
    BY <1>1, <2>1, StillCovers
<1> QED
  BY <1>1, <1>2 DEF Covering

LEMMA BeginCovers ==
    ASSUME RecordingTypeOK, NEW d \in Days, Begin(d)
    PROVE  Compacting'
<1>1. ~Has(Archive(d)) /\ pc' = "copy" /\ at' = d
  BY Zenon DEF Begin
<1>2. SameFile(Archive(d))
  BY AsideIs
<1>3. Archive(d) \notin DOMAIN dir'
  BY <1>1, <1>2 DEF Has, SameFile
<1> QED
  BY <1>1, <1>3 DEF Compacting, Has, Archive

LEMMA CopyCovers ==
    ASSUME RecordingTypeOK, Covering, Compacting, Copy
    PROVE  Compacting'
<1> DEFINE w == written[at]
           p == dir[Plain(at)]
<1>1. /\ pc = "copy" /\ pc' = "verify" /\ dir' = With(dir, Partial(at), p)
      /\ UNCHANGED <<at, written, acked, raced>>
  BY Zenon DEF Copy, ghost
<1>2. at \in Days /\ Plain(at) \in DOMAIN dir
  BY <1>1 DEF RecordingTypeOK, Has
<1>3. ~Has(Archive(at))
  BY <1>1 DEF Compacting
<1>4. SameFile(Archive(at))
  BY <1>2, AsideIs
<1>5. Archive(at) \notin DOMAIN dir'
  BY <1>3, <1>4 DEF Has, SameFile
<1>6. Partial(at) \in DOMAIN dir' /\ dir'[Partial(at)] = p
  BY <1>1, WithIs
<1>7. w \in Seq(Tokens) /\ p \in Seq(Tokens) /\ p = Content(Plain(at))
  BY <1>2, ContentTypes DEF RecordingTypeOK, Content, Has
<1>8. EndsOf(p, w) /\ Len(p) = Len(w) /\ Len(w) \in Nat
  BY <1>2, <1>3, <1>7, LenProperties DEF Covering, CoversBy
<1>9. OwedLines' = OwedLines
  BY <1>1 DEF OwedLines
<1> HIDE DEF w, p
<1>10. BeginsOf(p, w) /\ \A o : Excused(w, Len(p), Len(w), o)
  <2>1. \A i \in 1..Len(p) : Len(w) - Len(p) + i = i
    BY <1>8
  <2>2. (Len(p) + 1)..Len(w) = {}
    BY <1>8
  <2> QED
    BY <1>8, <2>1, <2>2 DEF BeginsOf, EndsOf, Excused
<1> QED
  BY <1>1, <1>5, <1>6, <1>9, <1>10 DEF Compacting, Has, Archive, Partial, w

LEMMA VerifyCovers ==
    ASSUME RecordingTypeOK, Covering, Compacting, Verify
    PROVE  Compacting'
<1>1. /\ pc = "verify"
      /\ (pc' = "replace" /\ dir' = dir) \/ pc' = "idle"
      /\ UNCHANGED <<at, written, acked, raced>>
  BY Zenon DEF Verify, ghost
<1>2. OwedLines' = OwedLines
  BY <1>1 DEF OwedLines
<1>3. CASE pc' = "idle"
  BY <1>3 DEF Compacting
<1>4. CASE pc' = "replace" /\ dir' = dir
  BY <1>1, <1>2, <1>4 DEF Compacting, Has, Archive, Partial
<1> QED
  BY <1>1, <1>3, <1>4

LEMMA ReplaceCovers ==
    ASSUME RecordingTypeOK, Covering, Compacting, Replace
    PROVE  Covering' /\ Compacting'
<1>1. /\ pc = "replace" /\ pc' = "unlink"
      /\ Archive(at) \in DOMAIN dir' /\ dir'[Archive(at)] = dir[Partial(at)]
      /\ \A e \in Days : SameFile(Plain(e)) /\ (e # at => SameFile(Archive(e)))
      /\ UNCHANGED <<dates, unflushed, job, handle, written, acked, raced, tears, at>>
  BY ReplaceIs
<1>2. /\ Partial(at) \in DOMAIN dir /\ BeginsOf(dir[Partial(at)], written[at])
      /\ Excused(written[at], Len(dir[Partial(at)]), Len(written[at]), OwedLines)
  BY <1>1 DEF Compacting, Has
<1>3. OwedLines' = OwedLines
  BY <1>1 DEF OwedLines
<1>4. ASSUME NEW d \in Days
      PROVE  CoversBy(written'[d], Content(Plain(d))', Content(Archive(d))', Has(Archive(d))', OwedLines')
  <2>1. Content(Plain(d))' = Content(Plain(d)) /\ written'[d] = written[d]
    BY <1>1, SameIs
  <2>2. written[d] \in Seq(Tokens) /\ Content(Plain(d)) \in Seq(Tokens) /\ Content(Archive(d)) \in Seq(Tokens)
    BY ContentTypes DEF RecordingTypeOK
  <2>3. CASE d # at
    BY <1>1, <1>3, <2>1, <2>2, <2>3, StillCovers
  <2>4. CASE d = at
    <3> DEFINE w == written[d]
               p == Content(Plain(d))
               a == dir[Partial(at)]
               o == OwedLines
               aa == Content(Archive(d))'
               hh == Has(Archive(d))'
    <3>1. aa = a /\ hh
      BY <1>1, <2>4 DEF Content, Has, Archive
    <3>2. EndsOf(p, w)
      BY DEF Covering, CoversBy
    <3>3. a \in Seq(Tokens)
      BY <1>2, ContentTypes
    <3>4. BeginsOf(a, w) /\ Excused(w, Len(a), Len(w), o)
      BY <1>2, <2>4
    <3>5. Len(w) \in Nat /\ Len(p) \in Nat /\ Len(a) \in Nat
      BY <2>2, <3>3, LenProperties
    <3> HIDE DEF w, p, a, o, aa, hh
    <3>6. Excused(w, Len(a), Len(w) - Len(p), o)
      BY <3>4, <3>5 DEF Excused
    <3>7. CoversBy(w, p, aa, hh, o)
      BY <3>1, <3>2, <3>4, <3>6 DEF CoversBy
    <3> QED
      BY <1>3, <2>1, <3>7, Zenon DEF w, p, o, aa, hh
  <2> QED
    BY <2>3, <2>4
<1>5. Covering'
  BY <1>4 DEF Covering
<1>6. Compacting'
  BY <1>1, <1>2, <1>3 DEF Compacting, Has, Archive
<1> QED
  BY <1>5, <1>6

LEMMA UnlinkCovers ==
    ASSUME RecordingTypeOK, Covering, Compacting, Unlink
    PROVE  Covering' /\ Compacting'
<1>1. /\ pc = "unlink" /\ pc' = "idle"
      /\ Plain(at) \notin DOMAIN dir'
      /\ \A e \in Days : SameFile(Archive(e)) /\ (e # at => SameFile(Plain(e)))
      /\ UNCHANGED <<dates, unflushed, job, written, acked, raced, tears, at>>
  BY UnlinkIs
<1>2. /\ Archive(at) \in DOMAIN dir
      /\ Excused(written[at], Len(dir[Archive(at)]), Len(written[at]), OwedLines)
  BY <1>1 DEF Compacting, Has
<1>3. OwedLines' = OwedLines
  BY <1>1 DEF OwedLines
<1>4. ASSUME NEW d \in Days
      PROVE  CoversBy(written'[d], Content(Plain(d))', Content(Archive(d))', Has(Archive(d))', OwedLines')
  <2>1. written'[d] = written[d] /\ SameFile(Archive(d))
    BY <1>1
  <2>2. written[d] \in Seq(Tokens) /\ Content(Plain(d)) \in Seq(Tokens) /\ Content(Archive(d)) \in Seq(Tokens)
    BY ContentTypes DEF RecordingTypeOK
  <2>3. CASE d # at
    <3>1. Content(Plain(d))' = Content(Plain(d))
      BY <1>1, <2>3, SameIs
    <3> QED
      BY <1>3, <2>1, <2>2, <3>1, StillCovers
  <2>4. CASE d = at
    <3> DEFINE w == written[d]
               a == Content(Archive(d))
               o == OwedLines
               aa == Content(Archive(d))'
               hh == Has(Archive(d))'
               pp == Content(Plain(d))'
    <3>1. aa = a /\ hh /\ pp = <<>> /\ a = dir[Archive(at)]
      BY <1>1, <1>2, <2>1, <2>4 DEF Content, Has, Archive, Plain, SameFile
    <3>2. BeginsOf(a, w)
      BY DEF Covering, CoversBy
    <3>3. Excused(w, Len(a), Len(w), o)
      BY <1>2, <2>4, <3>1
    <3>4. Len(w) \in Nat /\ Len(<<>>) = 0
      BY <2>2, LenProperties
    <3> HIDE DEF w, a, o, aa, hh, pp
    <3>5. Len(w) - Len(<<>>) = Len(w) /\ EndsOf(<<>>, w)
      BY <3>4 DEF EndsOf
    <3>6. CoversBy(w, pp, aa, hh, o)
      BY <3>1, <3>2, <3>3, <3>5 DEF CoversBy
    <3> QED
      BY <1>3, <2>1, <3>6, Zenon DEF w, o, aa, hh, pp
  <2> QED
    BY <2>3, <2>4
<1> QED
  BY <1>1, <1>4 DEF Covering, Compacting

LEMMA CoveringStep ==
    ASSUME RecordingTypeOK, Ordered, Ended, Handling, Covering, Compacting, [RecordingNext]_recording
    PROVE  Covering' /\ Compacting'
<1>1. ASSUME UNCHANGED <<dir, written, acked, raced, pc, at>> PROVE Covering' /\ Compacting'
  BY <1>1 DEF Covering, Compacting, Content, Has, OwedLines, Plain, Archive, Partial
<1>2. ASSUME NEW d \in Days, Record(d) PROVE Covering' /\ Compacting'
  BY <1>1, <1>2, RecordIs
<1>3. ASSUME Flush \/ NextDay \/ UNCHANGED recording PROVE Covering' /\ Compacting'
  <2>1. UNCHANGED <<dir, written, acked, raced, pc, at>>
    BY <1>3, Zenon DEF Flush, NextDay, recording, clock, bot, ghost, cron
  <2> QED
    BY <1>1, <2>1
<1>4. ASSUME OpenFile PROVE Covering' /\ Compacting'
  <2>1. /\ \A e \in Days : Content(Plain(e))' = Content(Plain(e))
        /\ \A e \in Days : SameFile(Archive(e)) /\ SameFile(Partial(e))
        /\ UNCHANGED <<written, acked, raced, pc, at>>
    BY <1>4, OpenIs
  <2>2. Covering' /\ OwedLines' = OwedLines
    BY <2>1, SameCovers
  <2>3. at \in Days
    BY DEF RecordingTypeOK
  <2>4. SameFile(Archive(at)) /\ SameFile(Partial(at))
    BY <2>1, <2>3
  <2>5. Compacting'
    BY <2>1, <2>2, <2>4 DEF Compacting, Has, SameFile, Archive, Partial
  <2> QED
    BY <2>2, <2>5
<1>5. ASSUME WriteOut \/ Crash, handle # Closed PROVE Covering' /\ Compacting'
  BY <1>1, <1>5, NothingIsOwed, AppendCovers
<1>6. ASSUME WriteOut \/ Crash, handle = Closed PROVE Covering' /\ Compacting'
  <2>1. UNCHANGED <<dir, written, acked, raced, pc, at>>
    BY <1>6, Zenon DEF WriteOut, Crash, cron
  <2> QED
    BY <1>1, <2>1
<1>7. ASSUME Copy \/ Verify \/ Keep \/ Interrupted \/ \E d \in Days : Begin(d) PROVE Covering'
  <2>1. /\ \A e \in Days : SameFile(Plain(e)) /\ SameFile(Archive(e))
        /\ UNCHANGED <<written, acked, raced>>
    BY <1>7, AsideIs
  <2> QED
    BY <2>1, SameCovers, SameIs
<1>8. ASSUME Keep \/ Interrupted PROVE Compacting'
  <2>1. pc' = "idle"
    BY <1>8, Zenon DEF Keep, Interrupted
  <2> QED
    BY <2>1 DEF Compacting
<1> QED
  BY <1>2, <1>3, <1>4, <1>5, <1>6, <1>7, <1>8, BeginCovers, CopyCovers, VerifyCovers, ReplaceCovers, UnlinkCovers
     DEF RecordingNext, Compaction

-----------------------------------------------------------------------------
(* What the tears cost. *)

Lost   == {n \in acked : n \notin Readable(written[dates[n]])}
Ragged == {d \in Days : written[d] # <<>> /\ Last(written[d]) # NL}

\* Each tear has a row that is still open, or the line that joined it.
Tally == Cardinality(Lost) + Cardinality(Ragged) <= tears

\* An ended row stays readable whatever follows.
LEMMA StillReadable ==
    ASSUME NEW w \in Seq(Tokens), NEW t \in Seq(Tokens), NEW n \in Readable(w),
           \A i \in DOMAIN w : w[i] = n => i < Len(w) /\ w[i + 1] = NL
    PROVE  n \in Readable(w \o t)
<1> DEFINE x == w \o t
<1>1. /\ Len(w) \in Nat /\ Len(t) \in Nat /\ DOMAIN w = 1..Len(w) /\ DOMAIN x = 1..(Len(w) + Len(t))
      /\ \A i \in 1..Len(w) : x[i] = w[i]
  BY JoinedTokens
<1> HIDE DEF x
<1>2. PICK i \in DOMAIN w : Whole(w, i) /\ w[i] = n
  BY DEF Readable, Rows
<1>3. i < Len(w) /\ w[i + 1] = NL
  BY <1>2
<1>4. i \in DOMAIN x /\ x[i] = n /\ i + 1 \in 1..Len(w) /\ x[i + 1] = NL
  BY <1>1, <1>2, <1>3
<1>5. i = 1 \/ x[i - 1] = NL
  <2>1. i = 1 \/ (i - 1 \in 1..Len(w) /\ w[i - 1] = NL)
    BY <1>1, <1>2 DEF Whole
  <2> QED
    BY <1>1, <2>1
<1>6. Whole(x, i)
  BY <1>2, <1>4, <1>5 DEF Whole
<1>7. n \in Readable(x)
  BY <1>4, <1>6 DEF Readable, Rows
<1> QED
  BY <1>7 DEF x

\* A group's lines are readable, but for the first one when the row before it is open.
LEMMA GroupReadable ==
    ASSUME NEW w \in Seq(Tokens), NEW lines \in Seq(1..MaxLines), NEW k \in 1..Len(lines),
           k > 1 \/ w = <<>> \/ Last(w) = NL
    PROVE  lines[k] \in Readable(w \o Text(lines))
<1> DEFINE t == Text(lines)
           x == w \o t
           i == Len(w) + (2 * k - 1)
<1>1. /\ t \in Seq(Tokens) /\ Len(t) = 2 * Len(lines)
      /\ \A j \in 1..Len(lines) : t[2 * j - 1] = lines[j] /\ t[2 * j] = NL
  BY TextIs
<1>2. Len(lines) \in Nat /\ lines[k] \in 1..MaxLines
  BY LenProperties, ElementOfSeq
<1> HIDE DEF t
<1>3. /\ Len(w) \in Nat /\ Len(t) \in Nat /\ DOMAIN x = 1..(Len(w) + Len(t)) /\ Len(x) = Len(w) + Len(t)
      /\ \A j \in 1..Len(w) : x[j] = w[j]
      /\ \A j \in 1..Len(t) : x[Len(w) + j] = t[j]
  BY <1>1, JoinedTokens
<1> HIDE DEF x
<1>4. 2 * k - 1 \in 1..Len(t) /\ 2 * k \in 1..Len(t) /\ i \in DOMAIN x /\ i + 1 = Len(w) + 2 * k
  BY <1>1, <1>2, <1>3
<1>5. x[i] = lines[k] /\ x[i + 1] = NL
  BY <1>1, <1>3, <1>4
<1>6. i = 1 \/ x[i - 1] = NL
  <2>1. CASE k > 1
    <3>1. k - 1 \in 1..Len(lines) /\ 2 * (k - 1) \in 1..Len(t) /\ i - 1 = Len(w) + 2 * (k - 1)
      BY <1>1, <1>2, <1>3, <2>1
    <3>2. t[2 * (k - 1)] = NL
      BY <1>1, <3>1
    <3> QED
      BY <1>3, <3>1, <3>2
  <2>2. CASE k = 1 /\ w = <<>>
    <3>1. Len(w) = 0
      BY <2>2
    <3> QED
      BY <2>2, <3>1
  <2>3. CASE k = 1 /\ w # <<>> /\ Last(w) = NL
    <3>1. Len(w) \in 1..Len(w) /\ i - 1 = Len(w)
      BY <1>3, <2>3, EmptySeq
    <3>2. w[Len(w)] = NL
      BY <2>3 DEF Last
    <3> QED
      BY <1>3, <3>1, <3>2
  <2> QED
    BY <1>2, <2>1, <2>2, <2>3
<1>7. lines[k] \notin {NL, Torn}
  BY <1>2, RecordingAssumption DEF NL, Torn
<1> HIDE DEF i
<1>8. Whole(x, i)
  BY <1>5, <1>6, <1>7 DEF Whole
<1>9. lines[k] \in Readable(x)
  BY <1>4, <1>5, <1>8 DEF Readable, Rows
<1> QED
  BY <1>9 DEF x, t

\* The last token is the last of what was appended.
LEMMA LastOfJoined ==
    ASSUME NEW w \in Seq(Tokens), NEW t \in Seq(Tokens)
    PROVE  IF t = <<>> THEN w \o t = w ELSE w \o t # <<>> /\ Last(w \o t) = Last(t)
<1>1. /\ Len(w) \in Nat /\ Len(t) \in Nat /\ Len(w \o t) = Len(w) + Len(t)
      /\ \A i \in 1..Len(t) : (w \o t)[Len(w) + i] = t[i]
  BY JoinedTokens
<1>2. CASE t = <<>>
  BY <1>2, ConcatEmptySeq
<1>3. CASE t # <<>>
  <2>1. Len(t) \in 1..Len(t) /\ Len(w \o t) # 0
    BY <1>1, <1>3, EmptySeq
  <2>2. w \o t # <<>>
    BY <2>1
  <2> QED
    BY <1>1, <1>3, <2>1, <2>2 DEF Last
<1> QED
  BY <1>2, <1>3

LEMMA CountIs ==
    ASSUME NEW S, IsFiniteSet(S)
    PROVE  /\ Cardinality(S) \in Nat
           /\ \A n : IsFiniteSet(S \cup {n}) /\ Cardinality(S \cup {n}) \in Nat /\ Cardinality(S \cup {n}) <= Cardinality(S) + 1
           /\ \A n \in S : IsFiniteSet(S \ {n}) /\ Cardinality(S \ {n}) \in Nat /\ Cardinality(S \ {n}) = Cardinality(S) - 1
           /\ \A T : T \subseteq S => Cardinality(T) <= Cardinality(S)
<1>1. Cardinality(S) \in Nat
  BY FS_CardinalityType
<1>2. ASSUME NEW n
      PROVE  IsFiniteSet(S \cup {n}) /\ Cardinality(S \cup {n}) \in Nat /\ Cardinality(S \cup {n}) <= Cardinality(S) + 1
  <2>1. IsFiniteSet(S \cup {n}) /\ Cardinality(S \cup {n}) = IF n \in S THEN Cardinality(S) ELSE Cardinality(S) + 1
    BY FS_AddElement
  <2> QED
    BY <1>1, <2>1
<1>3. ASSUME NEW n \in S
      PROVE  IsFiniteSet(S \ {n}) /\ Cardinality(S \ {n}) \in Nat /\ Cardinality(S \ {n}) = Cardinality(S) - 1
  <2>1. IsFiniteSet(S \ {n}) /\ Cardinality(S \ {n}) = Cardinality(S) - 1
    BY FS_RemoveElement
  <2>2. Cardinality(S \ {n}) \in Nat
    BY <2>1, FS_CardinalityType
  <2> QED
    BY <2>1, <2>2
<1>4. \A T : T \subseteq S => Cardinality(T) <= Cardinality(S)
  BY FS_Subset
<1> QED
  BY <1>1, <1>2, <1>3, <1>4

LEMMA PartIsFinite ==
    ASSUME NEW n \in Nat, NEW S, S \subseteq 1..n
    PROVE  IsFiniteSet(S) /\ Cardinality(S) \in Nat
<1>1. IsFiniteSet(1..n)
  BY FS_Interval
<1>2. IsFiniteSet(S)
  BY <1>1, FS_Subset
<1> QED
  BY <1>2, FS_CardinalityType

\* The count goes on holding.
LEMMA TallyKept ==
    ASSUME RecordingTypeOK, RecordingTypeOK', Tally,
           \/ Lost' \subseteq Lost /\ Ragged' \subseteq Ragged /\ tears' \in {tears, tears + 1}
           \/ /\ \E n : Lost' \subseteq Lost \cup {n}
              /\ \E d \in Ragged : Ragged' \subseteq Ragged \ {d}
              /\ tears' = tears
           \/ Lost' \subseteq Lost /\ (\E d : Ragged' \subseteq Ragged \cup {d}) /\ tears' = tears + 1
    PROVE  Tally'
<1> DEFINE l == Lost
           r == Ragged
           ll == Lost'
           rr == Ragged'
<1>0. MaxDay \in Nat /\ MaxFaults \in Nat
  BY RecordingAssumption
<1>1. IsFiniteSet(l) /\ IsFiniteSet(r) /\ Cardinality(l) \in Nat /\ Cardinality(r) \in Nat /\ tears \in Nat
  <2>1. Len(dates) \in Nat /\ l \subseteq 1..Len(dates) /\ r \subseteq 1..MaxDay
    BY LenProperties DEF RecordingTypeOK, Lost, Ragged, Days
  <2>2. tears \in 0..faults /\ faults \in 0..MaxFaults
    BY DEF RecordingTypeOK
  <2> HIDE DEF l, r
  <2>3. IsFiniteSet(l) /\ Cardinality(l) \in Nat
    BY <2>1, PartIsFinite
  <2>4. IsFiniteSet(r) /\ Cardinality(r) \in Nat
    BY <1>0, <2>1, PartIsFinite
  <2>5. tears \in Nat
    BY <1>0, <2>2
  <2> QED
    BY <2>3, <2>4, <2>5
<1>2. Cardinality(ll) \in Nat /\ Cardinality(rr) \in Nat /\ tears' \in Nat
  <2>1. Len(dates') \in Nat /\ ll \subseteq 1..Len(dates') /\ rr \subseteq 1..MaxDay
    BY LenProperties DEF RecordingTypeOK, Lost, Ragged, Days
  <2>2. tears' \in 0..faults' /\ faults' \in 0..MaxFaults
    BY DEF RecordingTypeOK
  <2> HIDE DEF ll, rr
  <2>3. IsFiniteSet(ll) /\ Cardinality(ll) \in Nat
    BY <2>1, PartIsFinite
  <2>4. IsFiniteSet(rr) /\ Cardinality(rr) \in Nat
    BY <1>0, <2>1, PartIsFinite
  <2>5. tears' \in Nat
    BY <1>0, <2>2
  <2> QED
    BY <2>3, <2>4, <2>5
<1>3. Cardinality(l) + Cardinality(r) <= tears
  BY DEF Tally
<1> HIDE DEF l, r, ll, rr
<1>4. /\ \A n : IsFiniteSet(l \cup {n}) /\ Cardinality(l \cup {n}) \in Nat /\ Cardinality(l \cup {n}) <= Cardinality(l) + 1
      /\ ll \subseteq l => Cardinality(ll) <= Cardinality(l)
      /\ rr \subseteq r => Cardinality(rr) <= Cardinality(r)
  BY <1>1, CountIs
<1>6. CASE ll \subseteq l /\ rr \subseteq r /\ tears' \in {tears, tears + 1}
  <2>1. Cardinality(ll) <= Cardinality(l) /\ Cardinality(rr) <= Cardinality(r)
    BY <1>4, <1>6
  <2>2. Cardinality(ll) + Cardinality(rr) <= tears'
    BY <1>1, <1>2, <1>3, <1>6, <2>1
  <2> QED
    BY <2>2 DEF Tally, ll, rr
<1>7. ASSUME NEW n, ll \subseteq l \cup {n}, NEW d \in r, rr \subseteq r \ {d}, tears' = tears PROVE Tally'
  <2>1. IsFiniteSet(l \cup {n}) /\ Cardinality(l \cup {n}) \in Nat /\ Cardinality(l \cup {n}) <= Cardinality(l) + 1
    BY <1>4
  <2>2. Cardinality(ll) <= Cardinality(l \cup {n})
    BY <1>7, <2>1, CountIs
  <2>3. IsFiniteSet(r \ {d}) /\ Cardinality(r \ {d}) \in Nat /\ Cardinality(r \ {d}) = Cardinality(r) - 1
    BY <1>1, CountIs
  <2>4. Cardinality(rr) <= Cardinality(r \ {d})
    BY <1>7, <2>3, CountIs
  <2>5. Cardinality(ll) + Cardinality(rr) <= tears'
    BY <1>1, <1>2, <1>3, <1>7, <2>1, <2>2, <2>3, <2>4
  <2> QED
    BY <2>5 DEF Tally, ll, rr
<1>8. ASSUME ll \subseteq l, NEW d, rr \subseteq r \cup {d}, tears' = tears + 1 PROVE Tally'
  <2>1. Cardinality(ll) <= Cardinality(l)
    BY <1>4, <1>8
  <2>2. IsFiniteSet(r \cup {d}) /\ Cardinality(r \cup {d}) \in Nat /\ Cardinality(r \cup {d}) <= Cardinality(r) + 1
    BY <1>1, CountIs
  <2>3. Cardinality(rr) <= Cardinality(r \cup {d})
    BY <1>8, <2>2, CountIs
  <2>4. Cardinality(ll) + Cardinality(rr) <= tears'
    BY <1>1, <1>2, <1>3, <1>8, <2>1, <2>2, <2>3
  <2> QED
    BY <2>4 DEF Tally, ll, rr
<1> QED
  BY <1>6, <1>7, <1>8 DEF l, r, ll, rr

LEMMA WriteTally ==
    ASSUME RecordingTypeOK, RecordingTypeOK', Ordered, Ended, Handling, Tally, WriteOut
    PROVE  Tally'
<1> DEFINE d0 == handle.day
           lines == FirstGroup
           t == Text(lines)
           w == written[d0]
           x == w \o t
<1>1. handle # Closed /\ acked' = acked \cup ToSet(lines) /\ UNCHANGED <<dates, tears>>
  BY Zenon DEF WriteOut, clock, cron
<1>2. Written(t, lines) /\ Appended(t)
  BY WriteOutTypes
<1>3. /\ t \in Seq(Tokens) /\ d0 \in Days /\ job # <<>>
      /\ \A d \in Days : \A i \in DOMAIN written[d] : written[d][i] \notin ToSet(lines)
  BY <1>1, <1>2, GroupFollows
<1>4. written'[d0] = x /\ \A e \in Days : e # d0 => written'[e] = written[e]
  BY <1>1, <1>2, <1>3, AppendedIs
<1>5. d0 = GroupDay /\ Ascending(job)
  BY <1>1 DEF RecordingTypeOK, Ordered
<1>6. /\ lines \in Seq(1..MaxLines) /\ ToSet(lines) = {n \in ToSet(job) : dates[n] = d0} /\ Len(lines) > 0
  BY <1>3, <1>5, GroupsAre
<1>7. /\ w \in Seq(Tokens)
      /\ \A i \in DOMAIN w : w[i] \in acked => i < Len(w) /\ w[i + 1] = NL
  BY <1>3 DEF RecordingTypeOK, Ended
<1>8. acked \subseteq 1..Len(dates) /\ \A n \in 1..Len(dates) : dates[n] \in Days
  <2>1. dates \in Seq(Days)
    BY DEF RecordingTypeOK
  <2> QED
    BY <2>1, ElementOfSeq DEF RecordingTypeOK
<1>9. t # <<>> /\ Last(t) = NL
  <2>1. Len(t) = 2 * Len(lines) /\ \A k \in 1..Len(lines) : t[2 * k] = NL
    BY <1>6, TextIs
  <2>2. Len(lines) \in 1..Len(lines) /\ Len(t) # 0
    BY <1>6, <2>1, LenProperties
  <2>3. t[Len(t)] = NL
    BY <2>1, <2>2
  <2>4. t # <<>>
    BY <2>2, EmptySeq
  <2> QED
    BY <2>3, <2>4 DEF Last
<1>10. x # <<>> /\ Last(x) = NL
  BY <1>3, <1>7, <1>9, LastOfJoined
<1> HIDE DEF t, x, d0
<1>11. ASSUME NEW n \in acked, n \notin Lost PROVE n \notin Lost'
  <2>1. dates[n] \in Days /\ n \in Readable(written[dates[n]])
    BY <1>8, <1>11 DEF Lost
  <2>2. CASE dates[n] # d0
    BY <1>1, <1>4, <2>1, <2>2 DEF Lost
  <2>3. CASE dates[n] = d0
    <3>1. n \in Readable(w)
      BY <2>1, <2>3
    <3>2. \A i \in DOMAIN w : w[i] = n => i < Len(w) /\ w[i + 1] = NL
      BY <1>7
    <3> HIDE DEF w
    <3>3. n \in Readable(x)
      BY <1>3, <1>7, <3>1, <3>2, StillReadable DEF x
    <3> QED
      BY <1>1, <1>4, <2>3, <3>3 DEF Lost
  <2> QED
    BY <2>2, <2>3
<1>12. ASSUME NEW n \in ToSet(lines), n \in Lost'
       PROVE  n = lines[1] /\ w # <<>> /\ Last(w) # NL
  <2>1. PICK k \in 1..Len(lines) : n = lines[k]
    BY <1>6, ElementsOf
  <2>2. dates[n] = d0
    BY <1>6
  <2>3. n \notin Readable(x)
    BY <1>1, <1>4, <1>12, <2>2 DEF Lost
  <2> HIDE DEF w, lines
  <2>4. ~(k > 1 \/ w = <<>> \/ Last(w) = NL)
    BY <1>6, <1>7, <2>1, <2>3, GroupReadable DEF x, t
  <2>5. k = 1
    BY <1>6, <2>4, LenProperties
  <2> QED
    BY <2>1, <2>4, <2>5
<1>13. Lost' \subseteq acked \cup ToSet(lines)
  BY <1>1 DEF Lost
<1>14. Lost' \subseteq Lost \cup {lines[1]} /\ (w = <<>> \/ Last(w) = NL => Lost' \subseteq Lost)
  BY <1>11, <1>12, <1>13
<1>15. Ragged' \subseteq Ragged \ {d0} /\ (~(w = <<>> \/ Last(w) = NL) => d0 \in Ragged)
  <2>1. ASSUME NEW d \in Ragged' PROVE d \in Ragged /\ d # d0
    BY <1>4, <1>10, <2>1 DEF Ragged
  <2>2. ~(w = <<>> \/ Last(w) = NL) => d0 \in Ragged
    BY <1>3 DEF Ragged
  <2> QED
    BY <2>1, <2>2
<1> HIDE DEF w
<1>16. CASE w = <<>> \/ Last(w) = NL
  BY <1>1, <1>14, <1>15, <1>16, TallyKept
<1>17. CASE ~(w = <<>> \/ Last(w) = NL)
  BY <1>1, <1>14, <1>15, <1>17, TallyKept
<1> QED
  BY <1>16, <1>17

LEMMA CrashTally ==
    ASSUME RecordingTypeOK, RecordingTypeOK', Ordered, Ended, Handling, Tally, Crash
    PROVE  Tally'
<1> DEFINE d0 == handle.day
<1>1. UNCHANGED <<dates, acked>>
  BY Zenon DEF Crash
<1>2. CASE UNCHANGED <<dir, written, tears>>
  <2>1. Lost' = Lost /\ Ragged' = Ragged
    BY <1>1, <1>2 DEF Lost, Ragged
  <2> QED
    BY <1>2, <2>1, TallyKept
<1>3. CASE /\ handle # Closed
           /\ \E tokens \in CutShort(Text(FirstGroup)) :
                 /\ Written(tokens, FirstGroup) /\ Appended(tokens)
                 /\ tears' = IF tokens = <<>> \/ Last(tokens) = NL THEN tears ELSE tears + 1
  <2>1. PICK t : /\ Written(t, FirstGroup) /\ Appended(t)
                 /\ tears' = IF t = <<>> \/ Last(t) = NL THEN tears ELSE tears + 1
    BY <1>3
  <2> DEFINE w == written[d0]
             x == w \o t
  <2>2. t \in Seq(Tokens) /\ d0 \in Days
    BY <1>3, <2>1, GroupFollows
  <2>3. written'[d0] = x /\ \A e \in Days : e # d0 => written'[e] = written[e]
    BY <1>3, <2>1, <2>2, AppendedIs
  <2>4. /\ w \in Seq(Tokens)
        /\ \A i \in DOMAIN w : w[i] \in acked => i < Len(w) /\ w[i + 1] = NL
    BY <2>2 DEF RecordingTypeOK, Ended
  <2>5. acked \subseteq 1..Len(dates) /\ \A n \in 1..Len(dates) : dates[n] \in Days
    <3>1. dates \in Seq(Days)
      BY DEF RecordingTypeOK
    <3> QED
      BY <3>1, ElementOfSeq DEF RecordingTypeOK
  <2>6. IF t = <<>> THEN x = w ELSE x # <<>> /\ Last(x) = Last(t)
    BY <2>2, <2>4, LastOfJoined
  <2> HIDE DEF x, d0
  <2>7. ASSUME NEW n \in acked, n \notin Lost PROVE n \notin Lost'
    <3>1. dates[n] \in Days /\ n \in Readable(written[dates[n]])
      BY <2>5, <2>7 DEF Lost
    <3>2. CASE dates[n] # d0
      BY <1>1, <2>3, <3>1, <3>2 DEF Lost
    <3>3. CASE dates[n] = d0
      <4>1. n \in Readable(w)
        BY <3>1, <3>3
      <4>2. \A i \in DOMAIN w : w[i] = n => i < Len(w) /\ w[i + 1] = NL
        BY <2>4
      <4> HIDE DEF w
      <4>3. n \in Readable(x)
        BY <2>2, <2>4, <4>1, <4>2, StillReadable DEF x
      <4> QED
        BY <1>1, <2>3, <3>3, <4>3 DEF Lost
    <3> QED
      BY <3>2, <3>3
  <2>8. Lost' \subseteq Lost
    BY <1>1, <2>7 DEF Lost
  <2>9. CASE t = <<>>
    <3>1. Ragged' \subseteq Ragged
      BY <2>3, <2>6, <2>9 DEF Ragged
    <3> QED
      BY <2>1, <2>8, <2>9, <3>1, TallyKept
  <2>10. CASE t # <<>> /\ Last(t) = NL
    <3>1. Ragged' \subseteq Ragged
      BY <2>3, <2>6, <2>10 DEF Ragged
    <3> QED
      BY <2>1, <2>8, <2>10, <3>1, TallyKept
  <2>11. CASE t # <<>> /\ Last(t) # NL
    <3>1. Ragged' \subseteq Ragged \cup {d0}
      BY <2>3 DEF Ragged
    <3> QED
      BY <2>1, <2>8, <2>11, <3>1, TallyKept
  <2> QED
    BY <2>9, <2>10, <2>11
<1> QED
  BY <1>2, <1>3, CrashTypes

LEMMA TallyStep ==
    ASSUME RecordingTypeOK, RecordingTypeOK', Ordered, Ended, Handling, Tally, [RecordingNext]_recording
    PROVE  Tally'
<1>1. ASSUME UNCHANGED <<written, acked, tears>>, \A n \in acked : dates'[n] = dates[n] PROVE Tally'
  <2>1. Lost' = Lost /\ Ragged' = Ragged
    BY <1>1 DEF Lost, Ragged
  <2> QED
    BY <1>1, <2>1, TallyKept
<1>2. ASSUME NEW d \in Days, Record(d) PROVE Tally'
  <2>1. UNCHANGED <<written, acked, tears>> /\ \A n \in 1..Len(dates) : dates'[n] = dates[n]
    BY <1>2, RecordIs
  <2>2. acked \subseteq 1..Len(dates)
    BY DEF RecordingTypeOK
  <2> QED
    BY <1>1, <2>1, <2>2
<1>3. ASSUME Flush PROVE Tally'
  <2>1. UNCHANGED <<dates, written, acked, tears>>
    BY <1>3, Zenon DEF Flush, ghost
  <2> QED
    BY <1>1, <2>1
<1> QED
  BY <1>1, <1>2, <1>3, FlowIs, WriteTally, CrashTally

-----------------------------------------------------------------------------
(* The recordings are right in every run. *)

RecordingsInv == RecordingTypeOK /\ Ordered /\ Ended /\ Handling /\ Covering /\ Compacting /\ Tally

LEMMA RecordingStarts ==
    ASSUME RecordingInit
    PROVE  RecordingsInv
<1> USE RecordingAssumption
<1>1. /\ today = 1 /\ faults = 0
      /\ dates = <<>> /\ unflushed = <<>> /\ job = <<>> /\ handle = Closed
      /\ dir = <<>>
      /\ written = [d \in Days |-> <<>>] /\ acked = {} /\ raced = {} /\ tears = 0
      /\ pc = "idle" /\ at = 1 /\ size = 0
  BY DEF RecordingInit
<1>2. /\ \A S : <<>> \in Seq(S)
      /\ Len(<<>>) = 0 /\ ToSet(<<>>) = {} /\ Ascending(<<>>) /\ DOMAIN <<>> = {}
  BY EmptySeq, NothingWaits
<1>3. \A d \in Days : written[d] = <<>>
  BY <1>1
<1>4. \A x : ~Has(x) /\ Content(x) = <<>>
  BY <1>1, <1>2 DEF Has, Content
<1>5. RecordingTypeOK
  <2>1. 1 \in Days /\ 0 \in 0..MaxFaults /\ 0 \in 0..0 /\ 0 <= MaxLines /\ 0 \in Nat
    BY DEF Days
  <2>2. written \in [Days -> Seq(Tokens)]
    BY <1>1, <1>2
  <2>3. DOMAIN dir \subseteq {"jsonl", "gz", "part"} \X Days /\ \A name \in DOMAIN dir : dir[name] \in Seq(Tokens)
    BY <1>1, <1>2
  <2> QED
    BY <1>1, <1>2, <2>1, <2>2, <2>3 DEF RecordingTypeOK
<1>6. Ordered
  BY <1>1, <1>2, <1>3 DEF Ordered, RisesIn
<1>7. Ended
  BY <1>1, <1>2, <1>3 DEF Ended
<1>8. Handling /\ Compacting
  BY <1>1 DEF Handling, Compacting
<1>9. Covering
  BY <1>2, <1>3, <1>4 DEF Covering, CoversBy, EndsOf, BeginsOf
<1>10. Tally
  <2>1. Lost = {} /\ Ragged = {}
    BY <1>1, <1>3 DEF Lost, Ragged
  <2> QED
    BY <1>1, <2>1, FS_EmptySet DEF Tally
<1> QED
  BY <1>5, <1>6, <1>7, <1>8, <1>9, <1>10 DEF RecordingsInv

LEMMA RecordingsStep ==
    ASSUME RecordingsInv, [RecordingNext]_recording
    PROVE  RecordingsInv'
<1> USE DEF RecordingsInv
<1>1. RecordingTypeOK'
  BY RecordingTypesStep
<1>2. Ordered' /\ Ended'
  BY OrderStep
<1>3. Handling'
  BY HandlingStep
<1>4. Covering' /\ Compacting'
  BY CoveringStep
<1>5. Tally'
  BY <1>1, TallyStep
<1> QED
  BY <1>1, <1>2, <1>3, <1>4, <1>5

LEMMA RecordingsHold == RecordingSpec => []RecordingsInv
<1>1. RecordingInit => RecordingsInv
  BY RecordingStarts
<1>2. RecordingsInv /\ [RecordingNext]_recording => RecordingsInv'
  BY RecordingsStep
<1> QED
  BY <1>1, <1>2, PTL DEF RecordingSpec

\* A row that is owed is in the part of the day that the archive holds, or in
\* the part that the plain file holds: what lies between the two is not owed.
LEMMA OwedIsHeld ==
    ASSUME NEW w \in Seq(Tokens), NEW p \in Seq(Tokens), NEW a \in Seq(Tokens),
           NEW archived \in BOOLEAN, NEW owed, CoversBy(w, p, a, archived, owed),
           NEW i \in Rows(w), w[i] \in owed, i < Len(w), w[i + 1] = NL
    PROVE  w[i] \in Readable(p) \cup Readable(a)
<1> DEFINE k == Len(w) - Len(p)
           j == i - k
<1>1. /\ Len(w) \in Nat /\ Len(p) \in Nat /\ Len(a) \in Nat
      /\ DOMAIN w = 1..Len(w) /\ DOMAIN p = 1..Len(p) /\ DOMAIN a = 1..Len(a)
  BY LenProperties
<1>2. i \in 1..Len(w) /\ w[i] \notin {NL, Torn} /\ (i = 1 \/ w[i - 1] = NL)
  BY <1>1 DEF Rows, Whole
<1>3. /\ Len(p) <= Len(w) /\ \A m \in 1..Len(p) : p[m] = w[k + m]
      /\ Len(a) <= Len(w) /\ \A m \in 1..Len(a) : a[m] = w[m]
  BY DEF CoversBy, EndsOf, BeginsOf
<1>4. IF archived THEN Excused(w, Len(a), k, owed) ELSE Len(p) = Len(w)
  BY DEF CoversBy
<1>5. k \in Nat /\ k = Len(w) - Len(p) /\ i + 1 \in 1..Len(w) /\ i \in Nat \ {0} /\ (i # 1 => i - 1 \in 1..Len(w))
  BY <1>1, <1>2, <1>3
<1> HIDE DEF k
<1>6. CASE i <= Len(a)
  <2>0. Len(a) \in Nat /\ i \in Nat \ {0} /\ i <= Len(a)
    BY <1>1, <1>5, <1>6
  <2>1. i \in 1..Len(a) /\ (i # 1 => i - 1 \in 1..Len(a)) /\ (i # Len(a) => i + 1 \in 1..Len(a))
    BY <2>0
  <2>2. a[i] = w[i] /\ (i = 1 \/ a[i - 1] = NL) /\ (i = Len(a) \/ a[i + 1] = NL)
    BY <1>2, <1>3, <2>1
  <2>3. Whole(a, i)
    BY <1>2, <2>2 DEF Whole
  <2> QED
    BY <1>1, <2>1, <2>2, <2>3 DEF Readable, Rows
<1>7. CASE i > k
  <2>1. j \in 1..Len(p) /\ k + j = i /\ j + 1 \in 1..Len(p) /\ k + (j + 1) = i + 1
    BY <1>1, <1>2, <1>5, <1>7
  <2>2. j # 1 => j - 1 \in 1..Len(p) /\ k + (j - 1) = i - 1 /\ i # 1
    BY <1>1, <1>2, <1>5, <1>7, SMTT(30)
  <2> HIDE DEF j
  <2>3. p[j] = w[i] /\ p[j + 1] = NL /\ (j = 1 \/ p[j - 1] = NL)
    BY <1>2, <1>3, <2>1, <2>2
  <2>4. Whole(p, j)
    BY <1>2, <2>3 DEF Whole
  <2> QED
    BY <1>1, <2>1, <2>3, <2>4 DEF Readable, Rows
<1>8. i <= Len(a) \/ i > k
  <2>1. CASE archived
    <3>1. i \notin (Len(a) + 1)..k
      BY <1>4, <2>1 DEF Excused
    <3> QED
      BY <1>1, <1>5, <3>1
  <2>2. CASE ~archived
    BY <1>1, <1>2, <1>4, <1>5, <2>2
  <2> QED
    BY <2>1, <2>2
<1> QED
  BY <1>6, <1>7, <1>8

LEMMA NothingIsLost ==
    ASSUME RecordingsInv
    PROVE  CompactionLosesNothing
<1>1. ASSUME NEW d \in Days, NEW n \in (Readable(written[d]) \cap acked) \ raced
      PROVE  n \in Readable(Content(Plain(d))) \cup Readable(Content(Archive(d)))
  <2> DEFINE w == written[d]
             p == Content(Plain(d))
             a == Content(Archive(d))
             h == Has(Archive(d))
  <2>1. w \in Seq(Tokens) /\ p \in Seq(Tokens) /\ a \in Seq(Tokens)
    BY ContentTypes DEF RecordingsInv, RecordingTypeOK
  <2>2. CoversBy(w, p, a, h, OwedLines) /\ h \in BOOLEAN
    BY DEF RecordingsInv, Covering, Has
  <2>3. PICK i \in Rows(w) : w[i] = n
    BY <1>1 DEF Readable
  <2>4. i < Len(w) /\ w[i + 1] = NL
    BY <1>1, <2>3 DEF RecordingsInv, Ended, Rows
  <2>5. w[i] \in OwedLines
    BY <1>1, <2>3 DEF OwedLines
  <2> HIDE DEF w, p, a, h
  <2>6. w[i] \in Readable(p) \cup Readable(a)
    BY <2>1, <2>2, <2>3, <2>4, <2>5, OwedIsHeld
  <2> QED
    BY <2>3, <2>6 DEF p, a
<1> QED
  BY <1>1 DEF CompactionLosesNothing

LEMMA ReplayIsOrdered ==
    ASSUME RecordingsInv
    PROVE  ReplayInOrder
<1>1. ASSUME NEW d \in Days, NEW i \in Rows(RecordingFile(d)), NEW j \in Rows(RecordingFile(d)), i < j
      PROVE  RecordingFile(d)[i] < RecordingFile(d)[j]
  <2> DEFINE w == written[d]
             p == Content(Plain(d))
             a == Content(Archive(d))
             f == RecordingFile(d)
             k == IF Has(Plain(d)) THEN Len(w) - Len(p) ELSE 0
  <2>1. w \in Seq(Tokens) /\ p \in Seq(Tokens) /\ a \in Seq(Tokens) /\ RisesIn(w)
    BY ContentTypes DEF RecordingsInv, RecordingTypeOK, Ordered
  <2>2. EndsOf(p, w) /\ BeginsOf(a, w)
    BY DEF RecordingsInv, Covering, CoversBy
  <2>3. f = IF Has(Plain(d)) THEN p ELSE a
    BY DEF RecordingFile, Content
  <2>4. /\ Len(w) \in Nat /\ Len(p) \in Nat /\ Len(a) \in Nat /\ f \in Seq(Tokens)
        /\ DOMAIN w = 1..Len(w) /\ DOMAIN f = 1..Len(f) /\ Len(f) \in Nat
    BY <2>1, <2>3, LenProperties
  <2> HIDE DEF w, p, a, f
  <2>5. k \in Nat /\ k + Len(f) <= Len(w) /\ \A m \in 1..Len(f) : f[m] = w[k + m]
    <3>1. CASE Has(Plain(d))
      <4>1. k = Len(w) - Len(p) /\ f = p
        BY <2>3, <3>1
      <4> HIDE DEF k
      <4> QED
        BY <2>2, <2>4, <4>1 DEF EndsOf
    <3>2. CASE ~Has(Plain(d))
      <4>1. k = 0 /\ f = a
        BY <2>3, <3>2
      <4> HIDE DEF k
      <4>2. \A m \in 1..Len(f) : 0 + m = m
        BY <2>4
      <4> QED
        BY <2>2, <2>4, <4>1, <4>2 DEF BeginsOf
    <3> QED
      BY <3>1, <3>2
  <2> HIDE DEF k
  <2>6. i \in 1..Len(f) /\ j \in 1..Len(f) /\ f[i] \notin {NL, Torn} /\ f[j] \notin {NL, Torn}
    BY <2>4 DEF Rows, Whole, f
  <2>7. k + i \in DOMAIN w /\ k + j \in DOMAIN w /\ k + i < k + j /\ w[k + i] = f[i] /\ w[k + j] = f[j]
    BY <1>1, <2>4, <2>5, <2>6
  <2>8. f[i] > 0 /\ f[j] > 0
    <3>1. f[i] \in Tokens /\ f[j] \in Tokens
      BY <2>4, <2>6, ElementOfSeq
    <3>2. \A x \in Tokens : x \notin {NL, Torn} => x > 0
      BY RecordingAssumption DEF Tokens, NL, Torn
    <3> QED
      BY <2>6, <3>1, <3>2
  <2>9. f[i] < f[j]
    BY <2>1, <2>7, <2>8 DEF RisesIn
  <2> QED
    BY <2>9 DEF f
<1> QED
  BY <1>1 DEF ReplayInOrder

LEMMA TearsAreCheap ==
    ASSUME RecordingsInv
    PROVE  OneLinePerTear
<1>1. /\ Cardinality(Lost) \in Nat /\ Cardinality(Ragged) \in Nat
      /\ tears \in Nat
  <2>1. Len(dates) \in Nat /\ Lost \subseteq 1..Len(dates)
    BY LenProperties DEF RecordingsInv, RecordingTypeOK, Lost
  <2>2. MaxDay \in Nat /\ Ragged \subseteq 1..MaxDay
    BY RecordingAssumption DEF Ragged, Days
  <2>3. tears \in Nat
    BY RecordingAssumption DEF RecordingsInv, RecordingTypeOK
  <2> QED
    BY <2>1, <2>2, <2>3, PartIsFinite
<1>2. Cardinality(Lost) + Cardinality(Ragged) <= tears
  BY DEF RecordingsInv, Tally
<1>3. Cardinality(Lost) <= tears
  BY <1>1, <1>2
<1> QED
  BY <1>3 DEF OneLinePerTear, Lost

\* The compaction loses no event: what was readable in its day's file stays
\* readable there or in the archive, through crashes, interruptions and appends
\* at any step, unless it came after the archive had read the file.
THEOREM ArchivesKeepTheDay == RecordingSpec => []CompactionLosesNothing
BY RecordingsHold, NothingIsLost, PTL

\* A replay of a day yields its events in the order they were recorded, each once.
THEOREM ReplaysAreOrdered == RecordingSpec => []ReplayInOrder
BY RecordingsHold, ReplayIsOrdered, PTL

\* A write that stops early costs one later line at most.
THEOREM TearsCostOneLine == RecordingSpec => []OneLinePerTear
BY RecordingsHold, TearsAreCheap, PTL
=============================================================================
