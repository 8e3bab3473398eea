----------------------------- MODULE MarketBreadth -----------------------------
(***************************************************************************)
(* How many other coins have moved the same way lately.  The marks are in  *)
(* the order they were recorded, which is not that of their times: a trade *)
(* bears the exchange's time, a mark price the host's, and a reconnect     *)
(* brings trades that are a while old.                                     *)
(***************************************************************************)
EXTENDS Integers, Sequences, SequencesExt, FiniteSets

CONSTANTS
    Coins,
    Window,        \* window_seconds
    MaxSameSide,   \* max_same_side
    Skew           \* bound: how old a trade may be when it comes

ASSUME BreadthAssumption == Window \in Nat /\ MaxSameSide \in Int /\ Skew \in Nat

Directions == {"up", "down"}

\* _prune: from the head, up to the first entry that is recent enough.
OneOnly(s, cutoff) ==                                      \* mutant: one entry, not up to a recent one
    IF s # <<>> /\ Head(s).ts < cutoff THEN Tail(s) ELSE s
Pruned(s, cutoff) ==
    LET recent == {i \in DOMAIN s : s[i].ts >= cutoff}
    IN  IF recent = {} THEN <<>> ELSE SubSeq(s, Min(recent), Len(s))

\* record.
Recorded(marks, coin, direction, now) ==
    Pruned(Append(marks, [coin |-> coin, direction |-> direction, ts |-> now]), now - Window)

\* Ghost: of all that was recorded, what is in the window of the latest of it.
InWindow(moves, coin, direction, now) ==
    LET all    == moves \cup {[coin |-> coin, direction |-> direction, ts |-> now]}
        latest == Max({m.ts : m \in all})
    IN  {m \in all : m.ts >= latest - Window}

\* count_same_side, of marks that record() has just pruned.
SameSide(marks, direction, coin) ==
    {m.coin : m \in {x \in ToSet(marks) : x.direction = direction /\ x.coin # coin}}

Synchronized(marks, direction, coin) ==
    MaxSameSide > 0 /\ Cardinality(SameSide(marks, direction, coin)) >= MaxSameSide
=============================================================================
