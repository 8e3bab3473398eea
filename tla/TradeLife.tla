------------------------------- MODULE TradeLife -------------------------------
(***************************************************************************)
(* What a backtest promises of its signals: each becomes one trade or is   *)
(* skipped, at most MaxConcurrent are under way, one of a coin, and none   *)
(* closes on the print that opened it.                                     *)
(***************************************************************************)
EXTENDS Integers, FiniteSets

CONSTANTS
    Coins,
    MaxConcurrent   \* SimConfig.max_concurrent

VARIABLES
    stage,      \* of each coin's signal: none, an order resting, a position held
    signals, skipped, trades

vars == <<stage, signals, skipped, trades>>

Stages  == {"none", "resting", "held"}
Live(s) == {c \in Coins : s[c] # "none"}

\* What a print may do to a coin's signal before the strategy sees it: one thing.
After(s) ==
    CASE s = "held"    -> {"held", "none"}
      [] s = "resting" -> {"resting", "held", "none"}
      [] s = "none"    -> {"none"}

One(condition) == IF condition THEN 1 ELSE 0

\* A print of the coin c, and the strategy's answer to it: no signal, one that
\* is taken, one that is skipped.
Event(c) ==
    \E s \in After(stage[c]) :
        LET settled == [stage EXCEPT ![c] = s]
            expired == One(stage[c] = "resting" /\ s = "none")
        IN  /\ trades' = trades + One(stage[c] = "held" /\ s = "none")
            /\ \/ stage' = settled /\ signals' = signals /\ skipped' = skipped + expired
               \/ /\ s = "none"
                  /\ Cardinality(Live(settled)) < MaxConcurrent
                  /\ \E new \in {"resting", "held"} : stage' = [stage EXCEPT ![c] = new]
                  /\ signals' = signals + 1
                  /\ skipped' = skipped + expired
               \/ stage' = settled /\ signals' = signals + 1 /\ skipped' = skipped + expired + 1

\* The end of the recording.
End ==
    /\ stage' = [c \in Coins |-> "none"]
    /\ trades' = trades + Cardinality({c \in Coins : stage[c] = "held"})
    /\ skipped' = skipped + Cardinality({c \in Coins : stage[c] = "resting"})
    /\ UNCHANGED signals

Init ==
    /\ stage = [c \in Coins |-> "none"]
    /\ signals = 0
    /\ skipped = 0
    /\ trades = 0

Next == End \/ \E c \in Coins : Event(c)

Spec == Init /\ [][Next]_vars

-----------------------------------------------------------------------------
(* Properties. *)

TypeOK ==
    /\ stage \in [Coins -> Stages]
    /\ signals \in Nat /\ skipped \in Nat /\ trades \in Nat

\* Every signal is a trade, skipped or under way, and never too many are.
Accounted ==
    /\ signals = trades + skipped + Cardinality(Live(stage))
    /\ Cardinality(Live(stage)) <= MaxConcurrent
=============================================================================
