-------------------------------- MODULE Clients ---------------------------------
(***************************************************************************)
(* The process's two clients of the outside that keep a state of their     *)
(* own, the REST client and the command poller: tasks of one process,      *)
(* which stops and starts them together.                                   *)
(***************************************************************************)
EXTENDS Integers, TLC

CONSTANTS
    Coins, Collaterals, Fallback, Cross, Risks, Leverage, Factors,   \* of Rest
    BackoffBase, BackoffMax, Overflow, MaxUpdates                    \* of Telegram

ASSUME ClientsAssumption ==
    /\ Collaterals \subseteq Int /\ Fallback \in Nat /\ Risks \subseteq Nat /\ Leverage \in Nat
    /\ Factors \subseteq 0..100
    /\ BackoffBase \in Nat \ {0} /\ BackoffMax \in Nat /\ Overflow \in Nat /\ Cross \in BOOLEAN /\ MaxUpdates \in Nat

VARIABLES
    dry, risk, calls, applied, lever, refused, executed,
    arrived, kept, offset, failures, wait, batch, fetched, handled

R == INSTANCE Rest
T == INSTANCE Telegram

rest     == <<dry, risk, calls, applied, lever, refused, executed>>
telegram == <<arrived, kept, offset, failures, wait, batch, fetched, handled>>
vars     == <<rest, telegram>>

Init == R!Init /\ T!Init

Next ==
    \/ R!Next /\ UNCHANGED telegram
    \/ T!Next /\ UNCHANGED rest
    \/ R!Restart /\ T!Restart

Spec == Init /\ [][Next]_vars

Symmetry == Permutations(Coins)

-----------------------------------------------------------------------------
(* Properties. *)

\* No order is executed under another leverage than the settings', unless the
\* exchange refused it; the margin stays within its gate (Rest).
OrdersCovered == R!OrdersCovered

\* Commands are answered in order, once in a process, and none is lost unseen
\* (Telegram).
OnceEach == T!OnceEach
=============================================================================
