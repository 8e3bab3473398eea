---------------------------- MODULE MCExecution ----------------------------
(* Model-checking instances of Execution: two coins are enough for an entry
   and an exit of different coins, and of the same coin, to overlap, and for a
   panic close to have a remaining position. *)
EXTENDS Execution, TLC

Symmetry == Permutations(Coins)
=============================================================================
