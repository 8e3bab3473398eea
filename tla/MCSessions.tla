------------------------------- MODULE MCSessions -------------------------------
(* Sessions for TLC: the two configurations are interchangeable, and every
   property is an invariant. *)
EXTENDS Sessions

Symmetry == Permutations(Configs)
=============================================================================
