------------------------------- MODULE MCStrategy -------------------------------
(***************************************************************************)
(* The bounds of the strategies for TLC: the momentum engine with open     *)
(* interests that change, and with a longer queue of breadth marks; the    *)
(* cascade engine.                                                         *)
(***************************************************************************)
EXTENDS Strategy

MCBounds ==
    {[engine |-> "momentum", time |-> 0, marks |-> 2, interests |-> {2, 3}],
     [engine |-> "momentum", time |-> 3, marks |-> 3, interests |-> {2}],
     [engine |-> "dvsla",    time |-> 1, marks |-> 2, interests |-> {}]}
=============================================================================
