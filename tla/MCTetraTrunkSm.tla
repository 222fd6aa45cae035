-------------------------- MODULE MCTetraTrunkSm --------------------------
(* Instances of TetraTrunkSm for TLC.                                      *)
EXTENDS TetraTrunkSm

(* A control channel whose carrier has a traffic channel too, and another  *)
(* carrier.                                                                *)
TwoCarriers == {[f |-> 1, s |-> 2], [f |-> 2, s |-> 1]}

(* Two calls; one call, and an event of the operator or a change of cell.  *)
CallsAndCells ==
    {[parties |-> {1, 2}, cells |-> FALSE, events |-> 0],
     [parties |-> {1}, cells |-> TRUE, events |-> 1]}
=============================================================================
