------------------------- MODULE MCRetuneController -------------------------
(***************************************************************************)
(* RetuneController for TLC.                                               *)
(***************************************************************************)
EXTENDS RetuneController

\* two callers and one result slot, which the second completion reuses
Owners == [callers |-> Callers, asks |-> {"tagged"}, slots |-> 1, stop |-> FALSE]
Untagged == [Owners EXCEPT !.asks = {"plain"}]
\* one caller, and the UDP control port; one, and soft_stop() at any point
Shared == [Owners EXCEPT !.callers = {Decoder}, !.asks = {"tagged", "plain", "port"}]
Stopping == [Shared EXCEPT !.asks = {"tagged", "plain"}, !.slots = 2, !.stop = TRUE]
FourSetups == {Owners, Untagged, Shared, Stopping}
=============================================================================
