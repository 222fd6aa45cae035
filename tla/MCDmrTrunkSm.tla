---------------------------- MODULE MCDmrTrunkSm ----------------------------
(* Instances of DmrTrunkSm for TLC: two carriers, in circumstances that    *)
(* together reach every handler.                                           *)
EXTENDS DmrTrunkSm

(* Calls, control and operator moves.                                      *)
Calls ==
    [map |-> <<1, 2>>, messages |-> {"cc", "grant", "clear", "voice"}, loops |-> FALSE, filter |-> FALSE,
     cold |-> FALSE, acts |-> {"move", "owner"}, events |-> 1]

(* Rest channels, system broadcasts and channels that tune by themselves,  *)
(* under a receive policy.                                                 *)
Rest ==
    [Calls EXCEPT !.map = <<>>, !.messages = {"cc", "status", "tscc", "conplus", "voice"}, !.filter = TRUE,
                  !.acts = {}, !.events = 0]

(* A cold start, sites without a control channel, and operator moves.      *)
Cold == [Calls EXCEPT !.messages = {"cc", "grant", "xpt"}, !.cold = TRUE, !.acts = {"move"}]

(* Trunking is switched off and on around an operator move.                *)
Switched == [Calls EXCEPT !.messages = {"cc", "voice"}, !.loops = TRUE, !.acts = {"move", "trunk"}, !.events = 2]

Everything == {Calls, Rest, Cold, Switched}

(* Calls with tunes that fail or miss their deadline; and a cold start.    *)
Live ==
    {[Calls EXCEPT !.messages = {"grant", "clear", "voice"}, !.acts = {}, !.events = 0],
     [Calls EXCEPT !.messages = {}, !.cold = TRUE, !.acts = {}, !.events = 0]}
=============================================================================
