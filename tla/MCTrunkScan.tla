----------------------------- MODULE MCTrunkScan -----------------------------
(* Instances of TrunkScan for TLC: two or three targets, in circumstances  *)
(* that together reach every handler.                                      *)
EXTENDS TrunkScan

(* A DMR system and a conventional channel; late and refused tunes, and a  *)
(* talkgroup that is held.                                                 *)
Followed ==
    [kind |-> <<"dmr", "conv">>, capped |-> {1, 2}, calls |-> {1, 2}, held |-> {2}, refuse |-> {2},
     late |-> TRUE, prepare |-> FALSE, acts |-> {}]

(* A P25 system, which ticks by itself, and an analog channel; the scan is *)
(* held.                                                                   *)
Held == [Followed EXCEPT !.kind = <<"p25", "nfm">>, !.acts = {"hold"}]

(* Switches that fail to prepare, rounds in which every park is refused.   *)
Unprepared == [Held EXCEPT !.refuse = {1, 2}, !.late = FALSE, !.prepare = TRUE, !.acts = {}]

(* The operator moves on, avoids the target on air and clears the avoids.  *)
Steered ==
    [kind |-> <<"p25", "conv">>, capped |-> {2}, calls |-> {1}, held |-> {}, refuse |-> {1, 2},
     late |-> FALSE, prepare |-> TRUE, acts |-> {"hold", "advance", "avoid"}]

Everything == {Followed, Held, Unprepared, Steered}

(* No late answers: every visit has a limit.                               *)
Limited == [Followed EXCEPT !.calls = {1}, !.held = {}, !.late = FALSE]
Live == {Limited, [Limited EXCEPT !.refuse = {1, 2}]}
=============================================================================
