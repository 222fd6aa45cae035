---------------------------- MODULE MCRetuneHunt ----------------------------
(***************************************************************************)
(* What must come to pass in RetuneController and in NxdnCcHunt.  The hunt *)
(* asks for tunes, the controller carries them out, and each sees of the   *)
(* other only that a tune may succeed, fail or be late; a behaviour is one *)
(* of either, and the other rests.                                         *)
(***************************************************************************)
EXTENDS RetuneController, NxdnCcHunt

\* one caller, with soft_stop() at any point; alone, a caller without a token takes
\* the same steps as one with a token
Stopping == {[callers |-> Callers, asks |-> {"tagged", "port"}, slots |-> 2, stop |-> TRUE]}

\* a map with two rows of one frequency, an empty row, and another frequency
Rtl == [map |-> <<1, 1, 0, 2>>, avoid |-> {}, control |-> {1}, typeD |-> {}, busy |-> {2}, rigctl |-> FALSE]
\* the same from a rigctl peer, with a row that is avoided and a Type-D site
Peer == [Rtl EXCEPT !.avoid = {2}, !.typeD = {2}, !.rigctl = TRUE]
RtlAndPeer == {Rtl, Peer}

VARIABLE part    \* which of the two a behaviour is of

LiveInit ==
    /\ part \in {"controller", "hunt"} /\ Init /\ HuntInit
    /\ part = "controller" => air = Rtl /\ receiver = 1

LiveNext ==
    /\ \/ part = "controller" /\ Next /\ UNCHANGED huntVars
       \/ part = "hunt" /\ HuntNext /\ UNCHANGED vars
    /\ UNCHANGED part

\* the fairness of FairSpec and of HuntFairSpec, each for as long as it runs
Controls == part = "controller"
Hunts == part = "hunt"
LiveSpec ==
    /\ LiveInit /\ [][LiveNext]_<<vars, huntVars, part>>
    /\ WF_vars(Controls /\ CtlStep) /\ WF_vars(Controls /\ DemodStep)
    /\ WF_vars(Controls /\ ReaderStep) /\ WF_vars(Controls /\ StopStep)
    /\ \A c \in Callers :
         /\ WF_vars(Controls /\ (WaitAnswered(c) \/ WaitStopped(c)))
         /\ WF_vars(Controls /\ (Disown(c) \/ GiveUp(c)))
    /\ WF_huntVars(Hunts /\ Tick) /\ WF_huntVars(Hunts /\ Pass)
    /\ WF_huntVars(Hunts /\ InputBack)
    /\ SF_huntVars(Hunts /\ Answer(TRUE)) /\ SF_huntVars(Hunts /\ Tick /\ Accepts)
    /\ SF_huntVars(Hunts /\ Return /\ ~tuned')
=============================================================================
