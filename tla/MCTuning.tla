------------------------------ MODULE MCTuning ------------------------------
(***************************************************************************)
(* TuneRequests and CcCandidates for TLC.  The two share no state: the     *)
(* list says where to tune next, the ledger follows the tune.  A behaviour *)
(* is one of the ledger or one of the list, and the other rests.           *)
(***************************************************************************)
EXTENDS TuneRequests, CcCandidates

\* two sites, of control channels 1 and 2, with secondaries of their own
TwoSites ==
    [sites |-> {1, 2}, freqOf |-> [c \in {11, 12, 13} |-> c - 8], ccOf |-> [s \in {1, 2} |-> s],
     sccb |-> [s \in {1, 2} |-> IF s = 1 THEN {11, 12} ELSE {13}],
     cached |-> [s \in {0, 1, 2} |-> CASE s = 0 -> <<6, 1>> [] s = 1 -> <<3>> [] OTHER -> <<>>],
     nbs |-> {}, max |-> [list |-> 4, pend |-> 2, nb |-> 1], moves |-> 2, time |-> 1]

\* one site with more secondaries than the list has room for
ManySecondaries ==
    [sites |-> {1}, freqOf |-> [c \in {11, 12, 13} |-> c - 8], ccOf |-> [s \in {1} |-> 1],
     sccb |-> [s \in {1} |-> {11, 12, 13}], cached |-> [s \in {0, 1} |-> <<>>],
     nbs |-> {}, max |-> [list |-> 2, pend |-> 3, nb |-> 1], moves |-> 0, time |-> 2]

\* neighbours that are named in part
PartlyNamed ==
    [ManySecondaries EXCEPT
        !.freqOf = [c \in {11, 12} |-> c - 8], !.sccb = [s \in {1} |-> {}],
        !.nbs = {a \in [ch : {11, 12}, sys : {0, 5}, site : {0, 7}, wacn : {0, 8, 9}] : a.wacn # 0 => a.sys # 0},
        !.max = [list |-> 4, pend |-> 1, nb |-> 3]]

Surroundings == {TwoSites, ManySecondaries, PartlyNamed}

VARIABLE part    \* which of the two a behaviour is of

TuningInit ==
    /\ part \in {"ledger", "list"} /\ Init /\ CandidatesInit
    /\ part = "ledger" => area = ManySecondaries
    /\ part = "list" => ownerActive

TuningNext ==
    /\ \/ part = "ledger" /\ Next /\ UNCHANGED candidateVars
       \/ part = "list" /\ CandidatesNext /\ UNCHANGED vars
    /\ UNCHANGED part

\* the ledger's Fairness, for as long as the ledger runs
Ledger == part = "ledger"
TuningSpec ==
    /\ TuningInit /\ [][TuningNext]_<<vars, candidateVars, part>>
    /\ WF_vars(Ledger /\ LockStep) /\ WF_vars(Ledger /\ FrameStep)
    /\ \A o \in Owners :
        /\ WF_vars(Ledger /\ (Begin(o) \/ BeginRefused(o)))
        /\ WF_vars(Ledger /\ (SubmitTagged(o) \/ \E result \in Terminal : SubmitDirect(o, result)))
        /\ WF_vars(Ledger /\ WaitEnds(o)) /\ WF_vars(Ledger /\ NoteResult(o))
    /\ \A id \in Ids : WF_vars(Ledger /\ \E result \in Terminal : BackendCompletes(id, result))
=============================================================================
