------------------------------ MODULE MCCalls ------------------------------
(***************************************************************************)
(* CallEvents and UiSnapshot for TLC: what a call leaves behind, and the   *)
(* copy of it a frontend reads.  UiSnapshot keeps of the history only that *)
(* a row changed, so the two share no state, and a behaviour is one of the *)
(* calls or one of the copies while the other rests.                       *)
(***************************************************************************)
EXTENDS CallEvents, UiSnapshot

\* three epochs of a voice call that fades
Fading ==
    [voice |-> {"a"}, data |-> {}, verdicts |-> {"admit"}, scanning |-> FALSE,
     epochs |-> 3, rows |-> 2, others |-> 0]
\* two of a voice and a data call, with a notice or a reset at any point
Noticed == [Fading EXCEPT !.data = {"d"}, !.epochs = 2, !.others = 1]
\* two of different voice and data calls
Kinds == [Noticed EXCEPT !.voice = {"a", "b"}, !.rows = 1, !.others = 0]
\* two under a receive policy that checks and rejects; and one that admits none
Policed == [Kinds EXCEPT !.voice = {"a"}, !.data = {}, !.verdicts = {"admit", "check", "reject"}]
Strict == [Policed EXCEPT !.verdicts = {"check", "reject"}, !.others = 1]
\* two on two targets of the trunk scanner; one, and the scanner comes back
Scanned == [Noticed EXCEPT !.data = {}, !.scanning = TRUE, !.rows = 1]
Revisited == [Scanned EXCEPT !.epochs = 1, !.others = 2]

SevenServices == {Fading, Noticed, Kinds, Policed, Strict, Scanned, Revisited}

\* one session that learns, imports and clears maps and resizes its scan list
Importing ==
    [channels |-> {1}, freqs |-> {1}, targets |-> {}, slots |-> {}, addrs |-> {1},
     rows |-> 2, changes |-> 3, publishes |-> 3, sessions |-> 1]
\* two trunk scan targets that swap their maps
Swapping ==
    [Importing EXCEPT !.freqs = {1, 2}, !.targets = {1, 2}, !.rows = 0, !.changes = 4]
\* two sessions in one process, whose rings may reuse an address
Restarting ==
    [Importing EXCEPT !.slots = {0, 1}, !.addrs = {1, 2}, !.rows = 0,
                      !.changes = 2, !.publishes = 4, !.sessions = 2]

ThreeHosts == {Importing, Swapping, Restarting}

VARIABLE part    \* which of the two a behaviour is of

CallsInit ==
    /\ part \in {"calls", "copies"} /\ Init /\ SnapshotInit
    /\ part = "calls" => host = Swapping /\ \A t \in Targets : coord.snapshot[t].map = NoMap
    /\ part = "copies" => service = Fading
    \* the two frequencies are alike: the first that a target maps to is 1
    /\ host = Swapping => state.map[1] # 2 /\ (state.map[1] = 0 => coord.snapshot[2].map[1] # 2)

CallsNext ==
    /\ \/ part = "calls" /\ Next /\ UNCHANGED snapshotVars
       \/ part = "copies" /\ SnapshotNext /\ UNCHANGED vars
    /\ UNCHANGED part

CallsSpec == CallsInit /\ [][CallsNext]_<<vars, snapshotVars, part>>
=============================================================================
