---------------------------- MODULE SampleQueue ----------------------------
(***************************************************************************)
(* What the input ring promises its two threads: a bounded first-in        *)
(* first-out queue.  A device appends blocks of samples, the demodulator   *)
(* takes blocks from the front, and a purge forgets a prefix.  Nothing is  *)
(* reordered, repeated, altered or lost in between.                        *)
(***************************************************************************)
EXTENDS Naturals, Sequences

CONSTANTS Samples, Limit

(* A sample is a record whose seq numbers the device's stream.             *)
InOrder(s) == \A j, k \in DOMAIN s : j < k => s[j].seq < s[k].seq

VARIABLES
    queue,   \* the samples committed and not yet taken
    taken    \* the block the demodulator took last

vars == <<queue, taken>>

Init == queue = <<>> /\ taken = <<>>

(* A block of newer samples is appended; some of the stream may have been  *)
(* dropped before it.                                                      *)
Put ==
    /\ Len(queue') \in Len(queue) + 1 .. Limit
    /\ SubSeq(queue', 1, Len(queue)) = queue
    /\ \A k \in 1 .. Len(queue') : queue'[k] \in Samples
    /\ InOrder(taken \o queue')
    /\ UNCHANGED taken

Take ==
    \E n \in 1 .. Len(queue) :
        /\ taken' = SubSeq(queue, 1, n)
        /\ queue' = SubSeq(queue, n + 1, Len(queue))

Forget ==
    /\ \E n \in 1 .. Len(queue) : queue' = SubSeq(queue, n + 1, Len(queue))
    /\ UNCHANGED taken

Next == Put \/ Take \/ Forget

Spec == Init /\ [][Next]_vars
=============================================================================
