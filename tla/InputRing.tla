----------------------------- MODULE InputRing -----------------------------
(***************************************************************************)
(* The ring of I/Q floats between a capture device and the demodulator     *)
(* (src/src/runtime/input_ring.cpp and its header), with the two threads   *)
(* that use it: the device callback that reserves, writes and commits      *)
(* (rtl_write_u8_to_ring() and its SoapySDR twins), and the demodulator    *)
(* that waits, reserves, reads and releases.  A third thread, the retune   *)
(* controller, asks for purges.                                            *)
(*                                                                         *)
(* head is written by the device only, tail by the demodulator only; each  *)
(* step below reads the other side's index at most once.  ready_m covers   *)
(* single steps.  A sample is its number in the device's stream, the first *)
(* number of its reservation and the generation that was reserved under.   *)
(***************************************************************************)
EXTENDS Integers, Sequences

CONSTANTS
    Capacity,    \* capacity, in floats
    MaxRead,     \* MAXIMUM_BUF_LENGTH: floats the demodulator takes at most
    MaxFloats,   \* bound: floats the device delivers in a run
    MaxPurges    \* bound: purges asked for in a run

(* The stream opens the ring with eight whole read buffers.                *)
ASSUME CapacityAssumption == Capacity \in Nat \ {0} /\ Capacity % 2 = 0
ASSUME MaxReadAssumption == MaxRead \in Nat \ {0} /\ MaxRead % 2 = 0
ASSUME MaxFloatsAssumption == MaxFloats \in Nat
ASSUME MaxPurgesAssumption == MaxPurges \in Nat

Index == 0 .. Capacity - 1
Sample == [seq : 1 .. MaxFloats, first : 1 .. MaxFloats, gen : 0 .. MaxPurges]
Unwritten == [seq |-> 0, first |-> 0, gen |-> 0]

VARIABLES
    cells, head, tail,     \* buffer, head, tail
    gen, purge,            \* discard_generation, g_ring_purge_pending
    exit,                  \* dsd_rtl_stream_should_exit()
    dev,                   \* where the device callback is
    need, sent,            \* floats of its buffer still to write; floats delivered so far
    noted, grant,          \* the generation it noted, the floats it reserved
    signal,                \* need_signal of input_ring_commit()
    dem,                   \* where the demodulator is
    at, held,              \* its reserved span
    snap,                  \* head as discard_all read it
    block,                 \* history: what the span held when it was reserved
    taken,                 \* history: what the last released span was read as
    purged,                \* history: the generation at the last purge taken
    asking                 \* the controller is between its two stores

devVars == <<dev, need, sent, noted, grant, signal>>
demVars == <<dem, at, held, snap, block, taken, purged>>
askVars == <<gen, asking>>
vars == <<cells, head, tail, purge, exit, devVars, demVars, askVars>>

-----------------------------------------------------------------------------
(* Ring arithmetic.                                                        *)

AtMost(a, b) == IF a < b THEN a ELSE b
Even(n) == IF n % 2 = 0 THEN n ELSE n - 1
Wrap(i) == IF i >= Capacity THEN i - Capacity ELSE i

(* input_ring_used()                                                       *)
Used(h, t) == IF h >= t THEN h - t ELSE Capacity - t + h

(* input_ring_free(): one cell stays empty, to tell full from empty.       *)
Free(h, t) == (Capacity - 1) - Used(h, t)

IsEmpty == head = tail

(* The cells of a reservation of n floats at index i, wrapped once.        *)
Span(i, n) == {Wrap(i + k) : k \in 0 .. n - 1}
Content(i, n) == [k \in 1 .. n |-> cells[Wrap(i + k - 1)]]

(* Mutant: the reservation is used as granted, odd or not.                 *)
SplitAsGranted(granted, toEnd) == granted

(* input_ring_reserve() grants a first region up to the end of the buffer  *)
(* and a second from its start; rtl_even_split_ring_reserve() rounds each  *)
(* down to whole I/Q pairs.  toEnd is even (PairsWhole): no gap opens.     *)
EvenSplit(granted, toEnd) ==
    IF toEnd >= granted THEN Even(granted) ELSE Even(toEnd) + Even(granted - toEnd)

-----------------------------------------------------------------------------
(* The device callback.                                                    *)

DevRest == UNCHANGED <<tail, purge, exit, demVars, askVars>>

(* A buffer of whole I/Q pairs arrives from the driver (a torn byte is     *)
(* carried to the next one).                                               *)
Receive(n) ==
    /\ dev = "idle"
    /\ n % 2 = 0
    /\ sent + n <= MaxFloats
    /\ dev' = "note"
    /\ need' = n
    /\ UNCHANGED <<sent, noted, grant, signal, cells, head>>
    /\ DevRest

NoteGeneration ==
    /\ dev = "note"
    /\ dev' = "reserve"
    /\ noted' = gen
    /\ UNCHANGED <<need, sent, grant, signal, cells, head>>
    /\ DevRest

(* A reservation without room for a pair drops the rest of the buffer.     *)
Reserve ==
    /\ dev = "reserve"
    /\ LET granted == EvenSplit(AtMost(need, Free(head, tail)), Capacity - head) IN
         /\ grant' = granted
         /\ dev' = IF granted = 0 THEN "idle" ELSE "write"
         /\ sent' = IF granted = 0 THEN sent + need ELSE sent
         /\ need' = IF granted = 0 THEN 0 ELSE need
    /\ UNCHANGED <<noted, signal, cells, head>>
    /\ DevRest

(* Mutant: the second region starts over from the first region's samples.  *)
WriteRestartsAtWrap ==
    /\ dev = "write"
    /\ dev' = "check"
    /\ cells' = [i \in Index |->
                   IF i \in Span(head, grant)
                     THEN [seq |-> sent + (IF i < head THEN i ELSE i - head) + 1,
                           first |-> sent + 1, gen |-> noted]
                     ELSE cells[i]]
    /\ UNCHANGED <<need, sent, noted, grant, signal, head>>
    /\ DevRest

(* The reserved cells are written; the demodulator may look on.            *)
Write ==
    /\ dev = "write"
    /\ dev' = "check"
    /\ cells' = [i \in Index |->
                   IF i \in Span(head, grant)
                     THEN [seq |-> sent + Used(i, head) + 1, first |-> sent + 1, gen |-> noted]
                     ELSE cells[i]]
    /\ UNCHANGED <<need, sent, noted, grant, signal, head>>
    /\ DevRest

(* A purge asked for since the generation was noted drops the whole        *)
(* buffer.                                                                 *)
CheckGeneration ==
    /\ dev = "check"
    /\ IF gen = noted
         THEN dev' = "commit" /\ UNCHANGED <<need, sent, grant>>
         ELSE dev' = "idle" /\ sent' = sent + need /\ need' = 0 /\ grant' = 0
    /\ UNCHANGED <<noted, signal, cells, head>>
    /\ DevRest

(* input_ring_commit() decides whether to signal before it moves head.     *)
LookBeforeCommit ==
    /\ dev = "commit"
    /\ dev' = "store"
    /\ signal' = IsEmpty
    /\ UNCHANGED <<need, sent, noted, grant, cells, head>>
    /\ DevRest

AfterCommit(left) == IF left = 0 THEN "idle" ELSE "note"

StoreHead ==
    /\ dev = "store"
    /\ head' = Wrap(head + grant)
    /\ sent' = sent + grant
    /\ need' = need - grant
    /\ grant' = 0
    /\ dev' = IF signal THEN "signal" ELSE AfterCommit(need')
    /\ UNCHANGED <<noted, signal, cells>>
    /\ DevRest

(* The signal reaches the demodulator only where it sleeps.                *)
SignalReady ==
    /\ dev = "signal"
    /\ dev' = AfterCommit(need)
    /\ signal' = FALSE
    /\ dem' = IF dem = "asleep" THEN "look" ELSE dem
    /\ UNCHANGED <<need, sent, noted, grant, cells, head, at, held, snap, block, taken, purged>>
    /\ UNCHANGED <<tail, purge, exit, askVars>>

-----------------------------------------------------------------------------
(* The demodulator.                                                        *)

DemRest == UNCHANGED <<cells, head, exit, devVars, askVars>>

(* The top of demod_thread_fn(): a stop ends the thread, a pending purge   *)
(* is taken before anything is read.                                       *)
Top ==
    /\ dem = "top"
    /\ dem' = IF exit THEN "gone" ELSE IF purge THEN "purge" ELSE "look"
    /\ purge' = (purge /\ exit)
    /\ purged' = IF purge /\ ~exit THEN gen ELSE purged
    /\ UNCHANGED <<tail, at, held, snap, block, taken>>
    /\ DemRest

(* input_ring_discard_all_consumer(): tail moves to the head it read.      *)
DiscardReads ==
    /\ dem = "purge"
    /\ dem' = "discard"
    /\ snap' = head
    /\ UNCHANGED <<tail, purge, at, held, block, taken, purged>>
    /\ DemRest

(* Mutant: the pending flag is taken and nothing is discarded.             *)
DiscardKeepsTail ==
    /\ dem = "discard"
    /\ dem' = "top"
    /\ UNCHANGED <<tail, purge, at, held, snap, block, taken, purged>>
    /\ DemRest

DiscardStores ==
    /\ dem = "discard"
    /\ dem' = "top"
    /\ tail' = snap
    /\ UNCHANGED <<purge, at, held, snap, block, taken, purged>>
    /\ DemRest

(* input_ring_wait_for_data(): a look at the ring, a second one under the  *)
(* lock, and a wait of at most 10 ms.                                      *)
Look ==
    /\ dem = "look"
    /\ dem' = IF ~IsEmpty THEN "reserve" ELSE IF exit THEN "top" ELSE "lock"
    /\ UNCHANGED <<tail, purge, at, held, snap, block, taken, purged>>
    /\ DemRest

LookUnderLock ==
    /\ dem = "lock"
    /\ dem' = IF IsEmpty THEN "asleep" ELSE "look"
    /\ UNCHANGED <<tail, purge, at, held, snap, block, taken, purged>>
    /\ DemRest

(* After a timeout, a stop is seen and anything else is waited for again.  *)
WaitTimesOut ==
    /\ dem = "asleep"
    /\ dem' = IF exit THEN "top" ELSE "look"
    /\ UNCHANGED <<tail, purge, at, held, snap, block, taken, purged>>
    /\ DemRest

(* input_ring_read_reserve(), once there is data.                          *)
ReadReserve ==
    /\ dem = "reserve"
    /\ dem' = "held"
    /\ at' = tail
    /\ held' = AtMost(MaxRead, Used(head, tail))
    /\ block' = Content(tail, held')
    /\ UNCHANGED <<tail, purge, snap, taken, purged>>
    /\ DemRest

(* input_ring_read_commit() of the whole span, clamped to what is there;   *)
(* the samples are read from the ring up to this point.                    *)
ReadCommit ==
    /\ tail' = Wrap(tail + AtMost(held, Used(head, tail)))
    /\ taken' = Content(at, held)
    /\ held' = 0

IsWrapped == at + held > Capacity

(* Mutant: a wrapped span is released and copied afterwards.               *)
PrepareReleasesFirst ==
    /\ dem = "held"
    /\ dem' = "prepared"
    /\ IF IsWrapped
         THEN tail' = Wrap(tail + AtMost(held, Used(head, tail))) /\ UNCHANGED <<taken, held>>
         ELSE UNCHANGED <<tail, taken, held>>
    /\ UNCHANGED <<purge, at, snap, block, purged>>
    /\ DemRest

(* demod_prepare_input_block(): a wrapped span is copied and released at   *)
(* once, an unwrapped one is used in place.                                *)
Prepare ==
    /\ dem = "held"
    /\ dem' = "prepared"
    /\ IF IsWrapped THEN ReadCommit ELSE UNCHANGED <<tail, taken, held>>
    /\ UNCHANGED <<purge, at, snap, block, purged>>
    /\ DemRest

(* demod_prepare_iteration_input(): a purge asked for meanwhile drops the  *)
(* block, and so may a retune, its settle time or a cold start.            *)
DropBlock ==
    /\ dem \in {"held", "prepared"}
    /\ dem' = "top"
    /\ IF held > 0 THEN ReadCommit ELSE UNCHANGED <<tail, taken, held>>
    /\ UNCHANGED <<purge, at, snap, block, purged>>
    /\ DemRest

KeepBlock ==
    /\ dem = "prepared"
    /\ ~purge
    /\ dem' = "demod"
    /\ UNCHANGED <<tail, purge, at, held, snap, block, taken, purged>>
    /\ DemRest

(* full_demod() has run over the block, which is then released.            *)
Demodulated ==
    /\ dem = "demod"
    /\ dem' = "top"
    /\ IF held > 0 THEN ReadCommit ELSE UNCHANGED <<tail, taken, held>>
    /\ UNCHANGED <<purge, at, snap, block, purged>>
    /\ DemRest

-----------------------------------------------------------------------------
(* The controller, and the end of the stream.                              *)

AskRest == UNCHANGED <<cells, head, tail, exit, devVars, demVars>>

(* controller_request_input_purge(): the generation, then the flag.        *)
AskGeneration ==
    /\ ~asking
    /\ gen < MaxPurges
    /\ gen' = gen + 1
    /\ asking' = TRUE
    /\ UNCHANGED purge
    /\ AskRest

AskFlag ==
    /\ asking
    /\ purge' = TRUE
    /\ asking' = FALSE
    /\ UNCHANGED gen
    /\ AskRest

Stop ==
    /\ ~exit
    /\ exit' = TRUE
    /\ UNCHANGED <<cells, head, tail, purge, devVars, demVars, askVars>>

-----------------------------------------------------------------------------
Init ==
    /\ cells = [i \in Index |-> Unwritten] /\ head = 0 /\ tail = 0
    /\ gen = 0 /\ purge = FALSE /\ exit = FALSE /\ asking = FALSE
    /\ dev = "idle" /\ need = 0 /\ sent = 0 /\ noted = 0 /\ grant = 0 /\ signal = FALSE
    /\ dem = "top" /\ at = 0 /\ held = 0 /\ snap = 0
    /\ block = <<>> /\ taken = <<>> /\ purged = 0

DeviceStep ==
    \/ \E n \in 1 .. MaxFloats : Receive(n)
    \/ NoteGeneration \/ Reserve \/ Write \/ CheckGeneration
    \/ LookBeforeCommit \/ StoreHead \/ SignalReady

DemodStep ==
    \/ Top \/ DiscardReads \/ DiscardStores
    \/ Look \/ LookUnderLock \/ WaitTimesOut
    \/ ReadReserve \/ Prepare \/ DropBlock \/ KeepBlock \/ Demodulated

ControlStep == AskGeneration \/ AskFlag \/ Stop

Next == DeviceStep \/ DemodStep \/ ControlStep

Spec == Init /\ [][Next]_vars

(* The demodulator keeps running, its timed wait included, and the device  *)
(* and the controller finish what they began; nothing forces the device to *)
(* deliver.                                                                *)
Fairness ==
    /\ WF_vars(DemodStep)
    /\ WF_vars(dev # "idle" /\ DeviceStep)
    /\ WF_vars(AskFlag)

FairSpec == Spec /\ Fairness

-----------------------------------------------------------------------------
(* Properties.                                                             *)

(* Every variable keeps its type; in particular head and tail stay inside  *)
(* the buffer and a reservation never exceeds the room left.               *)
TypeOK ==
    /\ cells \in [Index -> Sample \cup {Unwritten}]
    /\ head \in Index /\ tail \in Index /\ snap \in Index /\ at \in Index
    /\ gen \in 0 .. MaxPurges /\ noted \in 0 .. MaxPurges /\ purged \in 0 .. MaxPurges
    /\ purge \in BOOLEAN /\ exit \in BOOLEAN /\ asking \in BOOLEAN /\ signal \in BOOLEAN
    /\ dev \in {"idle", "note", "reserve", "write", "check", "commit", "store", "signal"}
    /\ dem \in {"top", "purge", "discard", "look", "lock", "asleep", "reserve", "held",
                "prepared", "demod", "gone"}
    /\ sent \in 0 .. MaxFloats /\ need \in 0 .. MaxFloats - sent
    /\ grant \in 0 .. need /\ held \in 0 .. Capacity - 1
    /\ block \in Seq(Sample) /\ taken \in Seq(Sample)

(* The cells the device may be writing and those the demodulator may be    *)
(* reading are never the same, though each side reserves against a stale   *)
(* view of the other's index and a purge moves tail without the device     *)
(* knowing.                                                                *)
SpansDisjoint == Span(head, grant) \cap Span(tail, Used(head, tail)) = {}

(* A span handed out by input_ring_read_reserve() keeps its samples until  *)
(* it is released: full_demod() runs on the ring's own memory.             *)
HeldIntact == held > 0 => at = tail /\ held <= Used(head, tail) /\ Content(at, held) = block

(* Both indices stay on I/Q pair boundaries although the usable capacity   *)
(* is odd, so that no pair is torn or swapped at the wrap or when the ring *)
(* is full.                                                                *)
PairsWhole == head % 2 = 0 /\ tail % 2 = 0 /\ held % 2 = 0

(* What is in the ring, oldest first.                                      *)
Queue == INSTANCE SampleQueue
           WITH Samples <- Sample, Limit <- Capacity - 1,
                queue <- Content(tail, Used(head, tail))

(* The ring implements a bounded first-in first-out queue: a commit        *)
(* appends exactly what was written, a release takes exactly the oldest    *)
(* samples as they were committed, a purge forgets a prefix.               *)
ImplementsQueue == Queue!Spec

(* Samples of an older generation than the last purge taken.               *)
Stale == {i \in Span(tail, Used(head, tail)) : cells[i].gen < purged}

(* What gets past a purge is at most one reservation, the one whose        *)
(* generation check had already passed when the generation moved.          *)
StaleIsOneReservation ==
    dem \notin {"purge", "discard"} => \A i, j \in Stale : cells[i].first = cells[j].first

(* Where the indices are, device and demodulator touch different cells,    *)
(* and a purge leaves no more behind than one reservation.                 *)
RingSound == TypeOK /\ SpansDisjoint /\ StaleIsOneReservation

(* Samples in the ring are read or purged, for all that a commit may       *)
(* signal nobody, unless the stream ends.                                  *)
SamplesMove == ~IsEmpty /\ ~exit ~> IsEmpty \/ exit

(* A stop ends the demodulator even while it waits for samples that never  *)
(* come.                                                                   *)
StopEndsDemod == exit ~> dem = "gone"

(* Claimed by the comment in input_ring_wait_for_data(): with the second   *)
(* look under the lock, the demodulator does not sleep out its timeout     *)
(* over samples that have been committed; a signal is on its way.          *)
NoSleepOverSamples == dem = "asleep" /\ ~IsEmpty => dev = "signal"
=============================================================================
