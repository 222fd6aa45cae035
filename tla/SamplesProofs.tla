--------------------------- MODULE SamplesProofs ---------------------------
(***************************************************************************)
(* The path of the samples, for every value of the constants: the input    *)
(* ring between the device and the demodulator, the capture writer beside  *)
(* it and the worker pool behind it, in this order.  The three share no    *)
(* state, and each has an inductive invariant of its own.                  *)
(*                                                                         *)
(* The ring, for every capacity, read size, stream length and number of    *)
(* purges: its type invariant, the disjointness of the two threads' spans, *)
(* the integrity of a span the demodulator works on in place, the          *)
(* wholeness of I/Q pairs, and that the ring implements SampleQueue.       *)
(*                                                                         *)
(* The capture writer, for every format, block size, number of blocks,     *)
(* limit and length of the capture: no block is lost or given back twice,  *)
(* wherever a write or a flush fails and whenever the capture is closed or *)
(* aborted.                                                                *)
(*                                                                         *)
(* The worker pool, for every number of batches.  A worker may be an epoch *)
(* late, so that where a worker is says nothing by itself: the invariant   *)
(* ties its place to whether its local_epoch is the epoch of the latest    *)
(* call.                                                                   *)
(***************************************************************************)
EXTENDS InputRing, IqCapture, WorkerPool, SequenceTheorems, TLAPS

(* The input ring.                                                         *)

Writing == {"write", "check", "commit", "store"}
Written == {"check", "commit", "store"}

(* All of TypeOK but the contents of cells and the two histories.          *)
IndexInv ==
    /\ head \in Index /\ tail \in Index /\ snap \in Index /\ at \in Index
    /\ gen \in 0 .. MaxPurges /\ noted \in 0 .. MaxPurges /\ purged \in 0 .. MaxPurges
    /\ purge \in BOOLEAN /\ exit \in BOOLEAN /\ asking \in BOOLEAN /\ signal \in BOOLEAN
    /\ dev \in {"idle", "note", "reserve", "write", "check", "commit", "store", "signal"}
    /\ dem \in {"top", "purge", "discard", "look", "lock", "asleep", "reserve", "held",
                "prepared", "demod", "gone"}
    /\ sent \in 0 .. MaxFloats /\ need \in 0 .. MaxFloats - sent
    /\ grant \in 0 .. need /\ held \in 0 .. Capacity - 1

ParityInv ==
    head % 2 = 0 /\ tail % 2 = 0 /\ snap % 2 = 0 /\ grant % 2 = 0 /\ held % 2 = 0

(* The device's reservation fits in what is free, whatever tail does; the  *)
(* head a purge noted is not behind tail; a held span starts at tail.      *)
RoomInv ==
    /\ dev \notin Writing => grant = 0
    /\ Used(head, tail) + grant <= Capacity - 1
    /\ dem = "discard" => Used(head, snap) <= Used(head, tail)
    /\ held > 0 => dem \in {"held", "prepared", "demod"} /\ at = tail /\ held <= Used(head, tail)

(* Committed cells, and written ones, hold samples of the stream.          *)
CellInv ==
    /\ cells \in [Index -> Sample \cup {Unwritten}]
    /\ \A i \in Index : Used(i, tail) < Used(head, tail) => cells[i] \in Sample
    /\ dev \in Written => \A i \in Index : Used(i, head) < grant => cells[i] \in Sample

BlockInv ==
    /\ block \in Seq(Sample) /\ taken \in Seq(Sample)
    /\ held > 0 => Content(at, held) = block

IInv == IndexInv /\ ParityInv /\ RoomInv /\ CellInv /\ BlockInv

-----------------------------------------------------------------------------
(* Ring arithmetic.                                                        *)

(* A difference of two indices is within the buffer.                       *)
LEMMA UsedType == ASSUME NEW h \in Index, NEW t \in Index PROVE Used(h, t) \in 0 .. Capacity - 1
  BY CapacityAssumption DEF Used, Index

LEMMA WrapType ==
    ASSUME NEW i \in Index, NEW n \in 0 .. Capacity PROVE Wrap(i + n) \in Index
  BY CapacityAssumption DEF Wrap, Index

(* A cell belongs to a span exactly if its distance from the start does.   *)
LEMMA SpanIsDistance ==
    ASSUME NEW t \in Index, NEW n \in 0 .. Capacity, NEW i
    PROVE  i \in Span(t, n) <=> i \in Index /\ Used(i, t) < n
  <1>1. ASSUME NEW k \in 0 .. n - 1 PROVE Wrap(t + k) \in Index /\ Used(Wrap(t + k), t) = k
    BY CapacityAssumption DEF Wrap, Used, Index
  <1>2. ASSUME i \in Index, Used(i, t) < n PROVE Used(i, t) \in 0 .. n - 1 /\ i = Wrap(t + Used(i, t))
    BY <1>2, CapacityAssumption DEF Wrap, Used, Index
  <1> QED BY <1>1, <1>2 DEF Span

(* Moving head by a reservation that fits, and what is then in the ring.   *)
LEMMA CommitUsed ==
    ASSUME NEW h \in Index, NEW t \in Index, NEW n \in Nat, Used(h, t) + n <= Capacity - 1
    PROVE  /\ Wrap(h + n) \in Index
           /\ Used(Wrap(h + n), t) = Used(h, t) + n
           /\ \A i \in Index : Used(i, t) < Used(h, t) + n => Used(i, t) < Used(h, t) \/ Used(i, h) < n
  BY CapacityAssumption DEF Wrap, Used, Index

(* Moving tail over what is there.                                         *)
LEMMA ReleaseUsed ==
    ASSUME NEW h \in Index, NEW t \in Index, NEW n \in Nat, n <= Used(h, t)
    PROVE  /\ Wrap(t + n) \in Index
           /\ Used(h, Wrap(t + n)) = Used(h, t) - n
           /\ \A i \in Index : Used(i, Wrap(t + n)) < Used(h, t) - n => Used(i, t) < Used(h, t)
  BY CapacityAssumption DEF Wrap, Used, Index

(* Moving tail to an index between it and head.                            *)
LEMMA DiscardUsed ==
    ASSUME NEW h \in Index, NEW t \in Index, NEW s \in Index, Used(h, s) <= Used(h, t)
    PROVE  \A i \in Index : Used(i, s) < Used(h, s) => Used(i, t) < Used(h, t)
  BY CapacityAssumption DEF Used, Index

(* A reservation that fits is apart from what is in the ring.              *)
LEMMA Apart ==
    ASSUME NEW h \in Index, NEW t \in Index, NEW n \in Nat, Used(h, t) + n <= Capacity - 1,
           NEW i \in Index, Used(i, h) < n
    PROVE  ~(Used(i, t) < Used(h, t))
  BY CapacityAssumption DEF Used, Index

(* The distance of the k-th cell of a span.                                *)
LEMMA CellOfSpan ==
    ASSUME NEW t \in Index, NEW n \in 0 .. Capacity, NEW k \in 1 .. n
    PROVE  Wrap(t + k - 1) \in Index /\ Used(Wrap(t + k - 1), t) < n
  BY CapacityAssumption DEF Wrap, Used, Index

LEMMA WrapEven ==
    ASSUME NEW i \in Index, NEW n \in 0 .. Capacity, i % 2 = 0, n % 2 = 0
    PROVE  Wrap(i + n) % 2 = 0
  BY CapacityAssumption DEF Wrap, Index

LEMMA UsedEven ==
    ASSUME NEW h \in Index, NEW t \in Index, h % 2 = 0, t % 2 = 0
    PROVE  Used(h, t) % 2 = 0
  BY CapacityAssumption DEF Used, Index

(* rtl_even_split_ring_reserve() grants whole pairs, and no more.          *)
LEMMA EvenSplitType ==
    ASSUME NEW g \in Nat, NEW e \in Nat
    PROVE  /\ EvenSplit(g, e) \in 0 .. g
           /\ EvenSplit(g, e) % 2 = 0
  BY DEF EvenSplit, Even

(* What is in a span of samples is a sequence of samples.                  *)
LEMMA ContentIsSeq ==
    ASSUME NEW t \in Index, NEW n \in 0 .. Capacity,
           \A i \in Index : Used(i, t) < n => cells[i] \in Sample
    PROVE  Content(t, n) \in Seq(Sample)
  <1>1. \A k \in 1 .. n : cells[Wrap(t + k - 1)] \in Sample
    BY CellOfSpan
  <1>2. Content(t, n) \in [1 .. n -> Sample]
    BY <1>1 DEF Content
  <1>3. n \in Nat
    BY CapacityAssumption
  <1> QED BY <1>2, <1>3, SeqDef

-----------------------------------------------------------------------------
(* The invariant holds initially.                                          *)
LEMMA InitInv == Init => IInv
  <1> SUFFICES ASSUME Init PROVE IInv
    OBVIOUS
  <1> USE CapacityAssumption, MaxFloatsAssumption, MaxPurgesAssumption DEF Init
  <1>1. IndexInv
    BY DEF IndexInv, Index
  <1>2. ParityInv
    BY DEF ParityInv
  <1>3. Used(head, tail) = 0 /\ \A i \in Index : ~(Used(i, tail) < 0)
    BY UsedType DEF Used, Index
  <1>4. RoomInv
    BY <1>3 DEF RoomInv, Writing
  <1>5. CellInv
    BY <1>3 DEF CellInv, Written
  <1>6. BlockInv
    BY DEF BlockInv
  <1> QED BY <1>1, <1>2, <1>4, <1>5, <1>6 DEF IInv

(* Steps that move neither index nor reservation nor sample.               *)
LEMMA QuietStep ==
    ASSUME IInv, IndexInv', UNCHANGED <<cells, head, tail, grant, held, at, snap, block, taken>>,
           dev' \notin Writing => dev \notin Writing,
           dev' \in Written => dev \in Written,
           dem' = "discard" => dem = "discard",
           held > 0 => dem' \in {"held", "prepared", "demod"}
    PROVE  IInv'
  <1>1. ParityInv'
    BY DEF IInv, ParityInv
  <1>2. RoomInv'
    BY DEF IInv, RoomInv, Used
  <1>3. CellInv'
    BY DEF IInv, CellInv, Used
  <1>4. BlockInv'
    BY DEF IInv, BlockInv, Content
  <1> QED BY <1>1, <1>2, <1>3, <1>4 DEF IInv

-----------------------------------------------------------------------------
(* The device callback.                                                    *)

LEMMA ReserveStep == ASSUME IInv, Reserve PROVE IInv'
  <1> USE DEF IInv, IndexInv
  <1> DEFINE granted == EvenSplit(AtMost(need, Free(head, tail)), Capacity - head)
  <1>1. /\ AtMost(need, Free(head, tail)) \in Nat
        /\ AtMost(need, Free(head, tail)) <= need
        /\ Used(head, tail) + AtMost(need, Free(head, tail)) <= Capacity - 1
    BY UsedType, CapacityAssumption, MaxFloatsAssumption DEF AtMost, Free, RoomInv
  <1>2. Capacity - head \in Nat
    BY CapacityAssumption DEF Index
  <1>3. /\ granted \in 0 .. need /\ granted % 2 = 0
        /\ Used(head, tail) + granted <= Capacity - 1
    <2> DEFINE wanted == AtMost(need, Free(head, tail))
    <2>1. granted \in 0 .. wanted /\ granted % 2 = 0
      BY <1>1, <1>2, EvenSplitType
    <2>2. Used(head, tail) \in 0 .. Capacity - 1
      BY UsedType
    <2> HIDE DEF granted, wanted
    <2>3. wanted \in Nat /\ wanted <= need /\ Used(head, tail) + wanted <= Capacity - 1
      BY <1>1 DEF wanted
    <2> QED BY <2>1, <2>2, <2>3, MaxFloatsAssumption, CapacityAssumption
  <1>4. grant' = granted /\ dev' = (IF granted = 0 THEN "idle" ELSE "write")
    BY DEF Reserve
  <1>5. /\ sent' = IF granted = 0 THEN sent + need ELSE sent
        /\ need' = IF granted = 0 THEN 0 ELSE need
    BY DEF Reserve
  <1>6. UNCHANGED <<noted, signal, cells, head, tail, purge, exit, demVars, askVars>>
    BY DEF Reserve, DevRest
  <1> HIDE DEF granted
  <1> USE <1>3, <1>4, <1>5, <1>6 DEF demVars, askVars
  <1>7. IndexInv'
    BY MaxFloatsAssumption
  <1>8. ParityInv'
    BY DEF ParityInv
  <1>9. RoomInv'
    BY DEF RoomInv, Writing, Used
  <1>10. CellInv'
    BY DEF CellInv, Written, Used
  <1>11. BlockInv'
    BY DEF BlockInv, Content
  <1> QED BY <1>7, <1>8, <1>9, <1>10, <1>11

LEMMA WriteStep == ASSUME IInv, Write PROVE IInv'
  <1> USE DEF IInv
  <1>1. UNCHANGED <<need, sent, noted, grant, signal, head, tail, purge, exit, demVars, askVars>>
    BY DEF Write, DevRest
  <1>2. dev = "write" /\ dev' = "check"
    BY DEF Write
  <1>3. grant \in 0 .. Capacity /\ grant \in Nat
    BY UsedType, CapacityAssumption, MaxFloatsAssumption DEF RoomInv, IndexInv
  <1>4. \A i \in Index : i \in Span(head, grant) <=> Used(i, head) < grant
    BY <1>3, SpanIsDistance DEF IndexInv
  <1>5. cells' = [i \in Index |->
                   IF i \in Span(head, grant)
                     THEN [seq |-> sent + Used(i, head) + 1, first |-> sent + 1, gen |-> noted]
                     ELSE cells[i]]
    BY DEF Write
  <1>6. ASSUME NEW i \in Index, Used(i, head) < grant PROVE cells'[i] \in Sample
    <2>1. cells'[i] = [seq |-> sent + Used(i, head) + 1, first |-> sent + 1, gen |-> noted]
      BY <1>4, <1>5, <1>6
    <2>2. Used(i, head) \in Nat
      BY UsedType, CapacityAssumption DEF IndexInv
    <2>3. sent + Used(i, head) + 1 \in 1 .. MaxFloats /\ sent + 1 \in 1 .. MaxFloats
      BY <1>6, <2>2, MaxFloatsAssumption DEF IndexInv
    <2> QED BY <2>1, <2>3 DEF Sample, IndexInv
  <1>7. ASSUME NEW i \in Index, ~(Used(i, head) < grant) PROVE cells'[i] = cells[i]
    BY <1>4, <1>5, <1>7
  <1>8. ASSUME NEW i \in Index, Used(i, tail) < Used(head, tail) PROVE cells'[i] = cells[i]
    BY <1>3, <1>7, <1>8, Apart DEF IndexInv, RoomInv
  <1>9. IndexInv'
    BY <1>1, <1>2 DEF IndexInv, demVars, askVars
  <1>10. ParityInv'
    BY <1>1 DEF ParityInv, demVars
  <1>11. RoomInv'
    BY <1>1, <1>2 DEF RoomInv, Writing, demVars, Used
  <1>12. cells' \in [Index -> Sample \cup {Unwritten}]
    <2>1. \A i \in Index : cells'[i] \in Sample \cup {Unwritten}
      BY <1>6, <1>7 DEF CellInv
    <2> QED BY <1>5, <2>1
  <1>13. head' = head /\ tail' = tail /\ grant' = grant
    BY <1>1
  <1>14. \A i \in Index : Used(i, tail') < Used(head', tail') => cells'[i] \in Sample
    BY <1>8, <1>13 DEF CellInv
  <1>15. \A i \in Index : Used(i, head') < grant' => cells'[i] \in Sample
    BY <1>6, <1>13
  <1>16. CellInv'
    BY <1>12, <1>14, <1>15 DEF CellInv, Used
  <1>17. ASSUME held > 0 PROVE Content(at, held)' = Content(at, held)
    <2>1. at = tail /\ held <= Used(head, tail) /\ held \in 0 .. Capacity
      BY <1>17, CapacityAssumption DEF RoomInv, IndexInv
    <2>2. \A k \in 1 .. held : cells'[Wrap(at + k - 1)] = cells[Wrap(at + k - 1)]
      <3> TAKE k \in 1 .. held
      <3>1. Wrap(at + k - 1) \in Index /\ Used(Wrap(at + k - 1), tail) < held
        BY <2>1, CellOfSpan DEF IndexInv
      <3>2. Used(Wrap(at + k - 1), tail) < Used(head, tail)
        BY <2>1, <3>1, UsedType, CapacityAssumption DEF IndexInv
      <3> QED BY <1>8, <3>1, <3>2
    <2>3. at' = at /\ held' = held
      BY <1>1 DEF demVars
    <2> QED BY <2>2, <2>3 DEF Content, Wrap
  <1>18. BlockInv'
    BY <1>1, <1>17 DEF BlockInv, demVars
  <1> QED BY <1>9, <1>10, <1>11, <1>16, <1>18

(* A reservation dropped because of a purge leaves the ring as it is.      *)
LEMMA CheckGenerationStep == ASSUME IInv, CheckGeneration PROVE IInv'
  <1> USE DEF IInv
  <1>1. CASE gen = noted
    <2>1. /\ dev = "check" /\ dev' = "commit"
          /\ UNCHANGED <<need, sent, grant, noted, signal, cells, head, tail, purge, exit, demVars, askVars>>
      BY <1>1 DEF CheckGeneration, DevRest
    <2>2. IndexInv'
      BY <2>1 DEF IndexInv, demVars, askVars
    <2> QED BY <2>1, <2>2, QuietStep DEF Writing, Written, RoomInv, demVars
  <1>2. CASE gen # noted
    <2>1. /\ dev' = "idle" /\ sent' = sent + need /\ need' = 0 /\ grant' = 0
          /\ UNCHANGED <<noted, signal, cells, head, tail, purge, exit, demVars, askVars>>
      BY <1>2 DEF CheckGeneration, DevRest
    <2> USE <2>1 DEF demVars, askVars
    <2>2. IndexInv'
      BY MaxFloatsAssumption DEF IndexInv
    <2>3. ParityInv'
      BY DEF ParityInv
    <2>4. Used(head, tail) \in 0 .. Capacity - 1
      BY UsedType DEF IndexInv
    <2>5. RoomInv'
      BY <2>4, CapacityAssumption DEF RoomInv, Used
    <2>6. CellInv'
      BY DEF CellInv, Written, Used
    <2>7. BlockInv'
      BY DEF BlockInv, Content
    <2> QED BY <2>2, <2>3, <2>5, <2>6, <2>7
  <1> QED BY <1>1, <1>2

(* A commit turns the reservation into content.                            *)
LEMMA StoreHeadStep == ASSUME IInv, StoreHead PROVE IInv'
  <1> USE DEF IInv
  <1>1. /\ dev = "store" /\ head' = Wrap(head + grant) /\ sent' = sent + grant
        /\ need' = need - grant /\ grant' = 0
        /\ UNCHANGED <<noted, signal, cells, tail, purge, exit, demVars, askVars>>
    BY DEF StoreHead, DevRest
  <1>2. dev' \in {"idle", "note", "signal"}
    BY DEF StoreHead, AfterCommit
  <1>3. /\ head \in Index /\ tail \in Index /\ snap \in Index /\ grant \in Nat
        /\ Used(head, tail) + grant <= Capacity - 1
    BY MaxFloatsAssumption DEF IndexInv, RoomInv
  <1>4. Used(head, tail) \in 0 .. Capacity - 1 /\ Used(head, snap) \in 0 .. Capacity - 1
    BY <1>3, UsedType
  <1>5. /\ head' \in Index
        /\ Used(head', tail) = Used(head, tail) + grant
        /\ \A i \in Index : Used(i, tail) < Used(head', tail) =>
                              Used(i, tail) < Used(head, tail) \/ Used(i, head) < grant
    BY <1>1, <1>3, CommitUsed
  <1>6. dem = "discard" => Used(head', snap) <= Used(head', tail)
    <2> SUFFICES ASSUME dem = "discard" PROVE Used(head', snap) <= Used(head', tail)
      OBVIOUS
    <2>1. Used(head, snap) <= Used(head, tail)
      BY DEF RoomInv
    <2>2. Used(head, snap) + grant <= Capacity - 1
      BY <1>3, <1>4, <2>1, CapacityAssumption
    <2>3. Used(head', snap) = Used(head, snap) + grant
      BY <1>1, <1>3, <2>2, CommitUsed
    <2> QED BY <1>3, <1>4, <1>5, <2>1, <2>3
  <1>7. IndexInv'
    BY <1>1, <1>2, <1>5, MaxFloatsAssumption DEF IndexInv, demVars, askVars
  <1>8. ParityInv'
    <2>1. grant \in 0 .. Capacity
      BY <1>3, <1>4, CapacityAssumption
    <2>2. Wrap(head + grant) % 2 = 0
      BY <1>3, <2>1, WrapEven DEF ParityInv
    <2> QED BY <1>1, <2>2 DEF ParityInv, demVars
  <1>9. Used(head', tail') = Used(head', tail) /\ Used(head', snap') = Used(head', snap)
    BY <1>1 DEF demVars
  <1>10. RoomInv'
    <2>1. Used(head', tail') + grant' <= Capacity - 1
      BY <1>1, <1>3, <1>4, <1>5, <1>9, CapacityAssumption
    <2>2. dem' = "discard" => Used(head', snap') <= Used(head', tail')
      BY <1>1, <1>6, <1>9 DEF demVars
    <2>3. held > 0 => held <= Used(head', tail')
      BY <1>3, <1>4, <1>5, <1>9, CapacityAssumption DEF RoomInv, IndexInv
    <2>4. held > 0 => dem \in {"held", "prepared", "demod"} /\ at = tail
      BY DEF RoomInv
    <2> QED BY <1>1, <1>2, <2>1, <2>2, <2>3, <2>4 DEF RoomInv, Writing, demVars, Used
  <1>11. CellInv'
    <2>1. \A i \in Index : Used(i, tail') < Used(head', tail') => cells'[i] \in Sample
      BY <1>1, <1>5, <1>9 DEF CellInv, Written
    <2> QED BY <1>1, <1>2, <2>1 DEF CellInv, Written, Used
  <1>12. BlockInv'
    BY <1>1 DEF BlockInv, Content, demVars
  <1> QED BY <1>7, <1>8, <1>10, <1>11, <1>12

-----------------------------------------------------------------------------
(* The demodulator.                                                        *)

(* It holds no span outside the three states in which it works on one.     *)
LEMMA HoldsNothing ==
    ASSUME IInv, dem \notin {"held", "prepared", "demod"}
    PROVE  held = 0
  BY CapacityAssumption DEF IInv, IndexInv, RoomInv

LEMMA DiscardReadsStep == ASSUME IInv, DiscardReads PROVE IInv'
  <1> USE DEF IInv
  <1>1. /\ dem = "purge" /\ dem' = "discard" /\ snap' = head
        /\ UNCHANGED <<tail, purge, at, held, block, taken, purged, cells, head, exit, devVars, askVars>>
    BY DEF DiscardReads, DemRest
  <1>2. held = 0
    BY <1>1, HoldsNothing
  <1> USE <1>1 DEF devVars, askVars
  <1>3. IndexInv'
    BY DEF IndexInv
  <1>4. ParityInv'
    BY DEF ParityInv
  <1>5. Used(head, head) = 0 /\ Used(head, tail) \in 0 .. Capacity - 1
    BY UsedType DEF Used, IndexInv, Index
  <1>6. RoomInv'
    BY <1>2, <1>5, CapacityAssumption DEF RoomInv, Used
  <1>7. CellInv'
    BY DEF CellInv, Used
  <1>8. BlockInv'
    BY <1>2 DEF BlockInv
  <1> QED BY <1>3, <1>4, <1>6, <1>7, <1>8

LEMMA DiscardStoresStep == ASSUME IInv, DiscardStores PROVE IInv'
  <1> USE DEF IInv
  <1>1. /\ dem = "discard" /\ dem' = "top" /\ tail' = snap
        /\ UNCHANGED <<purge, at, held, snap, block, taken, purged, cells, head, exit, devVars, askVars>>
    BY DEF DiscardStores, DemRest
  <1>2. held = 0
    BY <1>1, HoldsNothing
  <1>3. /\ head \in Index /\ tail \in Index /\ snap \in Index
        /\ Used(head, snap) <= Used(head, tail)
    BY <1>1 DEF IndexInv, RoomInv
  <1>4. Used(head, tail) \in 0 .. Capacity - 1 /\ Used(head, snap) \in 0 .. Capacity - 1
    BY <1>3, UsedType
  <1> USE <1>1 DEF devVars, askVars
  <1>5. IndexInv'
    BY DEF IndexInv
  <1>6. ParityInv'
    BY DEF ParityInv
  <1>7. head' = head /\ tail' = snap /\ cells' = cells
    OBVIOUS
  <1>8. RoomInv'
    <2>1. Used(head, snap) + grant <= Capacity - 1
      BY <1>3, <1>4, CapacityAssumption, MaxFloatsAssumption DEF RoomInv, IndexInv
    <2> QED BY <1>2, <2>1 DEF RoomInv, Used
  <1>9. CellInv'
    <2>1. \A i \in Index : Used(i, snap) < Used(head, snap) => cells[i] \in Sample
      BY <1>3, DiscardUsed DEF CellInv
    <2> QED BY <2>1 DEF CellInv, Used
  <1>10. BlockInv'
    BY <1>2 DEF BlockInv
  <1> QED BY <1>5, <1>6, <1>8, <1>9, <1>10

LEMMA ReadReserveStep == ASSUME IInv, ReadReserve PROVE IInv'
  <1> USE DEF IInv
  <1> DEFINE n == AtMost(MaxRead, Used(head, tail))
  <1>1. /\ dem = "reserve" /\ dem' = "held" /\ at' = tail /\ held' = n
        /\ UNCHANGED <<tail, purge, snap, taken, purged, cells, head, exit, devVars, askVars>>
    BY DEF ReadReserve, DemRest
  <1>2. block' = Content(tail, n)
    BY DEF ReadReserve
  <1>3. head \in Index /\ tail \in Index /\ Used(head, tail) \in 0 .. Capacity - 1
    BY UsedType DEF IndexInv
  <1>4. Used(head, tail) % 2 = 0
    BY <1>3, UsedEven DEF ParityInv
  <1>5. n \in 0 .. Capacity - 1 /\ n <= Used(head, tail) /\ n % 2 = 0
    BY <1>3, <1>4, CapacityAssumption, MaxReadAssumption DEF AtMost
  <1> HIDE DEF n
  <1>6. IndexInv'
    BY <1>1, <1>3, <1>5 DEF IndexInv, devVars, askVars
  <1>7. ParityInv'
    BY <1>1, <1>5 DEF ParityInv, devVars
  <1>8. RoomInv'
    BY <1>1, <1>5 DEF RoomInv, devVars, Used
  <1>9. CellInv'
    BY <1>1 DEF CellInv, devVars, Used
  <1>10. Content(tail, n) \in Seq(Sample)
    <2>1. n \in 0 .. Capacity
      BY <1>5, CapacityAssumption
    <2>2. \A i \in Index : Used(i, tail) < n => cells[i] \in Sample
      <3> TAKE i \in Index
      <3>1. Used(i, tail) \in 0 .. Capacity - 1
        BY <1>3, UsedType
      <3> QED BY <1>3, <1>5, <3>1, CapacityAssumption DEF CellInv
    <2> QED BY <1>3, <2>1, <2>2, ContentIsSeq
  <1>11. BlockInv'
    <2>1. Content(at, held)' = Content(tail, n)
      BY <1>1 DEF Content, Wrap
    <2> QED BY <1>1, <1>2, <1>10, <2>1 DEF BlockInv
  <1> QED BY <1>6, <1>7, <1>8, <1>9, <1>11

(* What releasing the held span does, from any state that holds one.       *)
LEMMA ReleaseStep ==
    ASSUME IInv, held > 0, ReadCommit, dem' \in {"prepared", "top"},
           UNCHANGED <<purge, at, snap, block, purged, cells, head, exit, devVars, askVars>>
    PROVE  IInv'
  <1> USE DEF IInv
  <1>1. /\ head \in Index /\ tail \in Index /\ held \in Nat /\ held <= Used(head, tail)
        /\ held \in 0 .. Capacity
    BY CapacityAssumption DEF IndexInv, RoomInv
  <1>2. Used(head, tail) \in 0 .. Capacity - 1
    BY <1>1, UsedType
  <1>3. AtMost(held, Used(head, tail)) = held
    BY <1>1, <1>2, CapacityAssumption DEF AtMost
  <1>4. tail' = Wrap(tail + held) /\ taken' = Content(at, held) /\ held' = 0
    BY <1>3 DEF ReadCommit
  <1>5. /\ tail' \in Index
        /\ Used(head, tail') = Used(head, tail) - held
        /\ \A i \in Index : Used(i, tail') < Used(head, tail') => Used(i, tail) < Used(head, tail)
    BY <1>1, <1>4, ReleaseUsed
  <1>6. IndexInv'
    BY <1>4, <1>5, CapacityAssumption DEF IndexInv, devVars, askVars
  <1>7. ParityInv'
    <2>1. Wrap(tail + held) % 2 = 0
      BY <1>1, WrapEven DEF ParityInv
    <2> QED BY <1>4, <2>1 DEF ParityInv, devVars
  <1>8. Used(head', tail') = Used(head, tail') /\ grant' = grant /\ dev' = dev
    BY DEF devVars
  <1>9. RoomInv'
    <2>1. Used(head', tail') + grant' <= Capacity - 1
      BY <1>1, <1>2, <1>5, <1>8, CapacityAssumption, MaxFloatsAssumption DEF RoomInv, IndexInv
    <2> QED BY <1>4, <1>8, <2>1 DEF RoomInv, Used
  <1>10. CellInv'
    <2>1. \A i \in Index : Used(i, tail') < Used(head', tail') => cells'[i] \in Sample
      BY <1>5, <1>8 DEF CellInv
    <2> QED BY <1>8, <2>1 DEF CellInv, Used
  <1>11. BlockInv'
    BY <1>4 DEF BlockInv
  <1> QED BY <1>6, <1>7, <1>9, <1>10, <1>11

(* Preparing, dropping or having demodulated a block.                      *)
LEMMA BlockStep == ASSUME IInv, Prepare \/ DropBlock \/ Demodulated PROVE IInv'
  <1> USE DEF IInv
  <1>1. /\ dem' \in {"prepared", "top"}
        /\ UNCHANGED <<purge, at, snap, block, purged, cells, head, exit, devVars, askVars>>
    BY DEF Prepare, DropBlock, Demodulated, DemRest
  <1>2. held = 0 \/ held > 0
    BY CapacityAssumption DEF IndexInv
  <1>3. CASE held > 0 /\ ReadCommit
    BY <1>1, <1>3, ReleaseStep
  <1>4. CASE UNCHANGED <<tail, taken, held>>
    <2>1. held > 0 => dem' = "prepared"
      BY <1>4, CapacityAssumption DEF Prepare, DropBlock, Demodulated, ReadCommit, IndexInv
    <2>2. IndexInv'
      BY <1>1, <1>4 DEF IndexInv, devVars, askVars
    <2> QED BY <1>1, <1>4, <2>1, <2>2, QuietStep DEF devVars
  <1>5. IsWrapped => held > 0
    BY CapacityAssumption DEF IsWrapped, IndexInv, Index
  <1> QED BY <1>3, <1>4, <1>5 DEF Prepare, DropBlock, Demodulated

-----------------------------------------------------------------------------
(* Every step keeps the invariant.                                         *)
LEMMA StepInv == IInv /\ [Next]_vars => IInv'
  <1> SUFFICES ASSUME IInv, [Next]_vars PROVE IInv'
    OBVIOUS
  <1> USE CapacityAssumption, MaxFloatsAssumption, MaxPurgesAssumption
  <1> USE DEF Writing, Written, devVars, demVars, askVars
  <1>0. IndexInv
    BY DEF IInv
  <1>1. ASSUME NEW n \in 1 .. MaxFloats, Receive(n) PROVE IInv'
    <2>1. grant = 0
      BY <1>1 DEF Receive, IInv, RoomInv
    <2>2. IndexInv'
      BY <1>0, <1>1, <2>1 DEF IndexInv, Receive, DevRest
    <2> QED BY <1>1, <2>2, QuietStep DEF Receive, DevRest, IInv, RoomInv
  <1>2. CASE NoteGeneration
    <2>1. IndexInv'
      BY <1>0, <1>2 DEF IndexInv, NoteGeneration, DevRest
    <2> QED BY <1>2, <2>1, QuietStep DEF NoteGeneration, DevRest, IInv, RoomInv
  <1>3. CASE LookBeforeCommit
    <2>1. IndexInv'
      BY <1>0, <1>3 DEF IndexInv, LookBeforeCommit, IsEmpty, DevRest
    <2> QED BY <1>3, <2>1, QuietStep DEF LookBeforeCommit, DevRest, IInv, RoomInv
  <1>4. CASE SignalReady
    <2>1. IndexInv'
      BY <1>0, <1>4 DEF IndexInv, SignalReady, AfterCommit
    <2> QED BY <1>4, <2>1, QuietStep DEF SignalReady, AfterCommit, IInv, RoomInv
  <1>5. CASE Top
    <2>1. IndexInv'
      BY <1>0, <1>5 DEF IndexInv, Top, DemRest
    <2> QED BY <1>5, <2>1, QuietStep, HoldsNothing DEF Top, DemRest
  <1>6. CASE Look \/ LookUnderLock \/ WaitTimesOut
    <2>1. IndexInv'
      BY <1>0, <1>6 DEF IndexInv, Look, LookUnderLock, WaitTimesOut, DemRest
    <2> QED BY <1>6, <2>1, QuietStep, HoldsNothing DEF Look, LookUnderLock, WaitTimesOut, DemRest
  <1>7. CASE KeepBlock
    <2>1. IndexInv'
      BY <1>0, <1>7 DEF IndexInv, KeepBlock, DemRest
    <2> QED BY <1>7, <2>1, QuietStep DEF KeepBlock, DemRest
  <1>8. CASE AskGeneration \/ AskFlag
    <2>1. gen' \in 0 .. MaxPurges
      BY <1>0, <1>8 DEF IndexInv, AskGeneration, AskFlag
    <2>2. purge' \in BOOLEAN /\ asking' \in BOOLEAN
      BY <1>0, <1>8, Zenon DEF IndexInv, AskGeneration, AskFlag
    <2>3. UNCHANGED <<cells, head, tail, exit, devVars, demVars>>
      BY <1>8 DEF AskGeneration, AskFlag, AskRest
    <2>4. IndexInv'
      BY <1>0, <2>1, <2>2, <2>3 DEF IndexInv
    <2> QED BY <2>3, <2>4, QuietStep DEF IInv, RoomInv
  <1>9. CASE Stop
    <2>1. IndexInv'
      BY <1>0, <1>9 DEF IndexInv, Stop
    <2> QED BY <1>9, <2>1, QuietStep DEF Stop, IInv, RoomInv
  <1>10. CASE UNCHANGED vars
    <2>1. IndexInv'
      BY <1>0, <1>10 DEF IndexInv, vars
    <2> QED BY <1>10, <2>1, QuietStep DEF vars, IInv, RoomInv
  <1>11. DeviceStep => IInv'
    BY <1>1, <1>2, <1>3, <1>4, ReserveStep, WriteStep, CheckGenerationStep, StoreHeadStep
       DEF DeviceStep
  <1>12. DemodStep => IInv'
    BY <1>5, <1>6, <1>7, DiscardReadsStep, DiscardStoresStep, ReadReserveStep, BlockStep DEF DemodStep
  <1> QED BY <1>8, <1>9, <1>10, <1>11, <1>12 DEF Next, ControlStep

(* The invariant holds in every reachable state.                           *)
THEOREM InductiveInvariant == Spec => []IInv
  BY InitInv, StepInv, PTL DEF Spec

(* In such states every variable has its type, and the device's and the    *)
(* demodulator's spans are apart.                                          *)
LEMMA InvTypes == IInv => TypeOK
  BY DEF IInv, IndexInv, CellInv, BlockInv, TypeOK

LEMMA InvApart == IInv => SpansDisjoint
  <1> SUFFICES ASSUME IInv PROVE SpansDisjoint
    OBVIOUS
  <1>1. /\ head \in Index /\ tail \in Index /\ grant \in Nat
        /\ Used(head, tail) + grant <= Capacity - 1
    BY MaxFloatsAssumption DEF IInv, IndexInv, RoomInv
  <1>2. Used(head, tail) \in 0 .. Capacity /\ grant \in 0 .. Capacity
    BY <1>1, UsedType, CapacityAssumption
  <1>3. ASSUME NEW i, i \in Span(head, grant), i \in Span(tail, Used(head, tail)) PROVE FALSE
    <2>1. i \in Index /\ Used(i, head) < grant
      BY <1>1, <1>2, <1>3, SpanIsDistance
    <2>2. Used(i, tail) < Used(head, tail)
      BY <1>1, <1>2, <1>3, SpanIsDistance
    <2> QED BY <1>1, <2>1, <2>2, Apart
  <1> QED BY <1>3 DEF SpansDisjoint

(* HeldIntact: the span full_demod() works on in place keeps the samples   *)
(* it was handed out with until it is released.                            *)
THEOREM HeldSpanIntact == Spec => []HeldIntact
  <1>1. IInv => HeldIntact
    BY DEF IInv, RoomInv, BlockInv, HeldIntact
  <1> QED BY <1>1, InductiveInvariant, PTL

(* PairsWhole: no I/Q pair is torn, for any even capacity and read size.   *)
THEOREM PairsStayWhole == Spec => []PairsWhole
  <1>1. IInv => PairsWhole
    BY DEF IInv, ParityInv, PairsWhole
  <1> QED BY <1>1, InductiveInvariant, PTL

-----------------------------------------------------------------------------
(* What a purge leaves behind.                                             *)

Underway == {"reserve", "write", "check", "commit", "store"}

(* The oldest sample that stays once a purge under way is over, and the    *)
(* samples from there on that are older than the purge.                    *)
Base == IF dem = "discard" THEN snap ELSE tail
Left(i) == Used(i, Base) < Used(head, Base) /\ cells[i].gen < purged

(* Samples that stay are of one reservation, and of none while a           *)
(* reservation older than the purge is still to come.                      *)
StaleInv ==
    /\ purged <= gen /\ noted <= gen
    /\ dev \in Written =>
         \A i \in Index : Used(i, head) < grant => cells[i].gen = noted /\ cells[i].first = sent + 1
    /\ dem # "purge" => \A i, j \in Index : Left(i) /\ Left(j) => cells[i].first = cells[j].first
    /\ dem # "purge" /\ dev \in Underway /\ noted < purged => \A i \in Index : ~Left(i)

LEMMA InitStale == Init => StaleInv
  <1> SUFFICES ASSUME Init PROVE StaleInv
    OBVIOUS
  <1>1. \A i \in Index : ~Left(i)
    BY CapacityAssumption DEF Init, Left, Base, Used, Index
  <1> QED BY <1>1 DEF Init, StaleInv, Written

(* A step after which no more samples stay than before.                    *)
LEMMA StaleKept ==
    ASSUME StaleInv, purged' <= gen', noted' <= gen',
           (dev \in Written =>
             \A i \in Index : Used(i, head) < grant => cells[i].gen = noted /\ cells[i].first = sent + 1)',
           dem' # "purge" =>
             /\ dem # "purge" /\ purged' = purged
             /\ \A i \in Index : (Used(i, Base) < Used(head, Base))' =>
                                   Used(i, Base) < Used(head, Base) /\ cells'[i] = cells[i]
             /\ dev' \in Underway /\ noted' < purged' => dev \in Underway /\ noted < purged
    PROVE  StaleInv'
  <1>1. dem' # "purge" => \A i \in Index : Left(i)' => Left(i) /\ cells'[i] = cells[i]
    BY DEF Left
  <1>2. dem' # "purge" => (\A i, j \in Index : Left(i) /\ Left(j) => cells[i].first = cells[j].first)'
    BY <1>1 DEF StaleInv
  <1>3. dem' # "purge" /\ dev' \in Underway /\ noted' < purged' => \A i \in Index : ~Left(i)'
    BY <1>1 DEF StaleInv
  <1> QED BY <1>2, <1>3 DEF StaleInv

(* Steps that leave cells and indices alone.                               *)
LEMMA StaleQuiet ==
    ASSUME IInv, StaleInv, UNCHANGED <<cells, head, tail, snap, grant, sent>>,
           purged' <= gen', noted' <= gen',
           dem' # "purge" => dem # "purge" /\ purged' = purged /\ (dem' = "discard" <=> dem = "discard"),
           dev' \in Written => dev \in Written /\ noted' = noted,
           dev' \in Underway /\ noted' < purged' => dev \in Underway /\ noted' = noted
    PROVE  StaleInv'
  <1>1. (dev \in Written =>
          \A i \in Index : Used(i, head) < grant => cells[i].gen = noted /\ cells[i].first = sent + 1)'
    BY DEF StaleInv, Used
  <1>2. dem' # "purge" => Base' = Base
    BY DEF Base
  <1>3. dem' # "purge" => \A i \in Index : (Used(i, Base) < Used(head, Base))' =>
                                   Used(i, Base) < Used(head, Base) /\ cells'[i] = cells[i]
    BY <1>2 DEF Used
  <1> QED BY <1>1, <1>3, StaleKept

LEMMA BaseRoom ==
    ASSUME IInv
    PROVE  /\ Base \in Index /\ head \in Index /\ grant \in Nat
           /\ Used(head, Base) + grant <= Capacity - 1
  <1>1. head \in Index /\ tail \in Index /\ snap \in Index /\ grant \in Nat
    BY MaxFloatsAssumption DEF IInv, IndexInv
  <1>2. Used(head, tail) \in 0 .. Capacity - 1 /\ Used(head, snap) \in 0 .. Capacity - 1
    BY <1>1, UsedType
  <1>3. /\ Used(head, tail) + grant <= Capacity - 1
        /\ dem = "discard" => Used(head, snap) <= Used(head, tail)
    BY DEF IInv, RoomInv
  <1> QED BY <1>1, <1>2, <1>3, CapacityAssumption DEF Base

LEMMA StaleWrite == ASSUME IInv, StaleInv, Write PROVE StaleInv'
  <1>1. /\ UNCHANGED <<need, sent, noted, grant, head, tail, snap, dem, purged, gen>>
        /\ dev = "write" /\ dev' = "check"
    BY DEF Write, DevRest, demVars, askVars
  <1>2. Base' = Base /\ Base \in Index /\ head \in Index /\ grant \in Nat /\ Used(head, Base) + grant <= Capacity - 1
    BY <1>1, BaseRoom DEF Base
  <1>3. grant \in 0 .. Capacity
    BY <1>2, UsedType, CapacityAssumption
  <1>4. \A i \in Index : i \in Span(head, grant) <=> Used(i, head) < grant
    BY <1>2, <1>3, SpanIsDistance
  <1>5. \A i \in Index :
          cells'[i] = IF Used(i, head) < grant
                        THEN [seq |-> sent + Used(i, head) + 1, first |-> sent + 1, gen |-> noted]
                        ELSE cells[i]
    BY <1>4 DEF Write
  <1>6. ASSUME NEW i \in Index, Used(i, head) < grant
        PROVE  cells'[i].gen = noted /\ cells'[i].first = sent + 1
    <2>1. cells'[i] = [seq |-> sent + Used(i, head) + 1, first |-> sent + 1, gen |-> noted]
      BY <1>5, <1>6
    <2> QED BY <2>1
  <1>7. (\A i \in Index : Used(i, head) < grant => cells[i].gen = noted /\ cells[i].first = sent + 1)'
    BY <1>1, <1>6 DEF Used
  <1>8. \A i \in Index : Used(i, Base) < Used(head, Base) => cells'[i] = cells[i]
    BY <1>2, <1>5, Apart
  <1>9. \A i \in Index : (Used(i, Base) < Used(head, Base))' =>
                            Used(i, Base) < Used(head, Base) /\ cells'[i] = cells[i]
    BY <1>1, <1>2, <1>8 DEF Used
  <1> QED BY <1>1, <1>7, <1>9, StaleKept DEF StaleInv, Underway

(* A commit brings in one reservation, the first older than the purge if   *)
(* it is older at all.                                                     *)
LEMMA StaleStoreHead == ASSUME IInv, StaleInv, StoreHead PROVE StaleInv'
  <1>1. /\ dev = "store" /\ head' = Wrap(head + grant)
        /\ UNCHANGED <<noted, cells, tail, snap, dem, purged, gen>>
    BY DEF StoreHead, DevRest, demVars, askVars
  <1>2. dev' \notin Written /\ dev' \notin Underway
    BY DEF StoreHead, AfterCommit, Written, Underway
  <1>3. Base' = Base /\ Base \in Index /\ head \in Index /\ grant \in Nat /\ Used(head, Base) + grant <= Capacity - 1
    BY <1>1, BaseRoom DEF Base
  <1>4. /\ Used(head', Base) = Used(head, Base) + grant
        /\ \A i \in Index : Used(i, Base) < Used(head, Base) + grant =>
                              Used(i, Base) < Used(head, Base) \/ Used(i, head) < grant
    BY <1>1, <1>3, CommitUsed
  <1>5. \A i \in Index : Left(i)' => Left(i) \/ (Used(i, head) < grant /\ cells[i].gen < purged)
    BY <1>1, <1>3, <1>4 DEF Left, Used
  <1>6. \A i \in Index : Used(i, head) < grant => cells[i].gen = noted /\ cells[i].first = sent + 1
    BY <1>1 DEF StaleInv, Written
  <1>7. ASSUME dem # "purge", NEW i \in Index, NEW j \in Index, Left(i)', Left(j)'
        PROVE  cells[i].first = cells[j].first
    <2>1. CASE noted < purged
      <3>1. ~Left(i) /\ ~Left(j)
        BY <1>1, <1>7, <2>1 DEF StaleInv, Underway
      <3> QED BY <1>5, <1>6, <1>7, <3>1
    <2>2. CASE ~(noted < purged)
      <3>1. Left(i) /\ Left(j)
        BY <1>5, <1>6, <1>7, <2>2
      <3> QED BY <1>7, <3>1 DEF StaleInv
    <2> QED BY <2>1, <2>2
  <1>8. dem' # "purge" => (\A i, j \in Index : Left(i) /\ Left(j) => cells[i].first = cells[j].first)'
    BY <1>1, <1>7
  <1> QED BY <1>1, <1>2, <1>8 DEF StaleInv

LEMMA StaleDemod == ASSUME IInv, StaleInv, DemodStep PROVE StaleInv'
  <1>0. purged \in Nat /\ gen \in Nat /\ noted \in Nat
    BY DEF IInv, IndexInv
  <1>1. UNCHANGED <<cells, head, grant, sent, noted, dev, gen>>
    BY DEF DemodStep, Top, DiscardReads, DiscardStores, Look, LookUnderLock, WaitTimesOut, ReadReserve, Prepare,
       DropBlock, KeepBlock, Demodulated, DemRest, devVars, askVars
  <1>2. (dev \in Written =>
          \A i \in Index : Used(i, head) < grant => cells[i].gen = noted /\ cells[i].first = sent + 1)'
    BY <1>1 DEF StaleInv, Used
  <1>3. CASE Top
    <2>1. UNCHANGED <<tail, snap>> /\ purged' \in {purged, gen} /\ dem = "top"
      BY <1>3 DEF Top
    <2>2. dem' # "purge" => purged' = purged /\ dem' # "discard"
      BY <1>3 DEF Top
    <2> QED BY <1>0, <1>1, <2>1, <2>2, StaleQuiet DEF StaleInv
  <1>4. CASE DiscardReads
    <2>1. snap' = head /\ dem' = "discard" /\ UNCHANGED purged
      BY <1>4 DEF DiscardReads
    <2>2. Base' = head
      BY <2>1 DEF Base
    <2>3. \A i \in Index : ~Left(i)'
      <3>1. head \in Index /\ Used(head, head) = 0
        BY DEF IInv, IndexInv, Used, Index
      <3>2. \A i \in Index : ~(Used(i, head) < Used(head, head))
        BY <3>1, UsedType
      <3> QED BY <1>1, <2>2, <3>2 DEF Left, Used
    <2> QED BY <1>1, <1>2, <2>1, <2>3 DEF StaleInv
  <1>5. CASE DiscardStores
    <2>1. dem = "discard" /\ dem' = "top" /\ tail' = snap /\ UNCHANGED purged
      BY <1>5 DEF DiscardStores
    <2>2. Base' = Base
      BY <2>1 DEF Base
    <2>3. \A i \in Index : (Used(i, Base) < Used(head, Base))' =>
                              Used(i, Base) < Used(head, Base) /\ cells'[i] = cells[i]
      BY <1>1, <2>2 DEF Used
    <2> QED BY <1>1, <1>2, <2>1, <2>3, StaleKept DEF StaleInv
  <1>6. CASE Look \/ LookUnderLock \/ WaitTimesOut \/ ReadReserve \/ KeepBlock
    <2>1. UNCHANGED <<tail, snap, purged>>
      BY <1>6 DEF Look, LookUnderLock, WaitTimesOut, ReadReserve, KeepBlock
    <2>2. dem \notin {"purge", "discard"} /\ dem' \notin {"purge", "discard"}
      BY <1>6 DEF Look, LookUnderLock, WaitTimesOut, ReadReserve, KeepBlock
    <2> QED BY <1>0, <1>1, <2>1, <2>2, StaleQuiet DEF StaleInv
  <1>7. CASE Prepare \/ DropBlock \/ Demodulated
    <2>1. /\ dem \notin {"purge", "discard"} /\ dem' \notin {"purge", "discard"} /\ UNCHANGED <<snap, purged>>
      BY <1>7 DEF Prepare, DropBlock, Demodulated
    <2>2. Base = tail /\ Base' = tail'
      BY <2>1 DEF Base
    <2>3. CASE UNCHANGED tail
      BY <1>0, <1>1, <2>1, <2>3, StaleQuiet DEF StaleInv
    <2>4. CASE tail' = Wrap(tail + AtMost(held, Used(head, tail)))
      <3>1. /\ head \in Index /\ tail \in Index /\ Used(head, tail) \in 0 .. Capacity - 1 /\ held \in Nat
        BY UsedType, CapacityAssumption DEF IInv, IndexInv
      <3>2. AtMost(held, Used(head, tail)) \in Nat /\ AtMost(held, Used(head, tail)) <= Used(head, tail)
        BY <3>1, CapacityAssumption DEF AtMost
      <3>3. \A i \in Index : Used(i, tail') < Used(head, tail') => Used(i, tail) < Used(head, tail)
        BY <2>4, <3>1, <3>2, ReleaseUsed
      <3>4. \A i \in Index : (Used(i, Base) < Used(head, Base))' =>
                                Used(i, Base) < Used(head, Base) /\ cells'[i] = cells[i]
        BY <1>1, <2>2, <3>3 DEF Used
      <3> QED BY <1>1, <1>2, <2>1, <3>4, StaleKept DEF StaleInv
    <2> QED BY <1>7, <2>3, <2>4 DEF Prepare, DropBlock, Demodulated, ReadCommit
  <1> QED BY <1>3, <1>4, <1>5, <1>6, <1>7 DEF DemodStep

LEMMA StaleStep == IInv /\ StaleInv /\ [Next]_vars => StaleInv'
  <1> SUFFICES ASSUME IInv, StaleInv, [Next]_vars PROVE StaleInv'
    OBVIOUS
  <1>0. purged \in Nat /\ gen \in Nat /\ noted \in Nat /\ purged <= gen /\ noted <= gen
    BY DEF IInv, IndexInv, StaleInv
  <1> USE DEF Written, Underway, devVars, demVars, askVars
  <1>1. CASE NoteGeneration \/ CheckGeneration \/ LookBeforeCommit \/ \E n \in 1 .. MaxFloats : Receive(n)
    <2>1. UNCHANGED <<cells, head, tail, snap, dem, purged, gen>>
      BY <1>1 DEF Receive, NoteGeneration, CheckGeneration, LookBeforeCommit, DevRest
    <2>2. CASE dev' \in Written
      <3>1. UNCHANGED <<grant, sent, noted>> /\ dev \in Written
        BY <1>1, <2>2 DEF Receive, NoteGeneration, CheckGeneration, LookBeforeCommit
      <3> QED BY <1>0, <2>1, <3>1, StaleQuiet
    <2>3. CASE dev' \notin Written
      <3>1. noted' \in {noted, gen} /\ (dev' \in Underway => noted' = gen)
        BY <1>1, <2>3 DEF Receive, NoteGeneration, CheckGeneration, LookBeforeCommit
      <3>2. dem' # "purge" => \A i \in Index : (Used(i, Base) < Used(head, Base))' =>
                                   Used(i, Base) < Used(head, Base) /\ cells'[i] = cells[i]
        BY <2>1 DEF Used, Base
      <3> QED BY <1>0, <2>1, <2>3, <3>1, <3>2, StaleKept
    <2> QED BY <2>2, <2>3
  <1>2. CASE Reserve
    <2>1. UNCHANGED <<cells, head, tail, snap, dem, purged, gen, noted>> /\ dev = "reserve" /\ dev' \notin Written
      BY <1>2 DEF Reserve, DevRest
    <2>2. dem' # "purge" => \A i \in Index : (Used(i, Base) < Used(head, Base))' =>
                                   Used(i, Base) < Used(head, Base) /\ cells'[i] = cells[i]
      BY <2>1 DEF Used, Base
    <2> QED BY <1>0, <2>1, <2>2, StaleKept
  <1>3. CASE SignalReady
    <2>1. /\ UNCHANGED <<cells, head, tail, snap, grant, sent, purged, gen, noted>> /\ dev' \in {"idle", "note"}
          /\ dem' = dem \/ (dem = "asleep" /\ dem' = "look")
      BY <1>3 DEF SignalReady, AfterCommit
    <2> QED BY <1>0, <2>1, StaleQuiet
  <1>4. CASE AskGeneration \/ AskFlag \/ Stop \/ UNCHANGED vars
    <2>1. UNCHANGED <<cells, head, tail, snap, grant, sent, purged, noted, dev, dem>> /\ gen' \in {gen, gen + 1}
      BY <1>4 DEF AskGeneration, AskFlag, Stop, AskRest, vars
    <2> QED BY <1>0, <2>1, StaleQuiet
  <1> QED BY <1>1, <1>2, <1>3, <1>4, StaleWrite, StaleStoreHead, StaleDemod
          DEF Next, DeviceStep, ControlStep

(* RingSound, for any capacity and any number of purges: the indices stay  *)
(* in the buffer, the two threads' spans are apart, and what gets past a   *)
(* purge is no more than the reservation that was under way.               *)
THEOREM RingIsSound == Spec => []RingSound
  <1>1. Init => IInv /\ StaleInv
    BY InitInv, InitStale
  <1>2. (IInv /\ StaleInv) /\ [Next]_vars => (IInv /\ StaleInv)'
    BY StepInv, StaleStep
  <1>3. IInv /\ StaleInv => RingSound
    <2> SUFFICES ASSUME IInv, StaleInv PROVE RingSound
      OBVIOUS
    <2>1. StaleIsOneReservation
      <3> SUFFICES ASSUME dem \notin {"purge", "discard"}, NEW i \in Stale, NEW j \in Stale
                   PROVE  cells[i].first = cells[j].first
        BY DEF StaleIsOneReservation
      <3>1. head \in Index /\ tail \in Index /\ Used(head, tail) \in 0 .. Capacity
        BY UsedType, CapacityAssumption DEF IInv, IndexInv
      <3>2. i \in Index /\ j \in Index /\ Left(i) /\ Left(j)
        BY <3>1, SpanIsDistance DEF Stale, Left, Base
      <3> QED BY <3>2 DEF StaleInv
    <2> QED BY <2>1, InvTypes, InvApart DEF RingSound
  <1> QED BY <1>1, <1>2, <1>3, PTL DEF Spec

-----------------------------------------------------------------------------
(* The ring implements SampleQueue.                                        *)

(* The n cells from index t on, in a buffer c.                             *)
Row(c, t, n) == [k \in 1 .. n |-> c[Wrap(t + k - 1)]]

InRing == Content(tail, Used(head, tail))

Ordered(s) == \A j, k \in 1 .. Len(s) : j < k => s[j].seq < s[k].seq
Before(s, t) == \A j \in 1 .. Len(s), k \in 1 .. Len(t) : s[j].seq < t[k].seq
UpTo(s, n) == \A k \in 1 .. Len(s) : s[k].seq <= n

Numbered == \A k \in 1 .. grant : cells[Wrap(head + k - 1)].seq = sent + k

(* The samples last taken and those in the ring are in the order of the    *)
(* stream and older than what the device still has to commit, whose        *)
(* numbers follow on.                                                      *)
OrderInv ==
    /\ Ordered(taken) /\ Ordered(InRing) /\ Before(taken, InRing)
    /\ UpTo(taken, sent) /\ UpTo(InRing, sent)
    /\ dev \in Written => Numbered

-----------------------------------------------------------------------------
(* Rows.                                                                   *)

LEMMA RowIsSeq ==
    ASSUME NEW c, NEW t \in Index, NEW n \in 0 .. Capacity,
           \A i \in Index : Used(i, t) < n => c[i] \in Sample
    PROVE  /\ Row(c, t, n) \in Seq(Sample)
           /\ Len(Row(c, t, n)) = n
           /\ \A k \in 1 .. n : Row(c, t, n)[k] = c[Wrap(t + k - 1)]
  <1>1. \A k \in 1 .. n : c[Wrap(t + k - 1)] \in Sample
    BY CellOfSpan
  <1>2. Row(c, t, n) \in [1 .. n -> Sample]
    BY <1>1 DEF Row
  <1>3. n \in Nat
    BY CapacityAssumption
  <1>4. Row(c, t, n) \in Seq(Sample)
    BY <1>2, <1>3, SeqDef
  <1>5. DOMAIN Row(c, t, n) = 1 .. n
    BY DEF Row
  <1>6. Len(Row(c, t, n)) = n
    BY <1>3, <1>4, <1>5, LenProperties
  <1> QED BY <1>4, <1>6 DEF Row

(* The content of the ring, as a sequence.                                 *)
LEMMA InRingIsSeq ==
    ASSUME IInv
    PROVE  /\ InRing \in Seq(Sample)
           /\ Len(InRing) = Used(head, tail)
           /\ \A k \in 1 .. Used(head, tail) : InRing[k] = cells[Wrap(tail + k - 1)]
  <1>1. tail \in Index /\ Used(head, tail) \in 0 .. Capacity
    BY UsedType, CapacityAssumption DEF IInv, IndexInv
  <1>2. InRing = Row(cells, tail, Used(head, tail))
    BY DEF InRing, Content, Row
  <1> QED BY <1>1, <1>2, RowIsSeq DEF IInv, CellInv

LEMMA InRingIsSeqNext ==
    ASSUME IInv'
    PROVE  /\ InRing' \in Seq(Sample)
           /\ Len(InRing') = Used(head', tail')
           /\ \A k \in 1 .. Used(head', tail') : InRing'[k] = cells'[Wrap(tail' + k - 1)]
  <1>1. tail' \in Index /\ Used(head', tail') \in 0 .. Capacity
    BY UsedType, CapacityAssumption DEF IInv, IndexInv
  <1>2. InRing' = Row(cells', tail', Used(head', tail'))
    BY DEF InRing, Content, Row, Used, Wrap
  <1>3. \A i \in Index : Used(i, tail') < Used(head', tail') => cells'[i] \in Sample
    BY DEF IInv, CellInv, Used
  <1> QED BY <1>1, <1>2, <1>3, RowIsSeq

(* Index arithmetic of a commit, a release and a discard.                  *)
LEMMA CommitCells ==
    ASSUME NEW h \in Index, NEW t \in Index, NEW g \in Nat, Used(h, t) + g <= Capacity - 1,
           NEW j \in 1 .. g
    PROVE  Wrap(t + (Used(h, t) + j) - 1) = Wrap(h + j - 1)
  BY CapacityAssumption DEF Wrap, Used, Index

LEMMA ReleaseCells ==
    ASSUME NEW t \in Index, NEW n \in Nat, NEW k \in Nat \ {0}, n + k <= Capacity - 1
    PROVE  Wrap(Wrap(t + n) + k - 1) = Wrap(t + (n + k) - 1)
  BY CapacityAssumption DEF Wrap, Index

LEMMA DiscardCells ==
    ASSUME NEW h \in Index, NEW t \in Index, NEW s \in Index, Used(h, s) <= Used(h, t)
    PROVE  /\ Used(h, t) - Used(h, s) \in Nat
           /\ Wrap(t + (Used(h, t) - Used(h, s))) = s
  BY CapacityAssumption DEF Wrap, Used, Index

(* Samples are numbered.                                                   *)
LEMMA NumberOfSample ==
    ASSUME NEW q \in Seq(Sample) PROVE \A k \in 1 .. Len(q) : q[k].seq \in Int
  <1> SUFFICES ASSUME NEW k \in 1 .. Len(q) PROVE q[k].seq \in Int
    OBVIOUS
  <1>1. q[k] \in Sample
    BY ElementOfSeq
  <1> QED BY <1>1, MaxFloatsAssumption DEF Sample

(* Orders of a concatenation.                                              *)
LEMMA ConcatInOrder ==
    ASSUME NEW s \in Seq(Sample), NEW t \in Seq(Sample), Ordered(s), Ordered(t), Before(s, t)
    PROVE  Queue!InOrder(s \o t)
  <1>1. /\ s \o t \in Seq(Sample) /\ Len(s \o t) = Len(s) + Len(t)
        /\ \A i \in 1 .. Len(s) + Len(t) : (s \o t)[i] = IF i <= Len(s) THEN s[i] ELSE t[i - Len(s)]
    BY ConcatProperties
  <1>2. Len(s) \in Nat /\ Len(t) \in Nat /\ DOMAIN (s \o t) = 1 .. Len(s) + Len(t)
    BY <1>1, LenProperties
  <1> SUFFICES ASSUME NEW j \in 1 .. Len(s) + Len(t), NEW k \in 1 .. Len(s) + Len(t), j < k
               PROVE  (s \o t)[j].seq < (s \o t)[k].seq
    BY <1>2 DEF Queue!InOrder
  <1>3. CASE k <= Len(s)
    BY <1>1, <1>2, <1>3 DEF Ordered
  <1>4. CASE j > Len(s)
    <2>1. j - Len(s) \in 1 .. Len(t) /\ k - Len(s) \in 1 .. Len(t) /\ j - Len(s) < k - Len(s)
      BY <1>2, <1>4
    <2> QED BY <1>1, <1>2, <1>4, <2>1 DEF Ordered
  <1>5. CASE j <= Len(s) /\ k > Len(s)
    <2>1. j \in 1 .. Len(s) /\ k - Len(s) \in 1 .. Len(t)
      BY <1>2, <1>5
    <2> QED BY <1>1, <1>2, <1>5, <2>1 DEF Before
  <1> QED BY <1>2, <1>3, <1>4, <1>5

-----------------------------------------------------------------------------
(* What a step has to keep, and what it has to be.                         *)
Refines == OrderInv' /\ [Queue!Next]_(Queue!vars)

(* Steps the queue does not see.                                           *)
LEMMA UnseenStep ==
    ASSUME IInv, IInv', OrderInv, UNCHANGED <<head, tail, taken>>,
           \A i \in Index : Used(i, tail) < Used(head, tail) => cells'[i] = cells[i],
           sent <= sent', dev' \in Written => Numbered'
    PROVE  Refines
  <1>1. tail \in Index /\ Used(head, tail) \in 0 .. Capacity /\ sent \in Int /\ sent' \in Int
    BY UsedType, CapacityAssumption, MaxFloatsAssumption DEF IInv, IndexInv
  <1>2. /\ InRing \in Seq(Sample) /\ InRing' \in Seq(Sample)
        /\ Len(InRing) = Used(head, tail) /\ Len(InRing') = Used(head, tail)
        /\ \A k \in 1 .. Used(head, tail) : InRing[k] = cells[Wrap(tail + k - 1)]
        /\ \A k \in 1 .. Used(head, tail) : InRing'[k] = cells'[Wrap(tail + k - 1)]
    <2>1. head' = head /\ tail' = tail
      OBVIOUS
    <2> QED BY <2>1, InRingIsSeq, InRingIsSeqNext
  <1>3. InRing' = InRing
    <2>1. \A k \in 1 .. Used(head, tail) : InRing'[k] = InRing[k]
      BY <1>1, <1>2, CellOfSpan
    <2> QED BY <1>2, <2>1, SeqEqual
  <1>4. taken \in Seq(Sample) /\ taken' = taken
    BY DEF IInv, BlockInv
  <1>5. ASSUME NEW q \in Seq(Sample), UpTo(q, sent) PROVE UpTo(q, sent')
    <2>1. \A k \in 1 .. Len(q) : q[k].seq \in Int
      BY NumberOfSample
    <2> QED BY <1>1, <1>5, <2>1 DEF UpTo
  <1>6. OrderInv'
    <2>1. UpTo(taken', sent') /\ UpTo(InRing', sent')
      BY <1>2, <1>3, <1>4, <1>5 DEF OrderInv
    <2>2. Ordered(taken') /\ Ordered(InRing') /\ Before(taken', InRing')
      BY <1>3, <1>4 DEF OrderInv
    <2> QED BY <2>1, <2>2 DEF OrderInv, Ordered, Before, UpTo
  <1>7. UNCHANGED Queue!vars
    BY <1>3, <1>4 DEF Queue!vars, InRing
  <1> QED BY <1>6, <1>7 DEF Refines

(* Most steps leave the ring alone.                                        *)
LEMMA StillRing ==
    ASSUME IInv, IInv', OrderInv, UNCHANGED <<cells, head, tail, taken>>, sent <= sent',
           dev' \in Written => dev \in Written /\ UNCHANGED <<grant, sent>>
    PROVE  Refines
  <1>1. dev' \in Written => Numbered'
    BY DEF OrderInv, Numbered, Wrap
  <1> QED BY <1>1, UnseenStep

LEMMA WriteRefines == ASSUME IInv, IInv', OrderInv, Write PROVE Refines
  <1>1. /\ UNCHANGED <<head, tail, taken, grant, sent>>
        /\ head \in Index /\ tail \in Index /\ sent \in Int
    BY MaxFloatsAssumption DEF Write, DevRest, demVars, IInv, IndexInv
  <1>2. grant \in 0 .. Capacity /\ grant \in Nat /\ Used(head, tail) + grant <= Capacity - 1
    BY UsedType, CapacityAssumption, MaxFloatsAssumption DEF IInv, RoomInv, IndexInv
  <1>3. \A i \in Index : i \in Span(head, grant) <=> Used(i, head) < grant
    BY <1>1, <1>2, SpanIsDistance
  <1>4. cells' = [i \in Index |->
                   IF i \in Span(head, grant)
                     THEN [seq |-> sent + Used(i, head) + 1, first |-> sent + 1, gen |-> noted]
                     ELSE cells[i]]
    BY DEF Write
  <1>5. ASSUME NEW i \in Index, Used(i, tail) < Used(head, tail) PROVE cells'[i] = cells[i]
    <2>1. ~(Used(i, head) < grant)
      BY <1>1, <1>2, <1>5, Apart
    <2> QED BY <1>3, <1>4, <2>1
  <1>6. Numbered'
    <2>1. ASSUME NEW k \in 1 .. grant PROVE cells'[Wrap(head + k - 1)].seq = sent + k
      <3> DEFINE i == Wrap(head + k - 1)
      <3>1. i \in Index /\ Used(i, head) = k - 1
        BY <1>1, <1>2, CapacityAssumption DEF Wrap, Used, Index
      <3>2. Used(i, head) < grant
        BY <1>2, <3>1
      <3> HIDE DEF i
      <3>3. cells'[i].seq = sent + Used(i, head) + 1
        BY <1>3, <1>4, <3>1, <3>2
      <3>4. sent + Used(i, head) + 1 = sent + k
        BY <1>1, <1>2, <3>1
      <3> QED BY <3>3, <3>4 DEF i
    <2> QED BY <1>1, <2>1 DEF Numbered, Wrap
  <1> QED BY <1>1, <1>5, <1>6, UnseenStep

-----------------------------------------------------------------------------
(* A commit is a Put.                                                      *)
LEMMA CommitRefines == ASSUME IInv, IInv', OrderInv, StoreHead PROVE Refines
  <1> DEFINE L == Used(head, tail)
  <1>1. /\ head' = Wrap(head + grant) /\ sent' = sent + grant /\ tail' = tail
        /\ taken' = taken /\ cells' = cells /\ dev = "store"
        /\ dev' \in {"idle", "note", "signal"}
    BY DEF StoreHead, AfterCommit, DevRest, demVars
  <1>2. /\ head \in Index /\ tail \in Index /\ grant \in Nat /\ sent \in Nat
        /\ L \in Nat /\ L + grant <= Capacity - 1
    BY UsedType, CapacityAssumption, MaxFloatsAssumption DEF IInv, IndexInv, RoomInv
  <1>3. Used(head', tail') = L + grant
    BY <1>1, <1>2, CommitUsed
  <1>4. /\ InRing \in Seq(Sample) /\ Len(InRing) = L
        /\ \A k \in 1 .. L : InRing[k] = cells[Wrap(tail + k - 1)]
    BY InRingIsSeq
  <1>5. /\ InRing' \in Seq(Sample) /\ Len(InRing') = L + grant
        /\ \A k \in 1 .. L + grant : InRing'[k] = cells[Wrap(tail + k - 1)]
    BY <1>1, <1>3, InRingIsSeqNext
  <1>6. Numbered
    BY <1>1 DEF OrderInv, Written
  <1>7. ASSUME NEW j \in 1 .. grant PROVE InRing'[L + j].seq = sent + j
    <2>1. L + j \in 1 .. L + grant
      BY <1>2
    <2>2. Wrap(tail + (L + j) - 1) = Wrap(head + j - 1)
      BY <1>2, CommitCells
    <2> QED BY <1>5, <1>6, <2>1, <2>2 DEF Numbered
  <1>8. taken \in Seq(Sample)
    BY DEF IInv, BlockInv
  <1> HIDE DEF L
  <1>9. \A k \in 1 .. L : InRing'[k] = InRing[k]
    BY <1>2, <1>4, <1>5
  <1>10. \A k \in 1 .. L : InRing[k].seq \in Int /\ InRing[k].seq <= sent
    BY <1>4, NumberOfSample DEF OrderInv, UpTo
  <1>11. \A k \in 1 .. Len(taken) : taken[k].seq \in Int /\ taken[k].seq <= sent
    BY <1>8, NumberOfSample DEF OrderInv, UpTo
  <1>12. ASSUME NEW k \in 1 .. L + grant
         PROVE  k \in 1 .. L \/ (k - L \in 1 .. grant /\ InRing'[k].seq = sent + (k - L))
    <2>1. CASE k <= L
      BY <1>2, <2>1
    <2>2. CASE k > L
      <3>1. k - L \in 1 .. grant /\ L + (k - L) = k
        BY <1>2, <2>2
      <3> QED BY <1>7, <3>1
    <2> QED BY <1>2, <2>1, <2>2
  <1>13. Ordered(InRing')
    <2> SUFFICES ASSUME NEW j \in 1 .. L + grant, NEW k \in 1 .. L + grant, j < k
                 PROVE  InRing'[j].seq < InRing'[k].seq
      BY <1>5 DEF Ordered
    <2>1. CASE k \in 1 .. L
      <3>1. j \in 1 .. L
        BY <1>2, <2>1
      <3> QED BY <1>4, <1>9, <2>1, <3>1 DEF OrderInv, Ordered
    <2>2. CASE k \notin 1 .. L
      <3>1. k - L \in 1 .. grant /\ InRing'[k].seq = sent + (k - L)
        BY <1>12, <2>2
      <3>2. CASE j \in 1 .. L
        BY <1>2, <1>9, <1>10, <3>1, <3>2
      <3>3. CASE j \notin 1 .. L
        <4>1. j - L \in 1 .. grant /\ InRing'[j].seq = sent + (j - L)
          BY <1>12, <3>3
        <4> QED BY <1>2, <3>1, <4>1
      <3> QED BY <3>2, <3>3
    <2> QED BY <2>1, <2>2
  <1>14. UpTo(InRing', sent')
    <2> SUFFICES ASSUME NEW k \in 1 .. L + grant PROVE InRing'[k].seq <= sent + grant
      BY <1>1, <1>5 DEF UpTo
    <2>1. CASE k \in 1 .. L
      BY <1>2, <1>9, <1>10, <2>1
    <2>2. CASE k \notin 1 .. L
      BY <1>2, <1>12, <2>2
    <2> QED BY <2>1, <2>2
  <1>15. Before(taken, InRing')
    <2> SUFFICES ASSUME NEW j \in 1 .. Len(taken), NEW k \in 1 .. L + grant
                 PROVE  taken[j].seq < InRing'[k].seq
      BY <1>5 DEF Before
    <2>1. CASE k \in 1 .. L
      BY <1>4, <1>9, <2>1 DEF OrderInv, Before
    <2>2. CASE k \notin 1 .. L
      <3>1. k - L \in 1 .. grant /\ InRing'[k].seq = sent + (k - L)
        BY <1>12, <2>2
      <3> QED BY <1>2, <1>11, <3>1
    <2> QED BY <2>1, <2>2
  <1>16. UpTo(taken, sent')
    BY <1>1, <1>2, <1>11 DEF UpTo
  <1>17. OrderInv'
    <2>1. /\ Ordered(taken') /\ Ordered(InRing') /\ Before(taken', InRing')
          /\ UpTo(taken', sent') /\ UpTo(InRing', sent')
      BY <1>1, <1>13, <1>14, <1>15, <1>16 DEF OrderInv
    <2>2. dev' \notin Written
      BY <1>1 DEF Written
    <2> QED BY <2>1, <2>2 DEF OrderInv, Ordered, Before, UpTo, Written
  <1>18. CASE grant = 0
    <2>1. InRing' = InRing
      BY <1>2, <1>4, <1>5, <1>9, <1>18, SeqEqual
    <2> QED BY <1>1, <1>17, <2>1 DEF Refines, Queue!vars, InRing
  <1>19. CASE grant # 0
    <2>1. Len(InRing') \in Len(InRing) + 1 .. Capacity - 1
      BY <1>2, <1>4, <1>5, <1>19, CapacityAssumption
    <2>2. SubSeq(InRing', 1, Len(InRing)) = InRing
      <3>1. \A k \in 1 .. L : InRing'[k] \in Sample
        BY <1>4, <1>9, ElementOfSeq
      <3>2. /\ SubSeq(InRing', 1, L) \in Seq(Sample)
            /\ Len(SubSeq(InRing', 1, L)) = IF 1 <= L THEN L - 1 + 1 ELSE 0
            /\ \A k \in 1 .. L - 1 + 1 : SubSeq(InRing', 1, L)[k] = InRing'[1 + k - 1]
        BY <1>2, <3>1, SubSeqProperties
      <3>3. Len(SubSeq(InRing', 1, L)) = L
        BY <1>2, <3>2
      <3>4. \A k \in 1 .. L : SubSeq(InRing', 1, L)[k] = InRing[k]
        BY <1>2, <1>9, <3>2
      <3> QED BY <1>4, <3>2, <3>3, <3>4, SeqEqual
    <2>3. \A k \in 1 .. Len(InRing') : InRing'[k] \in Sample
      BY <1>5, ElementOfSeq
    <2>4. Queue!InOrder(taken \o InRing')
      BY <1>5, <1>8, <1>13, <1>15, ConcatInOrder DEF OrderInv
    <2>5. Queue!Put
      BY <1>1, <2>1, <2>2, <2>3, <2>4 DEF Queue!Put, InRing
    <2> QED BY <1>17, <2>5 DEF Refines, Queue!Next
  <1> QED BY <1>18, <1>19

-----------------------------------------------------------------------------
(* Moving tail over n samples leaves the rest in place.                    *)
LEMMA ShiftedRing ==
    ASSUME IInv, IInv', OrderInv, UNCHANGED <<cells, head>>, NEW n \in Nat,
           n <= Used(head, tail), tail' = Wrap(tail + n)
    PROVE  /\ Len(InRing') = Len(InRing) - n
           /\ \A k \in 1 .. Len(InRing') : n + k \in 1 .. Len(InRing) /\ InRing'[k] = InRing[n + k]
           /\ InRing' = SubSeq(InRing, n + 1, Len(InRing))
  <1> DEFINE L == Used(head, tail)
  <1>1. head \in Index /\ tail \in Index /\ L \in 0 .. Capacity - 1
    BY UsedType DEF IInv, IndexInv
  <1>2. head' = head /\ cells' = cells /\ Used(head', tail') = L - n
    BY <1>1, ReleaseUsed
  <1>3. /\ InRing \in Seq(Sample) /\ Len(InRing) = L
        /\ \A k \in 1 .. L : InRing[k] = cells[Wrap(tail + k - 1)]
    BY InRingIsSeq
  <1>4. /\ InRing' \in Seq(Sample) /\ Len(InRing') = L - n
        /\ \A k \in 1 .. L - n : InRing'[k] = cells[Wrap(tail' + k - 1)]
    BY <1>2, InRingIsSeqNext
  <1> HIDE DEF L
  <1>5. L \in Nat /\ n <= L
    BY <1>1, CapacityAssumption DEF L
  <1>6. ASSUME NEW k \in 1 .. L - n PROVE n + k \in 1 .. L /\ InRing'[k] = InRing[n + k]
    <2>1. n + k \in 1 .. L /\ n + k <= Capacity - 1 /\ k \in Nat \ {0}
      BY <1>1, <1>5, CapacityAssumption
    <2>2. Wrap(Wrap(tail + n) + k - 1) = Wrap(tail + (n + k) - 1)
      BY <1>1, <2>1, ReleaseCells
    <2> QED BY <1>3, <1>4, <2>1, <2>2
  <1>7. InRing' = SubSeq(InRing, n + 1, L)
    <2>1. \A k \in n + 1 .. L : InRing[k] \in Sample
      BY <1>3, <1>5, ElementOfSeq
    <2>2. /\ SubSeq(InRing, n + 1, L) \in Seq(Sample)
          /\ Len(SubSeq(InRing, n + 1, L)) = IF n + 1 <= L THEN L - (n + 1) + 1 ELSE 0
          /\ \A k \in 1 .. L - (n + 1) + 1 : SubSeq(InRing, n + 1, L)[k] = InRing[n + 1 + k - 1]
      BY <1>5, <2>1, SubSeqProperties
    <2>3. Len(SubSeq(InRing, n + 1, L)) = L - n
      BY <1>5, <2>2
    <2>4. \A k \in 1 .. L - n : SubSeq(InRing, n + 1, L)[k] = InRing[n + k]
      BY <1>5, <2>2
    <2>5. \A k \in 1 .. L - n : SubSeq(InRing, n + 1, L)[k] = InRing'[k]
      BY <1>6, <2>4
    <2> QED BY <1>4, <2>2, <2>3, <2>5, SeqEqual
  <1> QED BY <1>3, <1>4, <1>6, <1>7

(* A release is a Take.                                                    *)
LEMMA ReleaseRefines ==
    ASSUME IInv, IInv', OrderInv, held > 0, ReadCommit, UNCHANGED <<cells, head, devVars>>
    PROVE  Refines
  <1> DEFINE L == Used(head, tail)
  <1>1. /\ head \in Index /\ tail \in Index /\ L \in Nat /\ L <= Capacity - 1
        /\ held \in Nat \ {0} /\ held <= L /\ at = tail
    BY UsedType, CapacityAssumption DEF IInv, IndexInv, RoomInv
  <1>2. /\ tail' = Wrap(tail + held) /\ taken' = Content(at, held)
        /\ sent' = sent /\ dev' = dev /\ grant' = grant
    BY <1>1 DEF ReadCommit, AtMost, devVars
  <1>3. /\ InRing \in Seq(Sample) /\ Len(InRing) = L
        /\ \A k \in 1 .. L : InRing[k] = cells[Wrap(tail + k - 1)]
    BY InRingIsSeq
  <1>4. /\ Len(InRing') = L - held
        /\ \A k \in 1 .. L - held : held + k \in 1 .. L /\ InRing'[k] = InRing[held + k]
        /\ InRing' = SubSeq(InRing, held + 1, L)
    BY <1>1, <1>2, <1>3, ShiftedRing
  <1> HIDE DEF L
  <1>5. taken' \in Seq(Sample)
    BY DEF IInv, BlockInv
  <1>6. DOMAIN taken' = 1 .. held /\ \A k \in 1 .. held : taken'[k] = InRing[k]
    BY <1>1, <1>2, <1>3 DEF Content
  <1>7. Len(taken') = held
    BY <1>1, <1>5, <1>6, LenProperties
  <1>8. taken' = SubSeq(InRing, 1, held)
    <2>1. \A k \in 1 .. held : InRing[k] \in Sample
      BY <1>1, <1>3, ElementOfSeq
    <2>2. /\ SubSeq(InRing, 1, held) \in Seq(Sample)
          /\ Len(SubSeq(InRing, 1, held)) = IF 1 <= held THEN held - 1 + 1 ELSE 0
          /\ \A k \in 1 .. held - 1 + 1 : SubSeq(InRing, 1, held)[k] = InRing[1 + k - 1]
      BY <1>1, <2>1, SubSeqProperties
    <2>3. Len(SubSeq(InRing, 1, held)) = held
      BY <1>1, <2>2
    <2>4. \A k \in 1 .. held : SubSeq(InRing, 1, held)[k] = taken'[k]
      BY <1>1, <1>6, <2>2
    <2> QED BY <1>5, <1>7, <2>2, <2>3, <2>4, SeqEqual
  <1>9. Queue!Take
    <2>1. held \in 1 .. Len(InRing)
      BY <1>1, <1>3
    <2> QED BY <1>3, <1>4, <1>8, <2>1 DEF Queue!Take, InRing
  <1>10. /\ \A j, k \in 1 .. L : j < k => InRing[j].seq < InRing[k].seq
         /\ \A k \in 1 .. L : InRing[k].seq <= sent
    BY <1>3 DEF OrderInv, Ordered, UpTo
  <1>11. \A k \in 1 .. held : k \in 1 .. L
    BY <1>1
  <1>12. Ordered(taken') /\ UpTo(taken', sent')
    BY <1>2, <1>6, <1>7, <1>10, <1>11 DEF Ordered, UpTo
  <1>13. Ordered(InRing') /\ UpTo(InRing', sent')
    <2>1. UpTo(InRing', sent')
      BY <1>2, <1>4, <1>10 DEF UpTo
    <2> SUFFICES ASSUME NEW j \in 1 .. L - held, NEW k \in 1 .. L - held, j < k
                 PROVE  InRing'[j].seq < InRing'[k].seq
      BY <1>4, <2>1 DEF Ordered
    <2>2. held + j \in 1 .. L /\ held + k \in 1 .. L /\ held + j < held + k
      BY <1>1, <1>4
    <2> QED BY <1>4, <1>10, <2>2
  <1>14. Before(taken', InRing')
    <2> SUFFICES ASSUME NEW j \in 1 .. held, NEW k \in 1 .. L - held
                 PROVE  taken'[j].seq < InRing'[k].seq
      BY <1>4, <1>7 DEF Before
    <2>1. j \in 1 .. L /\ held + k \in 1 .. L /\ j < held + k
      BY <1>1, <1>4
    <2> QED BY <1>4, <1>6, <1>10, <2>1
  <1>15. dev' \in Written => Numbered'
    BY <1>2 DEF OrderInv, Numbered, Wrap
  <1>16. OrderInv'
    BY <1>12, <1>13, <1>14, <1>15 DEF OrderInv, Ordered, Before, UpTo
  <1> QED BY <1>9, <1>16 DEF Refines, Queue!Next

(* A purge is a Forget.                                                    *)
LEMMA DiscardRefines == ASSUME IInv, IInv', OrderInv, DiscardStores PROVE Refines
  <1> DEFINE L == Used(head, tail)
             n == L - Used(head, snap)
  <1>1. /\ head \in Index /\ tail \in Index /\ snap \in Index
        /\ Used(head, snap) <= L
    BY DEF DiscardStores, IInv, IndexInv, RoomInv
  <1>2. /\ tail' = snap /\ UNCHANGED <<cells, head, taken, sent, dev, grant>>
    BY DEF DiscardStores, DemRest, devVars
  <1>3. n \in Nat /\ n <= L /\ L \in Nat /\ tail' = Wrap(tail + n)
    <2>1. L \in 0 .. Capacity - 1 /\ Used(head, snap) \in 0 .. Capacity - 1
      BY <1>1, UsedType
    <2>2. n \in Nat /\ n <= L /\ L \in Nat
      BY <1>1, <2>1, CapacityAssumption
    <2> QED BY <1>1, <1>2, <2>2, DiscardCells
  <1>4. InRing \in Seq(Sample) /\ Len(InRing) = L
    BY InRingIsSeq
  <1> HIDE DEF n
  <1>5. /\ Len(InRing') = L - n
        /\ \A k \in 1 .. L - n : n + k \in 1 .. L /\ InRing'[k] = InRing[n + k]
        /\ InRing' = SubSeq(InRing, n + 1, L)
    BY <1>2, <1>3, <1>4, ShiftedRing
  <1> HIDE DEF L
  <1>6. CASE n = 0
    <2>1. InRing' = InRing
      BY <1>4, <1>5, <1>6, SubSeqFull
    <2>2. UNCHANGED Queue!vars
      BY <1>2, <2>1 DEF Queue!vars, InRing
    <2>3. OrderInv'
      <3>1. dev' \in Written => Numbered'
        BY <1>2 DEF OrderInv, Numbered, Wrap
      <3> QED BY <1>2, <2>1, <3>1 DEF OrderInv, Ordered, Before, UpTo
    <2> QED BY <2>2, <2>3 DEF Refines
  <1>7. CASE n # 0
    <2>1. n \in 1 .. Len(InRing)
      BY <1>3, <1>4, <1>7
    <2>2. Queue!Forget
      BY <1>2, <1>4, <1>5, <2>1 DEF Queue!Forget, InRing
    <2>3. /\ \A j, k \in 1 .. L : j < k => InRing[j].seq < InRing[k].seq
          /\ \A k \in 1 .. L : InRing[k].seq <= sent
      BY <1>4 DEF OrderInv, Ordered, UpTo
    <2>4. Ordered(InRing')
      <3> SUFFICES ASSUME NEW j \in 1 .. L - n, NEW k \in 1 .. L - n, j < k
                   PROVE  InRing'[j].seq < InRing'[k].seq
        BY <1>5 DEF Ordered
      <3>1. n + j \in 1 .. L /\ n + k \in 1 .. L /\ n + j < n + k
        BY <1>3, <1>5
      <3> QED BY <1>5, <2>3, <3>1
    <2>5. UpTo(InRing', sent')
      BY <1>2, <1>5, <2>3 DEF UpTo
    <2>6. Before(taken, InRing')
      BY <1>4, <1>5 DEF OrderInv, Before
    <2>7. dev' \in Written => Numbered'
      BY <1>2 DEF OrderInv, Numbered, Wrap
    <2>8. OrderInv'
      BY <1>2, <2>4, <2>5, <2>6, <2>7 DEF OrderInv, Ordered, Before, UpTo
    <2> QED BY <2>2, <2>8 DEF Refines, Queue!Next
  <1> QED BY <1>6, <1>7

-----------------------------------------------------------------------------
(* The initial states map to the empty queue.                              *)
LEMMA InitRefines == Init => OrderInv /\ Queue!Init
  <1> SUFFICES ASSUME Init PROVE OrderInv /\ Queue!Init
    OBVIOUS
  <1>1. IInv
    BY InitInv
  <1>2. Used(head, tail) = 0 /\ taken = <<>> /\ dev = "idle"
    BY CapacityAssumption DEF Init, Used
  <1>3. InRing \in Seq(Sample) /\ Len(InRing) = 0
    BY <1>1, <1>2, InRingIsSeq
  <1>4. InRing = <<>>
    BY <1>3, EmptySeq
  <1>5. Len(taken) = 0
    BY <1>2
  <1> QED BY <1>2, <1>3, <1>4, <1>5
          DEF OrderInv, Ordered, Before, UpTo, Written, Queue!Init, InRing

(* Every step of the ring is a step of the queue or invisible to it.       *)
LEMMA StepRefines == IInv /\ IInv' /\ OrderInv /\ [Next]_vars => OrderInv' /\ [Queue!Next]_(Queue!vars)
  <1> SUFFICES ASSUME IInv, IInv', OrderInv, [Next]_vars PROVE Refines
    BY DEF Refines
  <1> USE DEF devVars, demVars, askVars
  <1>1. sent \in Nat /\ need \in Nat
    BY MaxFloatsAssumption DEF IInv, IndexInv
  <1>2. ASSUME NEW n \in 1 .. MaxFloats, Receive(n) PROVE Refines
    BY <1>1, <1>2, StillRing DEF Receive, DevRest, Written
  <1>3. CASE NoteGeneration
    BY <1>1, <1>3, StillRing DEF NoteGeneration, DevRest, Written
  <1>4. CASE Reserve
    BY <1>1, <1>4, StillRing DEF Reserve, DevRest, Written
  <1>5. CASE CheckGeneration
    BY <1>1, <1>5, StillRing DEF CheckGeneration, DevRest, Written
  <1>6. CASE LookBeforeCommit
    BY <1>1, <1>6, StillRing DEF LookBeforeCommit, DevRest, Written
  <1>7. CASE SignalReady
    BY <1>1, <1>7, StillRing DEF SignalReady, AfterCommit, Written
  <1>8. CASE Top \/ DiscardReads \/ Look \/ LookUnderLock \/ WaitTimesOut \/ ReadReserve \/ KeepBlock
    <2>1. UNCHANGED <<cells, head, tail, taken, sent, dev, grant>>
      BY <1>8 DEF Top, DiscardReads, Look, LookUnderLock, WaitTimesOut, ReadReserve, KeepBlock, DemRest
    <2> QED BY <1>1, <2>1, StillRing
  <1>9. CASE Prepare \/ DropBlock \/ Demodulated
    <2>1. UNCHANGED <<cells, head, devVars>>
      BY <1>9 DEF Prepare, DropBlock, Demodulated, DemRest
    <2>2. IsWrapped => held > 0
      BY CapacityAssumption DEF IsWrapped, IInv, IndexInv, Index
    <2>3. (held > 0 /\ ReadCommit) \/ UNCHANGED <<tail, taken, held>>
      BY <1>9, <2>2 DEF Prepare, DropBlock, Demodulated
    <2>4. CASE held > 0 /\ ReadCommit
      BY <2>1, <2>4, ReleaseRefines
    <2>5. CASE UNCHANGED <<tail, taken, held>>
      BY <1>1, <2>1, <2>5, StillRing
    <2> QED BY <2>3, <2>4, <2>5
  <1>10. CASE ControlStep \/ UNCHANGED vars
    <2>1. UNCHANGED <<cells, head, tail, taken, sent, dev, grant>>
      BY <1>10 DEF ControlStep, AskGeneration, AskFlag, AskRest, Stop, vars
    <2> QED BY <1>1, <2>1, StillRing
  <1>11. DeviceStep => Refines
    BY <1>2, <1>3, <1>4, <1>5, <1>6, <1>7, WriteRefines, CommitRefines DEF DeviceStep
  <1>12. DemodStep => Refines
    BY <1>8, <1>9, DiscardRefines DEF DemodStep
  <1> QED BY <1>10, <1>11, <1>12 DEF Next

(* ImplementsQueue: for every capacity, read size, stream and number of    *)
(* purges, what the device commits comes out in order, unaltered and once, *)
(* or is forgotten from the front by a purge.                              *)
THEOREM RingImplementsQueue == Spec => ImplementsQueue
  <1>1. Spec => []IInv
    BY InductiveInvariant
  <1>2. Init => OrderInv /\ Queue!Init
    BY InitRefines
  <1>3. IInv /\ IInv' /\ OrderInv /\ [Next]_vars => OrderInv' /\ [Queue!Next]_(Queue!vars)
    BY StepRefines
  <1> QED BY <1>1, <1>2, <1>3, PTL DEF Spec, ImplementsQueue, Queue!Spec

-----------------------------------------------------------------------------
(* The capture writer.                                                     *)

Bytestring == Seq(Nat)
Blocks == Seq(Bytestring \ {<<>>})

ProdStates ==
    [at: {"idle", "pair", "rest"}, left: Bytestring, rest: Bytestring, tail: Bytestring, clamped: BOOLEAN]
WriterStates ==
    [at: {"check", "cond", "timed", "write", "release", "flush", "fail", "ended"}, hand: Bytestring, lost: Nat]

(* The submission in progress.                                             *)
SourceInv ==
    /\ config \in Configs
    /\ prod \in ProdStates /\ carry \in Nat /\ next \in Nat \ {0} /\ accepted \in Nat

(* Where the blocks are: a block that is staged or published has bytes in  *)
(* it, and the writer has one in hand exactly while it writes it.          *)
PoolInv ==
    /\ fill \in Bytestring /\ Len(fill) < BlockBytes
    /\ queue \in Blocks /\ free \in Nat
    /\ writer \in WriterStates
    /\ writer.at \in {"write", "release"} => writer.hand # <<>>
    /\ writer.hand # <<>> => writer.at \in {"write", "release", "fail"}
    /\ aged \in BOOLEAN /\ (aged => fill # <<>>)
    /\ BlocksAccounted

CaptureInv == SourceInv /\ PoolInv

-----------------------------------------------------------------------------
(* Small arithmetic.                                                       *)

LEMMA ConfigFacts ==
  ASSUME SourceInv
  PROVE  Align \in Nat \ {0} /\ BlockBytes \in Nat \ {0} /\ MaxBytes \in Nat /\ MaxInput \in Nat
  BY CaptureAssumption DEF SourceInv, Align, BlockBytes, MaxBytes

LEMMA AlignedType == ASSUME SourceInv, NEW n \in Nat PROVE Aligned(n) \in 0 .. n
  BY ConfigFacts DEF Aligned

LEMMA BudgetType == ASSUME SourceInv PROVE Budget \in Nat
  BY ConfigFacts DEF Budget, SourceInv

LEMMA MinOfTwo == ASSUME NEW a \in Nat, NEW b \in Nat PROVE Min({a, b}) = IF a <= b THEN a ELSE b
  BY DEF Min

LEMMA Cut ==
  ASSUME NEW s \in Bytestring, NEW n \in 0 .. Len(s)
  PROVE  /\ First(s, n) \in Bytestring /\ Len(First(s, n)) = n
         /\ Rest(s, n) \in Bytestring
  BY DEF First, Rest, Bytestring

LEMMA Glue ==
  ASSUME NEW s \in Bytestring, NEW t \in Bytestring
  PROVE  s \o t \in Bytestring /\ Len(s \o t) = Len(s) + Len(t)
  BY DEF Bytestring

(* What writer_submit_aligned() splits a submission into.                  *)
LEMMA RestOfType == ASSUME SourceInv, NEW in \in Bytestring PROVE RestOf(in) \in ProdStates
<1> DEFINE whole == Aligned(Len(in))
           writable == Min({whole, Aligned(Budget)})
<1>1. Len(in) \in Nat /\ whole \in 0 .. Len(in) /\ Aligned(Budget) \in Nat
  BY AlignedType, BudgetType DEF Bytestring
<1>2. writable \in 0 .. Len(in)
  <2> HIDE DEF whole
  <2> QED
    BY <1>1, MinOfTwo
<1>3. First(in, writable) \in Bytestring /\ Rest(in, writable) \in Bytestring
  BY <1>2, Cut
<1>4. (writable < whole) \in BOOLEAN /\ <<>> \in Bytestring
  BY DEF Bytestring
<1>5. RestOf(in) = [at |-> "rest", left |-> First(in, writable), rest |-> Rest(in, writable),
                    tail |-> <<>>, clamped |-> writable < whole]
  BY DEF RestOf
<1> HIDE DEF writable, whole
<1> QED
  BY <1>3, <1>4, <1>5 DEF ProdStates

-----------------------------------------------------------------------------
LEMMA InitCapture == CaptureInit => CaptureInv
<1> SUFFICES ASSUME CaptureInit PROVE CaptureInv
  OBVIOUS
<1>1. <<>> \in Bytestring /\ <<>> \in Blocks
  BY DEF Bytestring, Blocks
<1>2. Idle \in ProdStates
  BY <1>1 DEF Idle, ProdStates
<1>3. SourceInv
  BY <1>2 DEF CaptureInit, SourceInv
<1>4. [at |-> "check", hand |-> <<>>, lost |-> 0] \in WriterStates
  BY <1>1 DEF WriterStates
<1>5. BlocksAccounted
  BY CaptureAssumption DEF CaptureInit, BlocksAccounted
<1>7. aged \in BOOLEAN /\ (aged => fill # <<>>)
  BY DEF CaptureInit
<1>6. PoolInv
  BY <1>1, <1>3, <1>4, <1>5, <1>7, ConfigFacts, CaptureAssumption DEF CaptureInit, PoolInv
<1> QED
  BY <1>3, <1>6 DEF CaptureInv

(* A step that leaves the pool and the writer alone.                       *)
LEMMA PoolUnchanged ==
  ASSUME PoolInv, UNCHANGED <<config, poolVars, writer>>
  PROVE  PoolInv'
  BY DEF PoolInv, poolVars, BlocksAccounted, BlockBytes

LEMMA SourceUnchanged ==
  ASSUME SourceInv, UNCHANGED <<config, prod, next, accepted>>, carry' \in {0, carry}
  PROVE  SourceInv'
  BY DEF SourceInv

-----------------------------------------------------------------------------
(* Submissions.                                                            *)

LEMMA SubmitStep == ASSUME CaptureInv, NEW n \in 1 .. MaxSubmit, Submit(n) PROVE CaptureInv'
<1> USE DEF CaptureInv
<1> DEFINE in == [i \in 1 .. n |-> next + i - 1]
<1>0. n \in Nat \ {0} /\ next \in Nat \ {0} /\ carry \in Nat /\ prod \in ProdStates
  BY CaptureAssumption DEF SourceInv
<1>1. UNCHANGED <<config, poolVars, writer, accepted>> /\ next' = next + n
  BY DEF Submit, writerVars
<1>2. in \in Bytestring /\ Len(in) = n
  BY <1>0 DEF Bytestring
<1>3. Rest(in, 1) \in Bytestring
  BY <1>0, <1>2, Cut
<1>4. carry' \in {0, carry}
  BY DEF Submit
<1>5. prod' \in ProdStates
  <2>1. RestOf(in) \in ProdStates /\ RestOf(Rest(in, 1)) \in ProdStates
    BY <1>2, <1>3, RestOfType
  <2>2. [at |-> "pair", left |-> <<carry, next>>, rest |-> <<>>, tail |-> Rest(in, 1), clamped |-> FALSE]
          \in ProdStates
    BY <1>0, <1>3 DEF ProdStates, Bytestring
  <2>3. \/ prod' = prod \/ prod' = RestOf(in) \/ prod' = RestOf(Rest(in, 1))
        \/ prod' = [at |-> "pair", left |-> <<carry, next>>, rest |-> <<>>, tail |-> Rest(in, 1),
                    clamped |-> FALSE]
    BY DEF Submit
  <2> HIDE DEF in
  <2> QED
    BY <1>0, <2>1, <2>2, <2>3
<1>6. SourceInv'
  BY <1>0, <1>1, <1>4, <1>5 DEF SourceInv
<1> QED
  BY <1>1, <1>6, PoolUnchanged

(* A submission that goes on or ends without a block.                      *)
LEMMA SubmitEnds == ASSUME CaptureInv, NoBlock \/ SubmitFails \/ PairDone \/ RestDone PROVE CaptureInv'
<1> USE DEF CaptureInv
<1>0. prod \in ProdStates /\ carry \in Nat
  BY DEF SourceInv
<1>1. UNCHANGED <<config, poolVars, writer, accepted, next>>
  BY DEF NoBlock, SubmitFails, PairDone, RestDone, writerVars
<1>2. <<>> \in Bytestring /\ Idle \in ProdStates
  BY DEF Idle, ProdStates, Bytestring
<1>3. carry' \in Nat
  <2>1. CASE RestDone /\ carry' # carry
    <3>1. carry' = prod.rest[1] /\ Len(prod.rest) > 0
      BY <2>1 DEF RestDone
    <3>2. prod.rest \in Seq(Nat)
      BY <1>0 DEF ProdStates, Bytestring
    <3> QED
      BY <3>1, <3>2
  <2>2. CASE ~(RestDone /\ carry' # carry)
    BY <1>0, <2>2 DEF NoBlock, SubmitFails, PairDone
  <2> QED
    BY <2>1, <2>2
<1>4. prod' \in ProdStates
  <2>1. CASE NoBlock
    BY <1>0, <1>2, <2>1 DEF NoBlock, ProdStates
  <2>2. CASE SubmitFails \/ RestDone
    BY <1>2, <2>2 DEF SubmitFails, RestDone
  <2>3. CASE PairDone
    <3>1. prod.tail \in Bytestring
      BY <1>0 DEF ProdStates
    <3> QED
      BY <2>3, <3>1, RestOfType DEF PairDone
  <2> QED
    BY <2>1, <2>2, <2>3
<1>5. SourceInv'
  BY <1>1, <1>3, <1>4 DEF SourceInv
<1> QED
  BY <1>1, <1>5, PoolUnchanged

(* A wake-up moves the writer from a wait to its check, and nothing else.  *)
LEMMA SignalledType ==
  ASSUME PoolInv
  PROVE  /\ Signalled \in WriterStates /\ Signalled.hand = writer.hand
         /\ Signalled.at \in {"check", writer.at}
         /\ Signalled.at = "check" => writer.at \in {"check", "cond", "timed"}
<1>1. writer \in WriterStates
  BY DEF PoolInv
<1>2. CASE writer.at \in {"cond", "timed"}
  <2>1. Signalled = [writer EXCEPT !.at = "check"]
    BY <1>2 DEF Signalled
  <2> QED
    BY <1>1, <1>2, <2>1 DEF WriterStates
<1>3. CASE writer.at \notin {"cond", "timed"}
  <2>1. Signalled = writer
    BY <1>3 DEF Signalled
  <2> QED
    BY <1>1, <1>3, <2>1
<1> QED
  BY <1>2, <1>3

(* One critical section of writer_submit_bytes().                          *)
LEMMA PackStep == ASSUME CaptureInv, Pack PROVE CaptureInv'
<1> USE DEF CaptureInv
<1> DEFINE take == Min({Len(prod.left), BlockBytes - Len(fill)})
           piece == First(prod.left, take)
           whole == fill \o piece
           full == Len(whole) = BlockBytes
<1>0. /\ prod \in ProdStates /\ prod.left \in Bytestring /\ prod.left # <<>>
      /\ BlockBytes \in Nat \ {0} /\ accepted \in Nat
      /\ fill \in Bytestring /\ Len(fill) < BlockBytes /\ queue \in Blocks /\ free \in Nat
      /\ aged \in BOOLEAN
  BY ConfigFacts DEF SourceInv, PoolInv, ProdStates, Pack
<1>1. /\ queue' = IF full THEN Append(queue, whole) ELSE queue
      /\ fill' = IF full THEN <<>> ELSE whole
      /\ aged' = (aged /\ ~full)
      /\ free' = IF fill = <<>> THEN free - 1 ELSE free
      /\ writer' = IF full \/ fill = <<>> THEN Signalled ELSE writer
      /\ accepted' = accepted + take
      /\ prod' = [prod EXCEPT !.left = Rest(prod.left, take)]
      /\ UNCHANGED <<config, carry, next>>
      /\ fill # <<>> \/ free > 0
  BY DEF Pack
<1>2. Len(prod.left) \in Nat \ {0} /\ Len(fill) \in Nat
  BY <1>0 DEF Bytestring
<1>3. take \in Nat \ {0} /\ take <= Len(prod.left) /\ take <= BlockBytes - Len(fill)
  <2>1. BlockBytes - Len(fill) \in Nat \ {0}
    BY <1>0, <1>2
  <2> QED
    BY <1>2, <2>1, MinOfTwo
<1> HIDE DEF take
<1>4. piece \in Bytestring /\ Len(piece) = take /\ Rest(prod.left, take) \in Bytestring
  BY <1>0, <1>2, <1>3, Cut
<1> HIDE DEF piece
<1>5. whole \in Bytestring /\ Len(whole) = Len(fill) + take /\ whole # <<>>
  <2>1. whole \in Bytestring /\ Len(whole) = Len(fill) + Len(piece)
    BY <1>0, <1>4, Glue
  <2>2. Len(whole) > 0
    BY <1>2, <1>3, <1>4, <2>1
  <2> QED
    BY <1>4, <2>1, <2>2
<1> HIDE DEF whole
<1>6. Len(whole) <= BlockBytes
  BY <1>0, <1>2, <1>3, <1>5
<1>7. SourceInv'
  <2>1. prod' \in ProdStates
    BY <1>0, <1>1, <1>4 DEF ProdStates
  <2>2. accepted' \in Nat
    BY <1>0, <1>1, <1>3
  <2> QED
    BY <1>1, <2>1, <2>2 DEF SourceInv
<1>8. /\ writer' \in WriterStates /\ writer'.hand = writer.hand
      /\ writer'.at \in {"write", "release"} => writer'.hand # <<>>
      /\ writer'.hand # <<>> => writer'.at \in {"write", "release", "fail"}
  <2>1. writer' = Signalled \/ writer' = writer
    BY <1>1
  <2>2. /\ writer.at \in {"write", "release"} => writer.hand # <<>>
        /\ writer.hand # <<>> => writer.at \in {"write", "release", "fail"}
        /\ writer \in WriterStates
    BY DEF PoolInv
  <2>3. CASE writer' = writer
    BY <2>2, <2>3
  <2>4. CASE writer' = Signalled
    BY <2>2, <2>4, SignalledType
  <2> QED
    BY <2>1, <2>3, <2>4
<1>9. /\ fill' \in Bytestring /\ Len(fill') < BlockBytes
      /\ fill' = <<>> <=> full
  <2>1. <<>> \in Bytestring /\ Len(<<>>) = 0
    BY DEF Bytestring
  <2> QED
    BY <1>0, <1>1, <1>2, <1>3, <1>5, <1>6, <2>1
<1>10. queue' \in Blocks /\ Len(queue') = Len(queue) + (IF full THEN 1 ELSE 0) /\ Len(queue) \in Nat
  BY <1>0, <1>1, <1>5 DEF Blocks
<1>11. free' \in Nat /\ free' = free - (IF fill = <<>> THEN 1 ELSE 0)
  BY <1>0, <1>1
<1>12. aged' \in BOOLEAN /\ (aged' => fill' # <<>>)
  <2>1. CASE full
    BY <1>1, <2>1
  <2>2. CASE ~full
    BY <1>0, <1>1, <1>9, <2>2
  <2> QED
    BY <2>1, <2>2
<1>13. BlocksAccounted'
  <2> DEFINE staged == IF fill # <<>> THEN 1 ELSE 0
             stagedThen == IF fill' # <<>> THEN 1 ELSE 0
             inHand == IF writer.hand # <<>> THEN 1 ELSE 0
             put == IF full THEN 1 ELSE 0
  <2>1. BlockCount = free + Len(queue) + staged + inHand
    BY DEF PoolInv, BlocksAccounted
  <2>2. stagedThen = 1 - put /\ put \in {0, 1} /\ staged \in {0, 1} /\ inHand \in {0, 1}
    BY <1>9
  <2>3. free' = free - (1 - staged) /\ Len(queue') = Len(queue) + put
    BY <1>10, <1>11
  <2>4. BlockCount = free' + Len(queue') + stagedThen + inHand => BlocksAccounted'
    BY <1>8 DEF BlocksAccounted
  <2> HIDE DEF staged, stagedThen, inHand, put
  <2>5. free + Len(queue) + staged + inHand = free' + Len(queue') + stagedThen + inHand
    <3>1. free \in Nat /\ Len(queue) \in Nat
      BY <1>0, <1>10
    <3> QED
      BY <2>2, <2>3, <3>1
  <2> QED
    BY <2>1, <2>4, <2>5
<1>14. BlockBytes' = BlockBytes
  BY <1>1 DEF BlockBytes
<1>15. PoolInv'
  BY <1>8, <1>9, <1>10, <1>11, <1>12, <1>13, <1>14 DEF PoolInv
<1> QED
  BY <1>7, <1>15

-----------------------------------------------------------------------------
(* The writer thread.                                                      *)

(* The steps that move the writer and no block.                            *)
LEMMA WriterMoves ==
  ASSUME CaptureInv, Timeout \/ WriteBlock \/ WriteFails \/ Flush \/ FlushFails
  PROVE  CaptureInv'
<1> USE DEF CaptureInv
<1>1. UNCHANGED <<config, prod, next, accepted, carry, poolVars>>
  BY DEF Timeout, WriteBlock, WriteFails, Flush, FlushFails
<1>2. /\ writer \in WriterStates
      /\ writer.at \in {"write", "release"} => writer.hand # <<>>
      /\ writer.hand # <<>> => writer.at \in {"write", "release", "fail"}
  BY DEF PoolInv
<1>3. /\ writer' \in WriterStates /\ writer'.hand = writer.hand
      /\ writer'.at \in {"write", "release"} => writer'.hand # <<>>
      /\ writer'.hand # <<>> => writer'.at \in {"write", "release", "fail"}
  <2>1. CASE Timeout
    BY <1>2, <2>1 DEF Timeout, WriterStates
  <2>2. CASE WriteBlock
    BY <1>2, <2>2 DEF WriteBlock, WriterStates
  <2>3. CASE WriteFails
    <3>1. PICK n \in 0 .. Len(writer.hand) :
             writer' = [writer EXCEPT !.at = "fail", !.lost = Len(writer.hand) - n]
      BY <2>3 DEF WriteFails
    <3>2. writer.hand \in Bytestring
      BY <1>2 DEF WriterStates
    <3>3. Len(writer.hand) - n \in Nat
      BY <3>2 DEF Bytestring
    <3> QED
      BY <1>2, <3>1, <3>3 DEF WriterStates
  <2>4. CASE Flush
    BY <1>2, <2>4 DEF Flush, WriterStates
  <2>5. CASE FlushFails
    BY <1>2, <2>5 DEF FlushFails, WriterStates
  <2> QED
    BY <2>1, <2>2, <2>3, <2>4, <2>5
<1>4. BlocksAccounted'
  BY <1>1, <1>3 DEF PoolInv, BlocksAccounted, poolVars
<1>5. PoolInv'
  <2>1. UNCHANGED <<fill, queue, free, aged, BlockBytes>>
    BY <1>1 DEF poolVars, BlockBytes
  <2> QED
    BY <1>3, <1>4, <2>1 DEF PoolInv
<1> QED
  BY <1>1, <1>5, SourceUnchanged

(* The first of the published blocks, taken.                               *)
LEMMA Unqueue ==
  ASSUME NEW q \in Blocks, q # <<>>
  PROVE  /\ Head(q) \in Bytestring /\ Head(q) # <<>> /\ Tail(q) \in Blocks
         /\ Len(q) \in Nat \ {0} /\ Len(Tail(q)) = Len(q) - 1
  BY DEF Blocks

(* writer_next_entry_locked(): a block goes from the queue, or from the    *)
(* stage, into the writer's hand, which was empty.                         *)
LEMMA NextEntryStep == ASSUME CaptureInv, NextEntry PROVE CaptureInv'
<1> USE DEF CaptureInv
<1>0. /\ writer \in WriterStates /\ writer.at = "check" /\ writer.hand = <<>>
      /\ fill \in Bytestring /\ queue \in Blocks /\ free \in Nat /\ aged \in BOOLEAN
      /\ aged => fill # <<>>
      /\ Len(fill) < BlockBytes /\ BlockBytes \in Nat \ {0}
      /\ BlocksAccounted
  BY ConfigFacts DEF PoolInv, NextEntry
<1>1. UNCHANGED <<config, prod, next, accepted, carry, free>>
  BY DEF NextEntry
<1>2. SourceInv'
  BY <1>1, SourceUnchanged
<1>3. BlockBytes' = BlockBytes
  BY <1>1 DEF BlockBytes
<1>4. CASE queue # <<>>
  <2>1. /\ writer' = [writer EXCEPT !.at = "write", !.hand = Head(queue)]
        /\ queue' = Tail(queue) /\ fill' = fill /\ aged' = aged
    BY <1>4 DEF NextEntry
  <2>2. /\ Head(queue) \in Bytestring /\ Head(queue) # <<>> /\ Tail(queue) \in Blocks
        /\ Len(queue) \in Nat \ {0} /\ Len(Tail(queue)) = Len(queue) - 1
    BY <1>0, <1>4, Unqueue
  <2>3. writer' \in WriterStates /\ writer'.at = "write" /\ writer'.hand = Head(queue)
    BY <1>0, <2>1, <2>2 DEF WriterStates
  <2>4. BlocksAccounted'
    BY <1>0, <1>1, <2>1, <2>2, <2>3 DEF BlocksAccounted
  <2>5. aged' \in BOOLEAN /\ (aged' => fill' # <<>>)
    BY <1>0, <2>1
  <2>6. PoolInv'
    BY <1>0, <1>1, <1>3, <2>1, <2>2, <2>3, <2>4, <2>5 DEF PoolInv
  <2> QED
    BY <1>2, <2>6
<1>5. CASE queue = <<>> /\ run /\ aged
  <2>1. /\ writer' = [writer EXCEPT !.at = "write", !.hand = fill]
        /\ queue' = queue /\ fill' = <<>> /\ aged' = FALSE
    BY <1>5 DEF NextEntry
  <2>2. fill # <<>> /\ Len(queue) \in Nat
    BY <1>0, <1>5 DEF Blocks
  <2>3. writer' \in WriterStates /\ writer'.at = "write" /\ writer'.hand = fill
    BY <1>0, <2>1 DEF WriterStates
  <2>4. BlocksAccounted'
    BY <1>0, <1>1, <2>1, <2>2, <2>3 DEF BlocksAccounted
  <2>5. aged' \in BOOLEAN /\ (aged' => fill' # <<>>)
    BY <2>1
  <2>6. fill' \in Bytestring /\ Len(fill') < BlockBytes
    BY <1>0, <2>1 DEF Bytestring
  <2>7. PoolInv'
    BY <1>0, <1>1, <1>3, <2>1, <2>2, <2>3, <2>4, <2>5, <2>6 DEF PoolInv
  <2> QED
    BY <1>2, <2>7
<1>6. CASE queue = <<>> /\ (run => ~aged)
  <2>1. /\ \E a \in {"ended", "timed", "cond"} : writer' = [writer EXCEPT !.at = a]
        /\ queue' = queue /\ fill' = fill /\ aged' = aged
    BY <1>6 DEF NextEntry
  <2>2. writer' \in WriterStates /\ writer'.at \in {"ended", "timed", "cond"} /\ writer'.hand = writer.hand
    BY <1>0, <2>1 DEF WriterStates
  <2>3. BlocksAccounted'
    BY <1>0, <1>1, <2>1, <2>2 DEF BlocksAccounted
  <2>4. aged' \in BOOLEAN /\ (aged' => fill' # <<>>)
    BY <1>0, <2>1
  <2>5. PoolInv'
    BY <1>0, <1>1, <1>3, <2>1, <2>2, <2>3, <2>4 DEF PoolInv
  <2> QED
    BY <1>2, <2>5
<1> QED
  BY <1>4, <1>5, <1>6

(* writer_pool_release_locked() and writer_fail_and_drain() give back what *)
(* the writer has in hand, the latter all that is published as well.       *)
LEMMA GivenBack == ASSUME CaptureInv, Release \/ FailAndDrain PROVE CaptureInv'
<1> USE DEF CaptureInv
<1>0. /\ writer \in WriterStates /\ writer.at \in {"release", "fail"}
      /\ writer.at = "release" => writer.hand # <<>>
      /\ fill \in Bytestring /\ queue \in Blocks /\ free \in Nat /\ aged \in BOOLEAN
      /\ aged => fill # <<>>
      /\ Len(fill) < BlockBytes /\ Len(queue) \in Nat
      /\ BlocksAccounted
  BY DEF PoolInv, Release, FailAndDrain, Blocks
<1>1. UNCHANGED <<config, prod, next, accepted, carry, fill, aged, BlockBytes>>
  BY DEF Release, FailAndDrain, BlockBytes
<1>2. SourceInv'
  BY <1>1, SourceUnchanged
<1>3. aged' \in BOOLEAN /\ (aged' => fill' # <<>>)
  BY <1>0, <1>1
<1>4. CASE Release
  <2>1. /\ free' = free + 1 /\ queue' = queue
        /\ \E a \in {"flush", "check"} : writer' = [writer EXCEPT !.hand = <<>>, !.at = a]
    BY <1>4 DEF Release
  <2>2. writer' \in WriterStates /\ writer'.hand = <<>> /\ writer'.at \in {"flush", "check"}
    <3>1. <<>> \in Bytestring
      BY DEF Bytestring
    <3>2. PICK a \in {"flush", "check"} : writer' = [writer EXCEPT !.hand = <<>>, !.at = a]
      BY <2>1
    <3> QED
      BY <1>0, <3>1, <3>2 DEF WriterStates
  <2>3. writer.hand # <<>>
    BY <1>0, <1>4 DEF Release
  <2>4. BlocksAccounted'
    BY <1>0, <1>1, <2>1, <2>2, <2>3 DEF BlocksAccounted
  <2>5. PoolInv'
    BY <1>0, <1>1, <1>3, <2>1, <2>2, <2>4 DEF PoolInv
  <2> QED
    BY <1>2, <2>5
<1>5. CASE FailAndDrain
  <2>1. /\ free' = free + Len(queue) + (IF writer.hand # <<>> THEN 1 ELSE 0) /\ queue' = <<>>
        /\ writer' = [at |-> "ended", hand |-> <<>>, lost |-> 0]
    BY <1>5 DEF FailAndDrain
  <2>2. writer' \in WriterStates /\ writer'.hand = <<>> /\ writer'.at = "ended"
    BY <2>1 DEF WriterStates, Bytestring
  <2>3. queue' \in Blocks /\ Len(queue') = 0 /\ free' \in Nat
    BY <1>0, <2>1 DEF Blocks
  <2>4. BlocksAccounted'
    BY <1>0, <1>1, <2>1, <2>2, <2>3 DEF BlocksAccounted
  <2>5. PoolInv'
    BY <1>0, <1>1, <1>3, <2>2, <2>3, <2>4 DEF PoolInv
  <2> QED
    BY <1>2, <2>5
<1> QED
  BY <1>4, <1>5

-----------------------------------------------------------------------------
(* The end.                                                                *)

(* writer_stop_thread() publishes the staging block or gives it back.      *)
LEMMA StopStep == ASSUME CaptureInv, Close \/ Abort PROVE CaptureInv'
<1> USE DEF CaptureInv
<1>0. /\ writer \in WriterStates
      /\ writer.at \in {"write", "release"} => writer.hand # <<>>
      /\ writer.hand # <<>> => writer.at \in {"write", "release", "fail"}
      /\ fill \in Bytestring /\ queue \in Blocks /\ free \in Nat
      /\ Len(queue) \in Nat /\ BlockBytes \in Nat \ {0}
      /\ BlocksAccounted
  BY ConfigFacts DEF PoolInv, Blocks
<1>1. /\ UNCHANGED <<config, prod, next, accepted, BlockBytes>> /\ carry' \in {0, carry}
      /\ queue' = IF fill # <<>> /\ ~failed THEN Append(queue, fill) ELSE queue
      /\ free' = IF fill # <<>> /\ failed THEN free + 1 ELSE free
      /\ fill' = <<>> /\ aged' = FALSE /\ writer' = Signalled
  BY DEF Close, Abort, StopThread, BlockBytes
<1>2. SourceInv'
  BY <1>1, SourceUnchanged
<1>3. /\ writer' \in WriterStates /\ writer'.hand = writer.hand
      /\ writer'.at \in {"write", "release"} => writer'.hand # <<>>
      /\ writer'.hand # <<>> => writer'.at \in {"write", "release", "fail"}
  BY <1>0, <1>1, SignalledType
<1>4. fill' \in Bytestring /\ Len(fill') < BlockBytes
  BY <1>0, <1>1 DEF Bytestring
<1>5. aged' \in BOOLEAN /\ (aged' => fill' # <<>>)
  BY <1>1
<1>6. queue' \in Blocks /\ free' \in Nat /\ BlocksAccounted'
  <2>1. CASE fill = <<>>
    BY <1>0, <1>1, <1>3, <2>1 DEF BlocksAccounted
  <2>2. CASE fill # <<>> /\ failed
    <3>1. queue' = queue /\ free' = free + 1
      BY <1>1, <2>2
    <3> QED
      BY <1>0, <1>1, <1>3, <2>2, <3>1 DEF BlocksAccounted
  <2>3. CASE fill # <<>> /\ ~failed
    <3>1. queue' = Append(queue, fill) /\ free' = free
      BY <1>1, <2>3
    <3>2. queue' \in Blocks /\ Len(queue') = Len(queue) + 1
      BY <1>0, <2>3, <3>1 DEF Blocks
    <3>3. BlocksAccounted'
      BY <1>0, <1>1, <1>3, <2>3, <3>1, <3>2 DEF BlocksAccounted
    <3> QED
      BY <1>0, <3>1, <3>2, <3>3
  <2> QED
    BY <2>1, <2>2, <2>3
<1>7. PoolInv'
  BY <1>1, <1>3, <1>4, <1>5, <1>6 DEF PoolInv
<1> QED
  BY <1>2, <1>7

(* The steps that touch neither a block nor the source's bytes.            *)
LEMMA OtherSteps ==
  ASSUME CaptureInv,
         \/ \E kind \in Kinds : RecordEvent(kind)
         \/ Age \/ Closed \/ Aborted \/ UNCHANGED captureVars
  PROVE  CaptureInv'
<1> USE DEF CaptureInv
<1>1. UNCHANGED <<config, prod, next, accepted>> /\ carry' \in {0, carry}
  BY DEF RecordEvent, Age, Closed, Aborted, captureVars
<1>2. CASE Age
  <2>1. UNCHANGED <<fill, queue, free, writer, BlockBytes>> /\ fill # <<>> /\ aged' = TRUE
    BY <1>2 DEF Age, writerVars, BlockBytes
  <2>2. aged' \in BOOLEAN /\ (aged' => fill' # <<>>)
    BY <2>1
  <2>3. BlocksAccounted'
    BY <2>1 DEF PoolInv, BlocksAccounted
  <2>4. PoolInv'
    BY <2>1, <2>2, <2>3 DEF PoolInv
  <2> QED
    BY <1>1, <2>4, SourceUnchanged
<1>3. CASE ~Age
  <2>1. UNCHANGED <<config, poolVars, writer>>
    BY <1>3 DEF RecordEvent, Closed, Aborted, captureVars, writerVars, poolVars
  <2> QED
    BY <1>1, <2>1, PoolUnchanged, SourceUnchanged
<1> QED
  BY <1>2, <1>3

-----------------------------------------------------------------------------
LEMMA CaptureStep == CaptureInv /\ [CaptureNext]_captureVars => CaptureInv'
<1> SUFFICES ASSUME CaptureInv, [CaptureNext]_captureVars PROVE CaptureInv'
  OBVIOUS
<1>1. CASE \E n \in 1 .. MaxSubmit : Submit(n)
  BY <1>1, SubmitStep
<1>2. CASE Pack
  BY <1>2, PackStep
<1>3. CASE NoBlock \/ SubmitFails \/ PairDone \/ RestDone
  BY <1>3, SubmitEnds
<1>4. CASE Timeout \/ WriteBlock \/ WriteFails \/ Flush \/ FlushFails
  BY <1>4, WriterMoves
<1>5. CASE NextEntry
  BY <1>5, NextEntryStep
<1>6. CASE Release \/ FailAndDrain
  BY <1>6, GivenBack
<1>7. CASE Close \/ Abort
  BY <1>7, StopStep
<1>8. CASE \/ \E kind \in Kinds : RecordEvent(kind)
           \/ Age \/ Closed \/ Aborted \/ UNCHANGED captureVars
  BY <1>8, OtherSteps
<1> QED
  BY <1>1, <1>2, <1>3, <1>4, <1>5, <1>6, <1>7, <1>8 DEF CaptureNext, WriterStep, Done

(* Every block of the pool is in exactly one place (the comment on         *)
(* writer_pool_release_locked()): free, staged, published or in the        *)
(* writer's hand, whatever fails and whenever the capture ends.            *)
THEOREM PoolAccounted == CaptureSpec => []BlocksAccounted
<1>1. CaptureInv => BlocksAccounted
  BY DEF CaptureInv, PoolInv
<1> QED
  BY <1>1, InitCapture, CaptureStep, PTL DEF CaptureSpec

(* There is room wherever a block can go: a block about to be staged or    *)
(* published finds an entry of the queue that no other holds, which        *)
(* writer_publish_fill_locked() does not check, and a block given back a   *)
(* place on the free stack, which writer_pool_release_locked() checks and, *)
(* its comment says, need not.                                             *)
RoomForBlocks ==
    /\ fill # <<>> \/ free > 0 => Len(queue) < BlockCount
    /\ writer.hand # <<>> \/ fill # <<>> => free < BlockCount

(* The queue and the free stack of the capture's pool never overflow.      *)
THEOREM NoOverflow == CaptureSpec => []RoomForBlocks
<1>1. CaptureInv => RoomForBlocks
  <2> SUFFICES ASSUME CaptureInv PROVE RoomForBlocks
    OBVIOUS
  <2>1. Len(queue) \in Nat /\ free \in Nat
    BY DEF CaptureInv, PoolInv, Blocks
  <2> QED
    BY <2>1 DEF CaptureInv, PoolInv, BlocksAccounted, RoomForBlocks
<1> QED
  BY <1>1, InitCapture, CaptureStep, PTL DEF CaptureSpec

-----------------------------------------------------------------------------
(* The worker pool.                                                        *)

Busy == caller \in {"waiting", "woken"}
AtTask(w) == pc[w] \in {"run", "count"}

(* The worker has counted off its task of the current epoch.               *)
Counted(w) == w < posted /\ local[w] = epoch /\ ~AtTask(w)
CountOf(w) == IF Counted(w) THEN 1 ELSE 0

(* The pool's life: workers are there, and told to leave, only with it.    *)
LifeInv ==
    /\ ~pool => caller = "out" /\ \A w \in Workers : pc[w] = "none"
    /\ pool => (should_exit <=> caller = "joining")
    /\ epoch <= batch

(* A worker at a task either belongs to the call that is waiting, or has   *)
(* nothing to run.                                                         *)
WorkerInv(w) ==
    /\ local[w] <= epoch
    /\ pc[w] = "waiting" => local[w] = epoch
    /\ AtTask(w) /\ assigned[w] =>
        local[w] = epoch /\ w < posted /\ Busy /\ fn[w] = tasks[w]
    /\ AtTask(w) /\ ~assigned[w] => fn[w] = 0 /\ (local[w] = epoch => ~(w < posted))

(* What the call that is waiting has posted and how far it has come.       *)
CallInv ==
    Busy =>
        /\ posted = PostedCount(asked) /\ 0 < batch
        /\ \A w \in Workers :
            /\ tasks[w] = IF w \in asked THEN batch ELSE 0
            /\ ran[w] = IF w \in asked /\ local[w] = epoch /\ pc[w] # "run" THEN 1 ELSE 0

(* Between calls every task of the last one is counted.                    *)
RestInv ==
    ~Busy => BatchDone /\ (pool => \A w \in Workers : w < posted => Counted(w))

WorkersInv ==
    /\ PoolTypeOK
    /\ LifeInv
    /\ pool => \A w \in Workers : WorkerInv(w)
    /\ pool => completed = CountOf(0) + CountOf(1)
    /\ CallInv
    /\ RestInv

-----------------------------------------------------------------------------
LEMMA InitPool == PoolInit => WorkersInv
<1> SUFFICES ASSUME PoolInit PROVE WorkersInv
  OBVIOUS
<1> USE MaxBatchesAssumption DEF PoolInit, Workers
<1>0. /\ tasks \in [Workers -> 0 .. MaxBatches] /\ local \in [Workers -> 0 .. MaxBatches]
      /\ fn \in [Workers -> 0 .. MaxBatches] /\ ran \in [Workers -> 0 .. 2]
      /\ assigned \in [Workers -> BOOLEAN] /\ pc \in [Workers -> {"none"}]
  OBVIOUS
<1>1. PoolTypeOK
  BY <1>0 DEF PoolTypeOK
<1>2. LifeInv
  BY DEF LifeInv
<1>3. CallInv /\ RestInv
  BY DEF CallInv, RestInv, BatchDone, Busy
<1> QED
  BY <1>1, <1>2, <1>3 DEF WorkersInv

(* Creating a pool starts a new count of epochs with nothing posted.       *)
LEMMA CreateKeeps == WorkersInv /\ Create => WorkersInv'
<1> SUFFICES ASSUME WorkersInv, Create PROVE WorkersInv'
  OBVIOUS
<1> USE MaxBatchesAssumption DEF Create, WorkersInv, Workers, history
<1>5. /\ tasks' \in [Workers -> 0 .. MaxBatches] /\ local' \in [Workers -> 0 .. MaxBatches]
      /\ pc' \in [Workers -> {"none", "top", "waiting", "run", "count", "ended"}]
  OBVIOUS
<1>6. pool' \in BOOLEAN /\ should_exit' \in BOOLEAN
  BY Zenon
<1>1. PoolTypeOK'
  BY <1>5, <1>6 DEF PoolTypeOK
<1>0. LifeInv'
  BY DEF LifeInv, PoolTypeOK
<1>2. \A w \in Workers : WorkerInv(w)'
  BY DEF PoolTypeOK, WorkerInv, AtTask
<1>3. (completed = CountOf(0) + CountOf(1))'
  BY DEF PoolTypeOK, CountOf, Counted, AtTask
<1>4. CallInv' /\ RestInv'
  BY DEF CallInv, RestInv, BatchDone, Counted, Busy
<1> QED
  BY <1>0, <1>1, <1>2, <1>3, <1>4

LEMMA RunInlineKeeps == \A slots \in SUBSET Workers : WorkersInv /\ RunInline(slots) => WorkersInv'
<1> SUFFICES ASSUME NEW slots \in SUBSET Workers, WorkersInv, RunInline(slots) PROVE WorkersInv'
  OBVIOUS
<1> USE MaxBatchesAssumption DEF RunInline, WorkersInv, Workers, ctx, thread
<1>1. PoolTypeOK' /\ LifeInv'
  BY DEF PoolTypeOK, LifeInv
<1>2. CallInv' /\ RestInv'
  BY DEF CallInv, RestInv, BatchDone, Busy, PoolTypeOK
<1> QED
  BY <1>1, <1>2

(* Posting a call: no worker can still be at a task of the call before.    *)
LEMMA PostKeeps == \A slots \in SUBSET Workers : WorkersInv /\ Post(slots) => WorkersInv'
<1> SUFFICES ASSUME NEW slots \in SUBSET Workers, WorkersInv, Post(slots) PROVE WorkersInv'
  OBVIOUS
<1> USE MaxBatchesAssumption DEF Post, WorkersInv, Workers
<1>1. pc' = WakeAll /\ pc' \in [Workers -> {"none", "top", "waiting", "run", "count", "ended"}]
  BY DEF PoolTypeOK, WakeAll
<1>2. PoolTypeOK'
  BY <1>1 DEF PoolTypeOK, LifeInv, PostedCount
<1>3. LifeInv'
  BY DEF LifeInv, PoolTypeOK
<1>4. \A w \in Workers : WorkerInv(w)'
  BY <1>1 DEF WorkerInv, AtTask, WakeAll, PoolTypeOK, RestInv, Busy, Counted
<1>5. \A w \in Workers : local[w] # epoch'
  BY DEF WorkerInv, PoolTypeOK
<1>6. (completed = CountOf(0) + CountOf(1))'
  BY <1>5 DEF CountOf, Counted
<1>7. CallInv'
  BY <1>5 DEF CallInv, PoolTypeOK
<1>8. RestInv'
  BY DEF RestInv, Busy
<1> QED
  BY <1>2, <1>3, <1>4, <1>6, <1>7, <1>8

(* A call that finds the count complete returns with each task run once.   *)
LEMMA LookDoneKeeps == WorkersInv /\ LookDone => WorkersInv'
<1> SUFFICES ASSUME WorkersInv, LookDone PROVE WorkersInv'
  OBVIOUS
<1> USE DEF LookDone, WorkersInv, Workers, ctx, thread, history
<1>1. PoolTypeOK' /\ LifeInv'
  BY DEF PoolTypeOK, LifeInv
<1>2. pool
  BY DEF LifeInv
<1>3. (completed = CountOf(0) + CountOf(1))'
  BY <1>2 DEF CountOf, Counted, AtTask
<1>4. CASE completed < posted
  BY <1>1, <1>2, <1>3, <1>4 DEF WorkerInv, AtTask, Busy, CallInv, RestInv
<1>5. CASE ~(completed < posted)
  <2>1. posted \in {1, 2} /\ \A w \in Workers : w \in asked => w < posted
    BY DEF CallInv, Busy, PostedCount, PoolTypeOK
  <2>2. \A w \in Workers : w < posted => Counted(w)
    BY <1>2, <1>5, <2>1 DEF CountOf, Counted, PoolTypeOK
  <2>3. caller' = "out"
    BY <1>5
  <2>4. \A w \in Workers : WorkerInv(w)'
    BY <1>2, <2>2, <2>3 DEF WorkerInv, AtTask, Counted
  <2>5. CallInv'
    BY <2>3 DEF CallInv, Busy
  <2>6. BatchDone'
    BY <2>1, <2>2 DEF BatchDone, CallInv, Busy, Counted, AtTask
  <2>7. RestInv'
    BY <2>2, <2>6 DEF RestInv, Counted, AtTask
  <2> QED
    BY <1>1, <1>3, <2>4, <2>5, <2>7
<1> QED
  BY <1>4, <1>5

LEMMA CallerSpuriousKeeps == WorkersInv /\ CallerSpurious => WorkersInv'
<1> SUFFICES ASSUME WorkersInv, CallerSpurious PROVE WorkersInv'
  OBVIOUS
<1> USE DEF CallerSpurious, WorkersInv, Workers, ctx, thread, history
<1>1. PoolTypeOK' /\ LifeInv'
  BY DEF PoolTypeOK, LifeInv
<1>2. \A w \in Workers : (WorkerInv(w) => WorkerInv(w)') /\ CountOf(w)' = CountOf(w)
  BY DEF WorkerInv, CountOf, Counted, AtTask, Busy
<1>3. CallInv' /\ RestInv'
  BY DEF CallInv, RestInv, Busy
<1> QED
  BY <1>1, <1>2, <1>3

-----------------------------------------------------------------------------
(* What a step of one worker leaves of the other.                          *)
LEMMA OtherWorker ==
  ASSUME NEW w \in Workers, NEW v \in Workers, v # w,
         pool, WorkerInv(v), UNCHANGED <<epoch, posted, tasks>>,
         Busy => Busy' \/ AtTask(v) = FALSE,
         pc'[v] = pc[v], local'[v] = local[v], assigned'[v] = assigned[v], fn'[v] = fn[v]
  PROVE  WorkerInv(v)' /\ CountOf(v)' = CountOf(v)
  BY DEF WorkerInv, CountOf, Counted, AtTask, Busy

LEMMA TakeTaskKeeps == \A w \in Workers : WorkersInv /\ TakeTask(w) => WorkersInv'
<1> SUFFICES ASSUME NEW w \in Workers, WorkersInv, TakeTask(w) PROVE WorkersInv'
  OBVIOUS
<1>0. assigned' \in [Workers -> BOOLEAN] /\ (assigned'[w] <=> w < posted)
      /\ \A v \in Workers \ {w} : assigned'[v] = assigned[v]
  <2>1. assigned \in [Workers -> BOOLEAN] /\ (w < posted) \in BOOLEAN
    BY DEF WorkersInv, PoolTypeOK
  <2>2. assigned' = [assigned EXCEPT ![w] = (w < posted)]
    BY DEF TakeTask
  <2> QED
    BY <2>1, <2>2, Zenon
<1>a. /\ pc[w] = "top" /\ ~should_exit /\ epoch # local[w]
      /\ local' = [local EXCEPT ![w] = epoch] /\ pc' = [pc EXCEPT ![w] = "run"]
      /\ fn' = [fn EXCEPT ![w] = IF w < posted THEN tasks[w] ELSE 0]
      /\ UNCHANGED <<pool, ctx, caller, history>>
  BY DEF TakeTask
<1>b. /\ local' \in [Workers -> 0 .. MaxBatches] /\ fn' \in [Workers -> 0 .. MaxBatches]
      /\ pc' \in [Workers -> {"none", "top", "waiting", "run", "count", "ended"}]
  BY <1>a, MaxBatchesAssumption DEF WorkersInv, PoolTypeOK
<1>1. PoolTypeOK'
  BY <1>0, <1>a, <1>b DEF WorkersInv, PoolTypeOK, ctx, history
<1> USE <1>a DEF WorkersInv, Workers, ctx, history
<1>2. pool
  BY DEF LifeInv
<1>3. LifeInv'
  BY DEF LifeInv, PoolTypeOK
<1>4. /\ pc'[w] = "run" /\ local'[w] = epoch'
      /\ fn'[w] = IF w < posted THEN tasks[w] ELSE 0
      /\ \A v \in Workers \ {w} : /\ pc'[v] = pc[v] /\ local'[v] = local[v]
                                  /\ fn'[v] = fn[v]
  BY DEF PoolTypeOK
<1>5. w < posted => Busy
  BY <1>2 DEF RestInv, Counted, PoolTypeOK
<1>6. WorkerInv(w)' /\ CountOf(w)' = 0 /\ CountOf(w) = 0
  BY <1>0, <1>4, <1>5, <1>2 DEF WorkerInv, AtTask, Busy, CountOf, Counted, PoolTypeOK
<1>7. \A v \in Workers \ {w} : WorkerInv(v)' /\ CountOf(v)' = CountOf(v)
  BY <1>0, <1>2, <1>4, OtherWorker DEF Busy
<1>8. completed' = CountOf(0)' + CountOf(1)'
  BY <1>2, <1>6, <1>7
<1>9. CallInv'
  BY <1>4 DEF CallInv, Busy, PoolTypeOK
<1>10. RestInv'
  BY <1>2, <1>4, <1>5 DEF RestInv, BatchDone, Busy, Counted, AtTask, PoolTypeOK
<1> QED
  BY <1>1, <1>3, <1>6, <1>7, <1>8, <1>9, <1>10

(* Going to sleep, waking up and leaving change no worker's account.       *)
IdleStep(w) == Sleep(w) \/ WorkerSpurious(w) \/ End(w)

LEMMA IdleStepKeeps == \A w \in Workers : WorkersInv /\ IdleStep(w) => WorkersInv'
<1> SUFFICES ASSUME NEW w \in Workers, WorkersInv, IdleStep(w) PROVE WorkersInv'
  OBVIOUS
<1> USE DEF WorkersInv, Workers, ctx, history
<1>1. /\ UNCHANGED <<pool, ctx, caller, local, assigned, fn, history>>
      /\ pc[w] \in {"top", "waiting"} /\ pc'[w] \in {"top", "waiting", "ended"}
      /\ pc'[w] = "waiting" => local[w] = epoch
      /\ \A v \in Workers \ {w} : pc'[v] = pc[v]
      /\ pc' \in [Workers -> {"none", "top", "waiting", "run", "count", "ended"}]
  BY DEF IdleStep, Sleep, WorkerSpurious, End, PoolTypeOK
<1>2. pool
  BY <1>1 DEF LifeInv
<1>3. PoolTypeOK' /\ LifeInv'
  BY <1>1, <1>2 DEF PoolTypeOK, LifeInv
<1>4. WorkerInv(w)' /\ CountOf(w)' = CountOf(w)
  BY <1>1, <1>2 DEF WorkerInv, AtTask, CountOf, Counted
<1>5. \A v \in Workers \ {w} : WorkerInv(v)' /\ CountOf(v)' = CountOf(v)
  BY <1>1, <1>2, OtherWorker DEF Busy
<1>6. completed' = CountOf(0)' + CountOf(1)'
  BY <1>1, <1>2, <1>4, <1>5
<1>7. CallInv'
  BY <1>1 DEF CallInv, Busy
<1>8. RestInv'
  BY <1>1 DEF RestInv, BatchDone, Busy, Counted, AtTask
<1> QED
  BY <1>3, <1>4, <1>5, <1>6, <1>7, <1>8

(* Running the task: it is the one of the call that waits, and the first   *)
(* time.                                                                   *)
LEMMA RunKeeps == \A w \in Workers : WorkersInv /\ Run(w) => WorkersInv'
<1> SUFFICES ASSUME NEW w \in Workers, WorkersInv, Run(w) PROVE WorkersInv'
  OBVIOUS
<1> USE DEF Run, WorkersInv, Workers, ctx
<1>1. pool
  BY DEF LifeInv
<1>2. /\ pc'[w] = "count" /\ \A v \in Workers \ {w} : pc'[v] = pc[v]
      /\ pc' \in [Workers -> {"none", "top", "waiting", "run", "count", "ended"}]
  BY DEF PoolTypeOK
<1>3. /\ fn[w] # 0 => Busy /\ w \in asked /\ ran[w] = 0 /\ local[w] = epoch /\ fn[w] = batch
      /\ fn[w] = 0 => ran' = ran
  BY <1>1 DEF WorkerInv, AtTask, CallInv, Busy, PoolTypeOK
<1>4. /\ ran' \in [Workers -> 0 .. 2] /\ \A v \in Workers \ {w} : ran'[v] = ran[v]
      /\ ran'[w] = IF fn[w] # 0 THEN 1 ELSE ran[w]
  BY <1>3 DEF PoolTypeOK
<1>5. PoolTypeOK' /\ LifeInv'
  BY <1>1, <1>2, <1>4 DEF PoolTypeOK, LifeInv
<1>6. WorkerInv(w)' /\ CountOf(w)' = CountOf(w)
  BY <1>1, <1>2 DEF WorkerInv, AtTask, CountOf, Counted, Busy
<1>7. \A v \in Workers \ {w} : WorkerInv(v)' /\ CountOf(v)' = CountOf(v)
  BY <1>1, <1>2, OtherWorker DEF Busy
<1>8. completed' = CountOf(0)' + CountOf(1)'
  BY <1>1, <1>6, <1>7
<1>9. CallInv'
  <2> SUFFICES ASSUME Busy' PROVE CallInv'
    BY DEF CallInv
  <2>1. Busy
    BY DEF Busy
  <2>2. \A v \in Workers \ {w} : ran'[v] = IF v \in asked /\ local[v] = epoch /\ pc'[v] # "run" THEN 1 ELSE 0
    BY <1>2, <1>4, <2>1 DEF CallInv
  <2>3. fn[w] = 0 /\ local[w] = epoch => w \notin asked
    BY <1>1, <2>1 DEF WorkerInv, AtTask, CallInv, PoolTypeOK, PostedCount, LifeInv
  <2>4. ran'[w] = IF w \in asked /\ local[w] = epoch THEN 1 ELSE 0
    BY <1>3, <1>4, <2>1, <2>3 DEF CallInv
  <2> QED
    BY <1>2, <2>1, <2>2, <2>4 DEF CallInv
<1>10. RestInv'
  BY <1>1, <1>2, <1>3, <1>4 DEF RestInv, BatchDone, Busy, Counted, AtTask
<1> QED
  BY <1>5, <1>6, <1>7, <1>8, <1>9, <1>10

(* Counting: a worker with a task of the call moves from its task to the   *)
(* account, any other leaves the account alone.                            *)
LEMMA CountKeeps == \A w \in Workers : WorkersInv /\ Count(w) => WorkersInv'
<1> SUFFICES ASSUME NEW w \in Workers, WorkersInv, Count(w) PROVE WorkersInv'
  OBVIOUS
<1> USE DEF Count, WorkersInv, Workers, history
<1>1. pool
  BY DEF LifeInv
<1>2. /\ pc'[w] = "top" /\ \A v \in Workers \ {w} : pc'[v] = pc[v]
      /\ pc' \in [Workers -> {"none", "top", "waiting", "run", "count", "ended"}]
      /\ Busy' <=> Busy
      /\ caller' \in {"out", "waiting", "woken", "joining"}
      /\ caller = "out" => caller' = "out"
      /\ caller' = "joining" <=> caller = "joining"
  BY DEF PoolTypeOK, Busy
<1>3. /\ CountOf(w) = 0 /\ CountOf(w)' = IF assigned[w] THEN 1 ELSE 0
      /\ WorkerInv(w)'
  BY <1>1, <1>2 DEF WorkerInv, AtTask, CountOf, Counted, Busy, PoolTypeOK
<1>4. \A v \in Workers \ {w} : WorkerInv(v)' /\ CountOf(v)' = CountOf(v)
  BY <1>1, <1>2, OtherWorker
<1>5. completed' = CountOf(0)' + CountOf(1)' /\ completed' \in 0 .. 2
  BY <1>1, <1>3, <1>4 DEF CountOf
<1>6. PoolTypeOK' /\ LifeInv'
  BY <1>1, <1>2, <1>5 DEF PoolTypeOK, LifeInv
<1>7. CallInv'
  BY <1>2 DEF CallInv
<1>8. RestInv'
  BY <1>1, <1>2 DEF RestInv, BatchDone, Busy, Counted, AtTask, PoolTypeOK
<1> QED
  BY <1>3, <1>4, <1>5, <1>6, <1>7, <1>8

-----------------------------------------------------------------------------
LEMMA DestroyKeeps == WorkersInv /\ Destroy => WorkersInv'
<1> SUFFICES ASSUME WorkersInv, Destroy PROVE WorkersInv'
  OBVIOUS
<1> USE DEF Destroy, WorkersInv, Workers, history
<1>1. pc' = WakeAll /\ pc' \in [Workers -> {"none", "top", "waiting", "run", "count", "ended"}]
  BY DEF PoolTypeOK, WakeAll
<1>2. should_exit' \in BOOLEAN
  BY Zenon
<1>3. PoolTypeOK'
  BY <1>1, <1>2 DEF PoolTypeOK
<1>4. LifeInv'
  BY DEF LifeInv
<1>5. \A w \in Workers : WorkerInv(w)' /\ CountOf(w)' = CountOf(w)
  BY <1>1 DEF WorkerInv, AtTask, CountOf, Counted, Busy, WakeAll
<1>6. completed' = CountOf(0)' + CountOf(1)'
  BY <1>5
<1>7. CallInv' /\ RestInv'
  BY <1>1 DEF CallInv, RestInv, BatchDone, Busy, Counted, AtTask, WakeAll
<1> QED
  BY <1>3, <1>4, <1>5, <1>6, <1>7

LEMMA JoinedKeeps == WorkersInv /\ Joined => WorkersInv'
<1> SUFFICES ASSUME WorkersInv, Joined PROVE WorkersInv'
  OBVIOUS
<1> USE DEF Joined, WorkersInv, Workers, ctx, history
<1>1. pc' \in [Workers -> {"none", "top", "waiting", "run", "count", "ended"}]
  OBVIOUS
<1>2. pool' \in BOOLEAN
  BY Zenon
<1>3. PoolTypeOK'
  BY <1>1, <1>2 DEF PoolTypeOK
<1>4. LifeInv' /\ CallInv' /\ RestInv'
  BY DEF LifeInv, CallInv, RestInv, BatchDone, Busy
<1> QED
  BY <1>3, <1>4

LEMMA StutterKeeps == WorkersInv /\ UNCHANGED workerVars => WorkersInv'
  BY DEF WorkersInv, workerVars, PoolTypeOK, LifeInv, WorkerInv, CountOf, Counted, AtTask,
     Busy, CallInv, RestInv, BatchDone

(* The worker pool is sound for any number of batches, pools created and   *)
(* destroyed in between, and workers however late: when the call of        *)
(* demod_mt_run_two_impl() has returned each task has run exactly once,    *)
(* and no worker holds a task whose caller is gone.                        *)
THEOREM PoolCorrect == PoolSpec => []PoolSound
<1>1. PoolInit => WorkersInv
  BY InitPool
<1>2. WorkersInv /\ [PoolNext]_workerVars => WorkersInv'
  BY CreateKeeps, RunInlineKeeps, PostKeeps, LookDoneKeeps, CallerSpuriousKeeps, TakeTaskKeeps,
     IdleStepKeeps, RunKeeps, CountKeeps, DestroyKeeps, JoinedKeeps, StutterKeeps
     DEF PoolNext, IdleStep
<1>3. WorkersInv => PoolSound
  BY DEF WorkersInv, PoolSound, RestInv, BatchDone, ArgumentsLive, WorkerInv, AtTask, Busy, LifeInv,
     CallInv, Workers
<1> QED
  BY <1>1, <1>2, <1>3, PTL DEF PoolSpec
=============================================================================
