------------------------- MODULE CommandQueueProofs -------------------------
(***************************************************************************)
(* The application command queue, for every capacity of the ring, every    *)
(* desk and any number of submissions and sessions: each key and export    *)
(* request that dsd_app_command_submit() admitted is answered exactly      *)
(* once, commands take effect in their own session and in the order they   *)
(* were submitted, the last setting asked for stands, a burst of evictions *)
(* is warned about once, the last results stay readable, and no slot keeps *)
(* a command that has left the queue.                                      *)
(***************************************************************************)
EXTENDS CommandQueue, FiniteSetTheorems, TLAPS

Commands == [kind: AllKinds, valid: BOOLEAN, number: Nat \ {0}, named: Int, session: Nat]
Statuses == {"none", "applied", "failed", "invalid", "stale", "cancelled"}
Answers == [seq: Nat, number: Nat, status: Statuses]
DecoderStates ==
    [at: {"out", "opening", "run", "wait", "pop", "apply", "publish", "closing"},
     hand: Commands \cup {Zero}, result: Statuses]

(* The ring holds a command in each slot from head to tail and nothing in  *)
(* the others, and the drain one in its hand while it applies it.          *)
RingInv ==
    /\ head \in Slots /\ tail \in Slots
    /\ q \in [Slots -> Commands \cup {Zero}]
    /\ \A i \in Slots : i \in Live <=> q[i] # Zero
    /\ decoder \in DecoderStates
    /\ decoder.at \in {"apply", "publish"} <=> decoder.hand # Zero

(* What producers and results carry.                                       *)
SubmitInv ==
    /\ desk \in Desks
    /\ submits \in Nat /\ generation \in Nat
    /\ read \in [Producers -> Int]
    /\ newest \in [Feeds -> Nat]
    /\ answers \in [Feeds -> Seq(Answers)]
    /\ requests \in [Feeds -> SUBSET (1 .. submits)]

(* A submission is in one place.                                           *)
NumberInv ==
    /\ \A i \in Slots : q[i] # Zero => q[i].number <= submits
    /\ \A i, j \in Slots : q[i] # Zero /\ q[j] # Zero /\ i # j => q[i].number # q[j].number
    /\ decoder.hand # Zero =>
          /\ decoder.hand.number <= submits
          /\ \A i \in Slots : q[i] # Zero => q[i].number # decoder.hand.number

(* AnsweredOnce for one feed.                                              *)
FeedInv(f) ==
    /\ requests[f] = Answered(f) \cup Outstanding(f)
    /\ Answered(f) \cap Outstanding(f) = {}
    /\ Cardinality(Answered(f)) = Len(answers[f])

QueueInv == RingInv /\ SubmitInv /\ NumberInv /\ AnsweredOnce

-----------------------------------------------------------------------------
(* The ring.                                                               *)

LEMMA SlotArithmetic ==
  ASSUME NEW a \in Slots, NEW b \in Slots
  PROVE  /\ (b - a) % Cap = IF b >= a THEN b - a ELSE b - a + Cap
         /\ (a + 1) % Cap = IF a + 1 = Cap THEN 0 ELSE a + 1
         /\ (a - 1) % Cap = IF a = 0 THEN Cap - 1 ELSE a - 1
<1>1. Cap \in Nat \ {0, 1} /\ a \in 0 .. Cap - 1 /\ b \in 0 .. Cap - 1
  BY QueueAssumption DEF Slots
<1>2. \A n \in 0 .. Cap - 1 : n % Cap = n
  BY <1>1
<1>3. \A n \in -Cap .. -1 : n % Cap = n + Cap
  BY <1>1
<1>4. Cap % Cap = 0
  BY <1>1
<1>5. (b - a) % Cap = IF b >= a THEN b - a ELSE b - a + Cap
  <2>1. CASE b >= a
    <3>1. b - a \in 0 .. Cap - 1
      BY <1>1, <2>1
    <3> QED
      BY <1>1, <1>2, <2>1, <3>1
  <2>2. CASE b < a
    <3>1. b - a \in -Cap .. -1
      BY <1>1, <2>2
    <3> QED
      BY <1>1, <1>3, <2>2, <3>1
  <2> QED
    BY <1>1, <2>1, <2>2
<1>6. (a + 1) % Cap = IF a + 1 = Cap THEN 0 ELSE a + 1
  <2>1. CASE a + 1 = Cap
    BY <1>4, <2>1
  <2>2. CASE a + 1 # Cap
    <3>1. a + 1 \in 0 .. Cap - 1
      BY <1>1, <2>2
    <3> QED
      BY <1>2, <2>2, <3>1
  <2> QED
    BY <2>1, <2>2
<1>7. (a - 1) % Cap = IF a = 0 THEN Cap - 1 ELSE a - 1
  <2>1. CASE a = 0
    <3>1. a - 1 \in -Cap .. -1 /\ a - 1 + Cap = Cap - 1
      BY <1>1, <2>1
    <3> QED
      BY <1>3, <2>1, <3>1
  <2>2. CASE a # 0
    <3>1. a - 1 \in 0 .. Cap - 1
      BY <1>1, <2>2
    <3> QED
      BY <1>2, <2>2, <3>1
  <2> QED
    BY <2>1, <2>2
<1> QED
  BY <1>5, <1>6, <1>7

(* Where a slot lies between head and tail.                                *)
LEMMA LiveIs ==
  ASSUME head \in Slots, tail \in Slots, NEW i \in Slots
  PROVE  i \in Live <=> IF head <= tail THEN head <= i /\ i < tail ELSE head <= i \/ i < tail
<1>1. i \in Live <=> (i - head) % Cap < (tail - head) % Cap
  BY DEF Live
<1>2. /\ (i - head) % Cap = IF i >= head THEN i - head ELSE i - head + Cap
      /\ (tail - head) % Cap = IF tail >= head THEN tail - head ELSE tail - head + Cap
  BY SlotArithmetic
<1>3. Cap \in Nat /\ head \in 0 .. Cap - 1 /\ tail \in 0 .. Cap - 1 /\ i \in 0 .. Cap - 1
  BY QueueAssumption DEF Slots
<1> QED
  BY <1>1, <1>2, <1>3

(* The same after a step.                                                  *)
LEMMA LiveIsNext ==
  ASSUME head' \in Slots, tail' \in Slots, NEW i \in Slots
  PROVE  i \in Live' <=> IF head' <= tail' THEN head' <= i /\ i < tail' ELSE head' <= i \/ i < tail'
<1>1. i \in Live' <=> (i - head') % Cap < (tail' - head') % Cap
  BY DEF Live, Slots
<1>2. /\ (i - head') % Cap = IF i >= head' THEN i - head' ELSE i - head' + Cap
      /\ (tail' - head') % Cap = IF tail' >= head' THEN tail' - head' ELSE tail' - head' + Cap
  BY SlotArithmetic
<1>3. Cap \in Nat /\ head' \in 0 .. Cap - 1 /\ tail' \in 0 .. Cap - 1 /\ i \in 0 .. Cap - 1
  BY QueueAssumption DEF Slots
<1> QED
  BY <1>1, <1>2, <1>3

(* head is live unless the ring is empty, tail never is, and the slot      *)
(* before tail is the newest.                                              *)
LEMMA RingEnds ==
  ASSUME head \in Slots, tail \in Slots
  PROVE  /\ ~IsEmpty => head \in Live /\ (tail - 1) % Cap \in Live
         /\ tail \notin Live
         /\ IsFull => ~IsEmpty
         /\ (head + 1) % Cap \in Slots /\ (tail + 1) % Cap \in Slots /\ (tail - 1) % Cap \in Slots
<1>1. Cap \in Nat \ {0, 1} /\ head \in 0 .. Cap - 1 /\ tail \in 0 .. Cap - 1
  BY QueueAssumption DEF Slots
<1>2. /\ (head + 1) % Cap = IF head + 1 = Cap THEN 0 ELSE head + 1
      /\ (tail + 1) % Cap = IF tail + 1 = Cap THEN 0 ELSE tail + 1
      /\ (tail - 1) % Cap = IF tail = 0 THEN Cap - 1 ELSE tail - 1
  BY SlotArithmetic
<1>3. (head + 1) % Cap \in Slots /\ (tail + 1) % Cap \in Slots /\ (tail - 1) % Cap \in Slots
  BY <1>1, <1>2 DEF Slots
<1>4. tail \notin Live
  BY <1>1, LiveIs
<1>5. ~IsEmpty => head \in Live
  BY <1>1, LiveIs DEF IsEmpty
<1>6. ~IsEmpty => (tail - 1) % Cap \in Live
  <2> DEFINE last == (tail - 1) % Cap
  <2>1. last \in Slots /\ last = IF tail = 0 THEN Cap - 1 ELSE tail - 1
    BY <1>2, <1>3
  <2> HIDE DEF last
  <2>2. last \in Live <=> IF head <= tail THEN head <= last /\ last < tail ELSE head <= last \/ last < tail
    BY <2>1, LiveIs
  <2>3. ~IsEmpty => last \in Live
    BY <1>1, <2>1, <2>2 DEF IsEmpty
  <2> QED
    BY <2>3 DEF last
<1>7. IsFull => ~IsEmpty
  BY <1>1, <1>2 DEF IsFull, IsEmpty
<1> QED
  BY <1>3, <1>4, <1>5, <1>6, <1>7

(* What the moves of head and tail make of the live slots.                 *)
LEMMA RingMoves ==
  ASSUME head \in Slots, tail \in Slots, NEW i \in Slots
  PROVE  /\ ~IsEmpty /\ head' = (head + 1) % Cap /\ tail' = tail
              => (i \in Live' <=> i \in Live /\ i # head)
         /\ ~IsFull /\ head' = head /\ tail' = (tail + 1) % Cap
              => (i \in Live' <=> i \in Live \/ i = tail)
         /\ IsFull /\ head' = (head + 1) % Cap /\ tail' = (tail + 1) % Cap
              => (i \in Live' <=> (i \in Live /\ i # head) \/ i = tail)
<1>1. Cap \in Nat \ {0, 1} /\ head \in 0 .. Cap - 1 /\ tail \in 0 .. Cap - 1 /\ i \in 0 .. Cap - 1
  BY QueueAssumption DEF Slots
<1>2. /\ (head + 1) % Cap = IF head + 1 = Cap THEN 0 ELSE head + 1
      /\ (tail + 1) % Cap = IF tail + 1 = Cap THEN 0 ELSE tail + 1
  BY SlotArithmetic
<1>3. (head + 1) % Cap \in Slots /\ (tail + 1) % Cap \in Slots
  BY RingEnds
<1>4. i \in Live <=> IF head <= tail THEN head <= i /\ i < tail ELSE head <= i \/ i < tail
  BY LiveIs
<1>5. ASSUME ~IsEmpty, head' = (head + 1) % Cap, tail' = tail
      PROVE  i \in Live' <=> i \in Live /\ i # head
  <2>1. i \in Live' <=> IF head' <= tail' THEN head' <= i /\ i < tail' ELSE head' <= i \/ i < tail'
    BY <1>3, <1>5, LiveIsNext
  <2> QED
    BY <1>1, <1>2, <1>4, <1>5, <2>1 DEF IsEmpty
<1>6. ASSUME ~IsFull, head' = head, tail' = (tail + 1) % Cap
      PROVE  i \in Live' <=> i \in Live \/ i = tail
  <2>1. i \in Live' <=> IF head' <= tail' THEN head' <= i /\ i < tail' ELSE head' <= i \/ i < tail'
    BY <1>3, <1>6, LiveIsNext
  <2> QED
    BY <1>1, <1>2, <1>4, <1>6, <2>1 DEF IsFull
<1>7. ASSUME IsFull, head' = (head + 1) % Cap, tail' = (tail + 1) % Cap
      PROVE  i \in Live' <=> (i \in Live /\ i # head) \/ i = tail
  <2>1. i \in Live' <=> IF head' <= tail' THEN head' <= i /\ i < tail' ELSE head' <= i \/ i < tail'
    BY <1>3, <1>7, LiveIsNext
  <2> QED
    BY <1>1, <1>2, <1>4, <1>7, <2>1 DEF IsFull
<1> QED
  BY <1>5, <1>6, <1>7

-----------------------------------------------------------------------------
(* The feeds.                                                              *)

LEMMA FeedKinds == \A f \in Feeds : f # Zero.kind /\ f \in AllKinds
  BY DEF Feeds, Zero, AllKinds

(* A request is outstanding when a slot or the drain's hand holds it.      *)
LEMMA OutstandingIs ==
  ASSUME RingInv, NEW f \in Feeds, NEW n
  PROVE  n \in Outstanding(f) <=> \/ \E i \in Slots : q[i].kind = f /\ q[i].number = n
                                  \/ decoder.hand.kind = f /\ decoder.hand.number = n
<1>1. \A i \in Slots : q[i].kind = f => i \in Live
  BY FeedKinds DEF RingInv
<1>2. Live \subseteq Slots
  BY DEF Live
<1> QED
  BY <1>1, <1>2 DEF Outstanding

LEMMA OutstandingIsNext ==
  ASSUME RingInv', NEW f \in Feeds, NEW n
  PROVE  n \in Outstanding(f)' <=> \/ \E i \in Slots : q'[i].kind = f /\ q'[i].number = n
                                   \/ decoder'.hand.kind = f /\ decoder'.hand.number = n
<1>1. \A i \in Slots : q'[i].kind = f => i \in Live'
  BY FeedKinds DEF RingInv, Slots
<1>2. Live' \subseteq Slots
  BY DEF Live, Slots
<1> QED
  BY <1>1, <1>2 DEF Outstanding

(* A step answers the requests D of a feed, at most one, and admits the    *)
(* requests E, which are new.                                              *)
FeedStep(f, D, E) ==
    /\ D \subseteq Outstanding(f) /\ E \cap requests[f] = {}
    /\ Outstanding(f)' = (Outstanding(f) \ D) \cup E
    /\ requests'[f] = requests[f] \cup E
    /\ \/ D = {} /\ answers'[f] = answers[f]
       \/ \E r \in Answers : D = {r.number} /\ answers'[f] = Append(answers[f], r)

LEMMA FeedStepKeeps ==
  ASSUME SubmitInv, NEW f \in Feeds, FeedInv(f), NEW D, NEW E, FeedStep(f, D, E)
  PROVE  FeedInv(f)'
<1>0. /\ requests[f] = Answered(f) \cup Outstanding(f) /\ Answered(f) \cap Outstanding(f) = {}
      /\ Cardinality(Answered(f)) = Len(answers[f])
      /\ D \subseteq Outstanding(f) /\ E \cap requests[f] = {}
      /\ Outstanding(f)' = (Outstanding(f) \ D) \cup E
      /\ requests'[f] = requests[f] \cup E
  BY DEF FeedInv, FeedStep
<1>1. answers[f] \in Seq(Answers) /\ requests[f] \subseteq 1 .. submits /\ submits \in Nat
  BY DEF SubmitInv
<1>2. IsFiniteSet(Answered(f))
  <2>1. IsFiniteSet(1 .. submits)
    BY <1>1, FS_Interval
  <2> QED
    BY <1>0, <1>1, <2>1, FS_Subset
<1>3. Answered(f)' = Answered(f) \cup D /\ Cardinality(Answered(f)') = Len(answers'[f])
  <2>1. CASE D = {} /\ answers'[f] = answers[f]
    <3>1. Answered(f)' = Answered(f)
      BY <2>1 DEF Answered
    <3> QED
      BY <1>0, <2>1, <3>1
  <2>2. CASE \E r \in Answers : D = {r.number} /\ answers'[f] = Append(answers[f], r)
    <3>1. PICK r \in Answers : D = {r.number} /\ answers'[f] = Append(answers[f], r)
      BY <2>2
    <3>2. /\ Len(answers'[f]) = Len(answers[f]) + 1 /\ Len(answers[f]) \in Nat
          /\ DOMAIN answers'[f] = 1 .. Len(answers[f]) + 1 /\ DOMAIN answers[f] = 1 .. Len(answers[f])
          /\ \A k \in 1 .. Len(answers[f]) : answers'[f][k] = answers[f][k]
          /\ answers'[f][Len(answers[f]) + 1] = r
      BY <1>1, <3>1
    <3>3. Answered(f)' = Answered(f) \cup {r.number}
      <4>1. \A n : n \in Answered(f)' <=> \E k \in 1 .. Len(answers[f]) + 1 : answers'[f][k].number = n
        BY <3>2 DEF Answered
      <4>2. \A n : n \in Answered(f) <=> \E k \in 1 .. Len(answers[f]) : answers[f][k].number = n
        BY <3>2 DEF Answered
      <4>3. \A k \in 1 .. Len(answers[f]) + 1 : k \in 1 .. Len(answers[f]) \/ k = Len(answers[f]) + 1
        BY <3>2
      <4>4. 1 .. Len(answers[f]) \subseteq 1 .. Len(answers[f]) + 1 /\ Len(answers[f]) + 1 \in 1 .. Len(answers[f]) + 1
        BY <3>2
      <4> QED
        BY <3>2, <4>1, <4>2, <4>3, <4>4
    <3>4. r.number \notin Answered(f)
      BY <1>0, <3>1
    <3>5. Cardinality(Answered(f) \cup {r.number}) = Cardinality(Answered(f)) + 1
      BY <1>2, <3>4, FS_AddElement
    <3> QED
      BY <1>0, <3>1, <3>2, <3>3, <3>5
  <2> QED
    BY <2>1, <2>2 DEF FeedStep
<1> QED
  BY <1>0, <1>3 DEF FeedInv

(* A command that leaves a result leaves one, in its own feed.             *)
LEMMA PublishAnswers ==
  ASSUME SubmitInv, NEW cmd \in Commands, NEW status \in Statuses, Publish(cmd, status)
  PROVE  /\ newest' \in [Feeds -> Nat] /\ answers' \in [Feeds -> Seq(Answers)]
         /\ \A f \in Feeds :
               IF cmd.kind = f
               THEN \E r \in Answers : r.number = cmd.number /\ answers'[f] = Append(answers[f], r)
               ELSE answers'[f] = answers[f]
<1>0. newest \in [Feeds -> Nat] /\ answers \in [Feeds -> Seq(Answers)] /\ cmd.number \in Nat
  BY DEF SubmitInv, Commands
<1>1. CASE cmd.kind \in Feeds
  <2> DEFINE res == [seq |-> newest[cmd.kind] + 1, number |-> cmd.number, status |-> status]
  <2>1. /\ newest' = [newest EXCEPT ![cmd.kind] = newest[cmd.kind] + 1]
        /\ answers' = [answers EXCEPT ![cmd.kind] = Append(answers[cmd.kind], res)]
    BY <1>1 DEF Publish
  <2>2. res \in Answers /\ res.number = cmd.number
    BY <1>0, <1>1 DEF Answers
  <2> HIDE DEF res
  <2>3. Append(answers[cmd.kind], res) \in Seq(Answers)
    BY <1>0, <1>1, <2>2
  <2>4. newest' \in [Feeds -> Nat] /\ answers' \in [Feeds -> Seq(Answers)]
    BY <1>0, <1>1, <2>1, <2>3
  <2>5. \A f \in Feeds : answers'[f] = IF f = cmd.kind THEN Append(answers[f], res) ELSE answers[f]
    BY <1>0, <2>1
  <2> QED
    BY <2>2, <2>4, <2>5
<1>2. CASE cmd.kind \notin Feeds
  BY <1>0, <1>2 DEF Publish, resultVars
<1> QED
  BY <1>1, <1>2

-----------------------------------------------------------------------------
(* Producers.                                                              *)

(* A submission is a command with a number of its own.                     *)
LEMMA SubmittedIs ==
  ASSUME SubmitInv, NEW p \in Producers, NEW kind \in Kinds, NEW valid \in BOOLEAN
  PROVE  /\ Submitted(p, kind, valid) \in Commands
         /\ Submitted(p, kind, valid).kind = kind /\ Submitted(p, kind, valid).number = submits + 1
<1>1. kind \in AllKinds
  BY QueueAssumption DEF SubmitInv, Kinds
<1>2. read[p] \in Int /\ submits \in Nat /\ generation \in Nat
  BY DEF SubmitInv
<1>3. (IF kind = "key" THEN read[p] ELSE 0) \in Int /\ submits + 1 \in Nat \ {0}
  BY <1>2
<1> QED
  BY <1>1, <1>2, <1>3 DEF Submitted, Commands

LEMMA AskedSubmitInv ==
  ASSUME SubmitInv, NEW p \in Producers, NEW kind \in Kinds, Asks(p, kind),
         Admitted(kind) \/ UNCHANGED requests,
         newest' \in [Feeds -> Nat], answers' \in [Feeds -> Seq(Answers)]
  PROVE  SubmitInv'
<1>1. /\ desk' = desk /\ generation' = generation /\ submits' = submits + 1
      /\ read' = [read EXCEPT ![p] = NoGeneration] /\ Producers' = Producers
  BY DEF Asks, sessionVars, Producers
<1>2. submits \in Nat /\ generation \in Nat /\ read \in [Producers -> Int]
      /\ requests \in [Feeds -> SUBSET (1 .. submits)]
  BY DEF SubmitInv
<1>3. read' \in [Producers -> Int]
  BY <1>1, <1>2 DEF NoGeneration
<1>4. requests' \in [Feeds -> SUBSET (1 .. submits')]
  <2>1. 1 .. submits \subseteq 1 .. submits + 1 /\ submits + 1 \in 1 .. submits + 1
    BY <1>2
  <2>2. requests' = requests \/ (kind \in Feeds /\ requests' = [requests EXCEPT ![kind] = @ \cup {submits + 1}])
    BY DEF Admitted
  <2> QED
    BY <1>1, <1>2, <2>1, <2>2
<1> QED
  BY <1>1, <1>2, <1>3, <1>4 DEF SubmitInv

(* What a submission adds to a feed.                                       *)
New(f, kind) == IF kind = f THEN {submits + 1} ELSE {}

LEMMA AdmittedIs ==
  ASSUME SubmitInv, NEW kind, Admitted(kind), NEW f \in Feeds
  PROVE  requests'[f] = requests[f] \cup New(f, kind) /\ New(f, kind) \cap requests[f] = {}
<1>1. requests \in [Feeds -> SUBSET (1 .. submits)] /\ submits \in Nat
  BY DEF SubmitInv
<1>2. submits + 1 \notin requests[f]
  BY <1>1
<1>3. requests'[f] = requests[f] \cup New(f, kind)
  BY <1>1 DEF Admitted, New
<1> QED
  BY <1>2, <1>3 DEF New

LEMMA CoalesceStep ==
  ASSUME QueueInv, NEW p \in Producers, NEW kind \in Kinds, NEW valid \in BOOLEAN, Coalesce(p, kind, valid)
  PROVE  QueueInv'
<1> USE DEF QueueInv
<1> DEFINE new == Submitted(p, kind, valid)
<1>0. /\ new \in Commands /\ new.kind = kind /\ new.number = submits + 1 /\ new # Zero
      /\ submits \in Nat /\ submits' = submits + 1
      /\ q \in [Slots -> Commands \cup {Zero}] /\ head \in Slots /\ tail \in Slots
  <2>1. new \in Commands /\ new.kind = kind /\ new.number = submits + 1
    BY SubmittedIs
  <2>2. new # Zero
    BY <2>1 DEF Zero, Commands, AllKinds
  <2> QED
    BY <2>1, <2>2 DEF SubmitInv, RingInv, Coalesce, Asks
<1>1. PICK i \in Overwrites(kind, valid) : q' = [q EXCEPT ![i] = new]
  BY DEF Coalesce
<1> HIDE DEF new
<1>2. i \in Slots /\ i \in Live /\ Id(q[i].kind) = Id(kind) /\ Id(kind) \in Coalescible
  BY <1>0, RingEnds DEF Overwrites, PendingTail
<1>3. UNCHANGED <<head, tail, decoder, newest, answers>> /\ Live' = Live /\ Admitted(kind) /\ Asks(p, kind)
  BY DEF Coalesce, resultVars, Asks, Live
<1>4. \A j \in Slots : q'[j] = IF j = i THEN new ELSE q[j]
  BY <1>0, <1>1
<1>5. RingInv'
  <2>1. q' \in [Slots -> Commands \cup {Zero}]
    BY <1>0, <1>1
  <2>2. \A j \in Slots : j \in Live' <=> q'[j] # Zero
    BY <1>0, <1>2, <1>3, <1>4 DEF RingInv
  <2> QED
    BY <1>3, <2>1, <2>2 DEF RingInv, Slots
<1>6. SubmitInv'
  BY <1>3, AskedSubmitInv DEF SubmitInv
<1>7. NumberInv'
  <2>1. \A j \in Slots : q[j] # Zero => q[j].number \in Nat /\ q[j].number <= submits
    BY <1>0 DEF NumberInv, Commands
  <2>2. decoder.hand # Zero => decoder.hand.number \in Nat /\ decoder.hand.number <= submits
    BY DEF NumberInv, RingInv, DecoderStates, Commands
  <2>3. \A j \in Slots : q[j] # Zero => q[j].number <= submits + 1 /\ q[j].number # submits + 1
    BY <1>0, <2>1
  <2>4. decoder.hand # Zero => decoder.hand.number <= submits + 1 /\ decoder.hand.number # submits + 1
    BY <1>0, <2>2
  <2>5. q[i] # Zero /\ submits + 1 <= submits + 1
    BY <1>0, <1>2 DEF RingInv
  <2> QED
    BY <1>0, <1>2, <1>3, <1>4, <2>3, <2>4, <2>5 DEF NumberInv, Slots
<1>8. \A f \in Feeds : kind # f /\ q[i].kind # f
  BY <1>2 DEF Feeds, Id, Coalescible, Setters
<1>9. ASSUME NEW f \in Feeds PROVE FeedInv(f)'
  <2>1. FeedStep(f, {}, {})
    <3>1. Outstanding(f)' = Outstanding(f)
      <4>1. \A n : \A j \in Slots : q'[j].kind = f /\ q'[j].number = n <=> q[j].kind = f /\ q[j].number = n
        BY <1>0, <1>4, <1>8
      <4>2. ASSUME NEW n PROVE n \in Outstanding(f)' <=> n \in Outstanding(f)
        <5>1. n \in Outstanding(f) <=> \/ \E j \in Slots : q[j].kind = f /\ q[j].number = n
                                       \/ decoder.hand.kind = f /\ decoder.hand.number = n
          BY OutstandingIs
        <5>2. n \in Outstanding(f)' <=> \/ \E j \in Slots : q'[j].kind = f /\ q'[j].number = n
                                        \/ decoder'.hand.kind = f /\ decoder'.hand.number = n
          BY <1>5, OutstandingIsNext
        <5> QED
          BY <1>3, <4>1, <5>1, <5>2
      <4> QED
        BY <4>2
    <3>2. requests'[f] = requests[f]
      <4>1. New(f, kind) = {}
        BY <1>8 DEF New
      <4>2. requests'[f] = requests[f] \cup New(f, kind)
        BY <1>3, AdmittedIs
      <4> QED
        BY <4>1, <4>2
    <3> QED
      BY <1>3, <3>1, <3>2 DEF FeedStep
  <2>2. FeedInv(f)
    BY DEF AnsweredOnce, FeedInv
  <2> QED
    BY <2>1, <2>2, FeedStepKeeps
<1>10. AnsweredOnce'
  BY <1>9 DEF AnsweredOnce, FeedInv
<1> QED
  BY <1>5, <1>6, <1>7, <1>10

(* A step that takes the commands in the slots R out of the ring, and puts *)
(* new, the next submission, into the slot of N, if any.                   *)
RingStep(R, N, new) ==
    /\ R \subseteq Slots /\ N \subseteq Slots /\ \A i, j \in N : i = j
    /\ N # {} => new \in Commands /\ new.number = submits + 1 /\ submits' = submits + 1
    /\ submits' \in {submits, submits + 1}
    /\ head' \in Slots /\ tail' \in Slots
    /\ \A i \in Slots : i \in Live' <=> (i \in Live /\ i \notin R) \/ i \in N
    /\ q' \in [Slots -> Commands \cup {Zero}]
    /\ \A i \in Slots : q'[i] = IF i \in N THEN new ELSE IF i \in R THEN Zero ELSE q[i]
    /\ decoder' \in DecoderStates
    /\ decoder'.at \in {"apply", "publish"} <=> decoder'.hand # Zero
    /\ decoder'.hand \in {decoder.hand, Zero} \cup {q[i] : i \in R}

LEMMA CommandIsNotZero == \A c \in Commands : c # Zero /\ c.kind # Zero.kind
  BY DEF Commands, Zero, AllKinds

LEMMA RingStepKeeps ==
  ASSUME RingInv, NumberInv, submits \in Nat, NEW R, NEW N, NEW new, RingStep(R, N, new)
  PROVE  RingInv' /\ NumberInv'
<1> USE DEF RingStep
<1>1. /\ q \in [Slots -> Commands \cup {Zero}] /\ Slots' = Slots
      /\ \A i \in Slots : i \in Live <=> q[i] # Zero
  BY DEF RingInv, Slots
<1>2. \A i \in N : new # Zero
  BY CommandIsNotZero
<1>3. \A i \in Slots : i \in Live' <=> q'[i] # Zero
  BY <1>1, <1>2
<1>4. RingInv'
  BY <1>1, <1>3 DEF RingInv
<1>5. \A i \in Slots : q[i] # Zero => q[i].number \in Nat /\ q[i].number <= submits
  BY <1>1 DEF NumberInv, Commands
<1>6. \A i \in Slots : q[i] # Zero => q[i].number <= submits' /\ q[i].number # submits + 1
  BY <1>5
<1>7. \A i \in Slots : q'[i] # Zero => \/ i \in N /\ q'[i] = new
                                       \/ i \notin N /\ i \notin R /\ q[i] # Zero /\ q'[i] = q[i]
  <2>1. \A i \in Slots : q'[i] = IF i \in N THEN new ELSE IF i \in R THEN Zero ELSE q[i]
    BY Zenon DEF RingStep
  <2> HIDE DEF RingStep
  <2>2. ASSUME NEW i \in Slots, q'[i] # Zero
        PROVE  \/ i \in N /\ q'[i] = new
               \/ i \notin N /\ i \notin R /\ q[i] # Zero /\ q'[i] = q[i]
    <3>1. q'[i] = IF i \in N THEN new ELSE IF i \in R THEN Zero ELSE q[i]
      BY <2>1, Zenon
    <3>2. CASE i \in N
      BY <3>1, <3>2
    <3>3. CASE i \notin N
      BY <2>2, <3>1, <3>3
    <3> QED
      BY <3>2, <3>3, Zenon
  <2> QED
    BY <2>2, Zenon
<1>8. N # {} => new.number <= submits' /\ new.number = submits + 1
  <2>1. submits + 1 <= submits + 1
    OBVIOUS
  <2> QED
    BY <2>1
<1>9. \A i \in Slots : q'[i] # Zero => q'[i].number <= submits'
  BY <1>6, <1>7, <1>8
<1>10. \A i, j \in Slots : q'[i] # Zero /\ q'[j] # Zero /\ i # j => q'[i].number # q'[j].number
  <2> SUFFICES ASSUME NEW i \in Slots, NEW j \in Slots, q'[i] # Zero, q'[j] # Zero, i # j
               PROVE  q'[i].number # q'[j].number
    OBVIOUS
  <2>1. CASE i \in N \/ j \in N
    BY <1>6, <1>7, <1>8, <2>1
  <2>2. CASE i \notin N /\ j \notin N
    BY <1>7, <2>2 DEF NumberInv
  <2> QED
    BY <2>1, <2>2
<1>11. ASSUME decoder'.hand # Zero
       PROVE  /\ decoder'.hand.number <= submits'
              /\ \A i \in Slots : q'[i] # Zero => q'[i].number # decoder'.hand.number
  <2>1. CASE decoder'.hand = decoder.hand
    <3>1. /\ decoder.hand.number \in Nat /\ decoder.hand.number <= submits
          /\ \A i \in Slots : q[i] # Zero => q[i].number # decoder.hand.number
      BY <1>11, <2>1 DEF NumberInv, RingInv, DecoderStates, Commands
    <3>2. decoder.hand.number <= submits' /\ decoder.hand.number # submits + 1
      BY <3>1
    <3> QED
      BY <1>7, <1>8, <2>1, <3>1, <3>2
  <2>2. CASE \E r \in R : decoder'.hand = q[r]
    <3>1. PICK r \in R : decoder'.hand = q[r]
      BY <2>2
    <3>2. r \in Slots /\ q[r] # Zero
      BY <1>11, <3>1
    <3>3. q[r].number <= submits' /\ q[r].number # submits + 1
      BY <1>6, <3>2
    <3>4. \A i \in Slots : q'[i] # Zero => q'[i].number # q[r].number
      <4> SUFFICES ASSUME NEW i \in Slots, q'[i] # Zero PROVE q'[i].number # q[r].number
        OBVIOUS
      <4>1. CASE i \in N
        BY <1>7, <1>8, <3>3, <4>1
      <4>2. CASE i \notin N
        BY <1>7, <3>2, <4>2 DEF NumberInv
      <4> QED
        BY <4>1, <4>2
    <3> QED
      BY <3>1, <3>3, <3>4
  <2> QED
    BY <1>11, <2>1, <2>2
<1>12. NumberInv'
  BY <1>1, <1>9, <1>10, <1>11 DEF NumberInv
<1> QED
  BY <1>4, <1>12

(* What leaves a feed with the slots R.                                    *)
Gone(f, R) == {q[i].number : i \in {j \in R : q[j].kind = f}}

(* A step of the ring that leaves the drain's hand alone.                  *)
LEMMA RingStepOutstanding ==
  ASSUME RingInv, RingInv', NumberInv, NEW R, NEW N, NEW new, RingStep(R, N, new),
         decoder'.hand = decoder.hand, NEW f \in Feeds, N \cap (Live \ R) = {}
  PROVE  /\ Gone(f, R) \subseteq Outstanding(f)
         /\ Outstanding(f)' = (Outstanding(f) \ Gone(f, R)) \cup (IF N # {} THEN New(f, new.kind) ELSE {})
<1> USE DEF RingStep
<1>0. \A i \in Slots : q[i].kind = f => q[i] # Zero
  BY FeedKinds
<1>1. \A n : n \in Outstanding(f) <=> \/ \E i \in Slots : q[i].kind = f /\ q[i].number = n
                                      \/ decoder.hand.kind = f /\ decoder.hand.number = n
  BY OutstandingIs
<1>2. \A n : n \in Outstanding(f)' <=> \/ \E i \in Slots : q'[i].kind = f /\ q'[i].number = n
                                       \/ decoder.hand.kind = f /\ decoder.hand.number = n
  BY OutstandingIsNext
<1>3. \A n : n \in Gone(f, R) <=> \E i \in R : q[i].kind = f /\ q[i].number = n
  BY DEF Gone
<1>4. Gone(f, R) \subseteq Outstanding(f)
  BY <1>1, <1>3
<1>5. \A n : (\E i \in Slots : q'[i].kind = f /\ q'[i].number = n) <=>
                \/ N # {} /\ new.kind = f /\ n = new.number
                \/ \E i \in Slots \ R : q[i].kind = f /\ q[i].number = n
  <2>1. \A i \in Slots : i \in N => i \in R \/ q[i] = Zero
    BY DEF RingInv
  <2>2. \A i \in Slots \ R : q[i].kind = f => i \notin N
    BY <1>0, <2>1
  <2>3. \A i \in Slots : q'[i].kind = f => i \in N \/ i \notin R
    BY FeedKinds
  <2> QED
    BY <2>2, <2>3
<1>6. \A i \in Slots \ R : q[i].kind = f => q[i].number \notin Gone(f, R)
  BY <1>0, <1>3 DEF NumberInv
<1>7. decoder.hand.kind = f => decoder.hand.number \notin Gone(f, R)
  <2>1. decoder.hand.kind = f => decoder.hand # Zero
    BY FeedKinds
  <2> QED
    BY <1>0, <1>3, <2>1 DEF NumberInv
<1>8. \A n : n \in (IF N # {} THEN New(f, new.kind) ELSE {}) <=> N # {} /\ new.kind = f /\ n = new.number
  BY DEF New
<1>9. ASSUME NEW n
      PROVE  n \in Outstanding(f)' <=> n \in (Outstanding(f) \ Gone(f, R)) \cup (IF N # {} THEN New(f, new.kind) ELSE {})
  BY <1>1, <1>2, <1>3, <1>5, <1>6, <1>7, <1>8
<1> QED
  BY <1>4, <1>9

(* Such a step keeps the invariant when it answers the requests that leave *)
(* and records the one that comes.                                         *)
FeedsFollow(R, N, new) ==
    \A f \in Feeds :
       LET E == IF N # {} THEN New(f, new.kind) ELSE {}
       IN  /\ requests'[f] = requests[f] \cup E /\ E \cap requests[f] = {}
           /\ \/ Gone(f, R) = {} /\ answers'[f] = answers[f]
              \/ \E r \in Answers : Gone(f, R) = {r.number} /\ answers'[f] = Append(answers[f], r)

LEMMA RingStepSound ==
  ASSUME QueueInv, SubmitInv', NEW R, NEW N, NEW new, RingStep(R, N, new), FeedsFollow(R, N, new),
         decoder'.hand = decoder.hand, N \cap (Live \ R) = {}
  PROVE  QueueInv'
<1>1. RingInv /\ SubmitInv /\ NumberInv /\ AnsweredOnce /\ submits \in Nat
  BY DEF QueueInv, SubmitInv
<1>2. RingInv' /\ NumberInv'
  BY <1>1, RingStepKeeps
<1>3. ASSUME NEW f \in Feeds PROVE FeedInv(f)'
  <2> DEFINE E == IF N # {} THEN New(f, new.kind) ELSE {}
  <2>1. Gone(f, R) \subseteq Outstanding(f) /\ Outstanding(f)' = (Outstanding(f) \ Gone(f, R)) \cup E
    BY <1>1, <1>2, RingStepOutstanding
  <2>2. FeedStep(f, Gone(f, R), E)
    BY <2>1 DEF FeedStep, FeedsFollow
  <2>3. FeedInv(f)
    BY <1>1 DEF AnsweredOnce, FeedInv
  <2> QED
    BY <1>1, <2>2, <2>3, FeedStepKeeps
<1>4. AnsweredOnce'
  BY <1>3 DEF AnsweredOnce, FeedInv
<1> QED
  BY <1>2, <1>4 DEF QueueInv

LEMMA EnqueueStep ==
  ASSUME QueueInv, NEW p \in Producers, NEW kind \in Kinds, NEW valid \in BOOLEAN, Enqueue(p, kind, valid)
  PROVE  QueueInv'
<1> DEFINE new == Submitted(p, kind, valid)
<1>0. RingInv /\ SubmitInv
  BY DEF QueueInv
<1>1. new \in Commands /\ new.kind = kind /\ new.number = submits + 1
  BY <1>0, SubmittedIs
<1>2. /\ Asks(p, kind) /\ Admitted(kind) /\ ~IsFull /\ UNCHANGED <<decoder, newest, answers>>
      /\ q' = [q EXCEPT ![tail] = new] /\ head' = head /\ tail' = (tail + 1) % Cap
      /\ submits' = submits + 1
  BY DEF Enqueue, Asks, resultVars
<1> HIDE DEF new
<1>3. head \in Slots /\ tail \in Slots /\ tail \notin Live /\ (tail + 1) % Cap \in Slots
  BY <1>0, RingEnds DEF RingInv
<1>4. /\ q \in [Slots -> Commands \cup {Zero}] /\ decoder \in DecoderStates
      /\ decoder.at \in {"apply", "publish"} <=> decoder.hand # Zero
  BY <1>0 DEF RingInv
<1>5. SubmitInv'
  BY <1>0, <1>2, AskedSubmitInv DEF SubmitInv
<1>6. RingStep({}, {tail}, new)
  <2>1. \A i \in Slots : i \in Live' <=> i \in Live \/ i = tail
    BY <1>2, <1>3, RingMoves
  <2>2. q' \in [Slots -> Commands \cup {Zero}] /\ \A i \in Slots : q'[i] = IF i = tail THEN new ELSE q[i]
    BY <1>1, <1>2, <1>3, <1>4
  <2> QED
    BY <1>1, <1>2, <1>3, <1>4, <2>1, <2>2 DEF RingStep
<1>7. ASSUME NEW f \in Feeds
      PROVE  /\ requests'[f] = requests[f] \cup New(f, kind) /\ New(f, kind) \cap requests[f] = {}
             /\ Gone(f, {}) = {} /\ answers'[f] = answers[f]
  BY <1>0, <1>2, AdmittedIs DEF Gone
<1>8. FeedsFollow({}, {tail}, new)
  BY <1>1, <1>7 DEF FeedsFollow
<1>9. decoder'.hand = decoder.hand /\ {tail} \cap (Live \ {}) = {}
  BY <1>2, <1>3
<1> QED
  BY <1>5, <1>6, <1>8, <1>9, RingStepSound

(* The oldest command of a ring that is not empty.                         *)
LEMMA Oldest ==
  ASSUME RingInv, ~IsEmpty
  PROVE  head \in Live /\ head \in Slots /\ q[head] \in Commands /\ (head + 1) % Cap \in Slots
  BY RingEnds DEF RingInv

(* Its result is the answer it owes its feed.                              *)
LEMMA OldestAnswered ==
  ASSUME RingInv, SubmitInv, ~IsEmpty, Publish(q[head], "cancelled")
  PROVE  /\ newest' \in [Feeds -> Nat] /\ answers' \in [Feeds -> Seq(Answers)]
         /\ \A f \in Feeds :
               \/ Gone(f, {head}) = {} /\ answers'[f] = answers[f]
               \/ \E r \in Answers : Gone(f, {head}) = {r.number} /\ answers'[f] = Append(answers[f], r)
<1>0. q[head] \in Commands
  BY Oldest
<1>3. "cancelled" \in Statuses
  BY DEF Statuses
<1>1. /\ newest' \in [Feeds -> Nat] /\ answers' \in [Feeds -> Seq(Answers)]
      /\ \A f \in Feeds :
            IF q[head].kind = f
            THEN \E r \in Answers : r.number = q[head].number /\ answers'[f] = Append(answers[f], r)
            ELSE answers'[f] = answers[f]
  BY <1>0, <1>3, PublishAnswers, Zenon
<1>2. \A f \in Feeds : Gone(f, {head}) = IF q[head].kind = f THEN {q[head].number} ELSE {}
  BY DEF Gone
<1> QED
  BY <1>1, <1>2

LEMMA EvictStep ==
  ASSUME QueueInv, NEW p \in Producers, NEW kind \in Kinds, NEW valid \in BOOLEAN, Evict(p, kind, valid)
  PROVE  QueueInv'
<1> DEFINE new == Submitted(p, kind, valid)
<1>0. RingInv /\ SubmitInv
  BY DEF QueueInv
<1>1. new \in Commands /\ new.kind = kind /\ new.number = submits + 1
  BY <1>0, SubmittedIs
<1>2. /\ Asks(p, kind) /\ Admitted(kind) /\ IsFull /\ UNCHANGED decoder
      /\ q' = [q EXCEPT ![head] = Zero, ![tail] = new]
      /\ head' = (head + 1) % Cap /\ tail' = (tail + 1) % Cap
      /\ submits' = submits + 1 /\ Publish(q[head], "cancelled")
  BY DEF Evict, Asks
<1> HIDE DEF new
<1>3. head \in Slots /\ tail \in Slots /\ tail \notin Live /\ (tail + 1) % Cap \in Slots /\ ~IsEmpty
  BY <1>0, <1>2, RingEnds DEF RingInv
<1>4. /\ q \in [Slots -> Commands \cup {Zero}] /\ decoder \in DecoderStates
      /\ decoder.at \in {"apply", "publish"} <=> decoder.hand # Zero
  BY <1>0 DEF RingInv
<1>5. /\ newest' \in [Feeds -> Nat] /\ answers' \in [Feeds -> Seq(Answers)]
      /\ \A f \in Feeds :
            \/ Gone(f, {head}) = {} /\ answers'[f] = answers[f]
            \/ \E r \in Answers : Gone(f, {head}) = {r.number} /\ answers'[f] = Append(answers[f], r)
  BY <1>0, <1>2, <1>3, OldestAnswered
<1>6. SubmitInv'
  BY <1>0, <1>2, <1>5, AskedSubmitInv
<1>7. RingStep({head}, {tail}, new)
  <2>1. \A i \in Slots : i \in Live' <=> (i \in Live /\ i # head) \/ i = tail
    BY <1>2, <1>3, RingMoves
  <2>2. /\ q' \in [Slots -> Commands \cup {Zero}]
        /\ \A i \in Slots : q'[i] = IF i = tail THEN new ELSE IF i = head THEN Zero ELSE q[i]
    BY <1>1, <1>2, <1>3, <1>4
  <2>3. (head + 1) % Cap \in Slots
    BY <1>0, <1>3, Oldest
  <2> QED
    BY <1>1, <1>2, <1>3, <1>4, <2>1, <2>2, <2>3 DEF RingStep
<1>8. FeedsFollow({head}, {tail}, new)
  <2>1. \A f \in Feeds : requests'[f] = requests[f] \cup New(f, kind) /\ New(f, kind) \cap requests[f] = {}
    BY <1>0, <1>2, AdmittedIs
  <2> QED
    BY <1>1, <1>5, <2>1 DEF FeedsFollow
<1>9. decoder'.hand = decoder.hand /\ {tail} \cap (Live \ {head}) = {}
  BY <1>2, <1>3
<1> QED
  BY <1>6, <1>7, <1>8, <1>9, RingStepSound

LEMMA CancelStep ==
  ASSUME QueueInv, Cancel
  PROVE  QueueInv'
<1>0. RingInv /\ SubmitInv
  BY DEF QueueInv
<1>1. /\ ~IsEmpty /\ Publish(q[head], "cancelled") /\ UNCHANGED <<desk, tail, decoder>>
      /\ q' = [q EXCEPT ![head] = Zero] /\ head' = (head + 1) % Cap
      /\ UNCHANGED <<submits, generation, read, requests>>
  BY DEF Cancel, sessionVars, askVars
<1>2. head \in Live /\ head \in Slots /\ (head + 1) % Cap \in Slots /\ tail \in Slots
  BY <1>0, <1>1, Oldest DEF RingInv
<1>3. /\ q \in [Slots -> Commands \cup {Zero}] /\ decoder \in DecoderStates
      /\ decoder.at \in {"apply", "publish"} <=> decoder.hand # Zero
  BY <1>0 DEF RingInv
<1>4. /\ newest' \in [Feeds -> Nat] /\ answers' \in [Feeds -> Seq(Answers)]
      /\ \A f \in Feeds :
            \/ Gone(f, {head}) = {} /\ answers'[f] = answers[f]
            \/ \E r \in Answers : Gone(f, {head}) = {r.number} /\ answers'[f] = Append(answers[f], r)
  BY <1>0, <1>1, OldestAnswered
<1>5. SubmitInv'
  BY <1>0, <1>1, <1>4 DEF SubmitInv, Producers
<1>6. RingStep({head}, {}, Zero)
  <2>1. \A i \in Slots : i \in Live' <=> i \in Live /\ i # head
    BY <1>1, <1>2, RingMoves
  <2>2. /\ q' \in [Slots -> Commands \cup {Zero}]
        /\ \A i \in Slots : q'[i] = IF i = head THEN Zero ELSE q[i]
    BY <1>1, <1>2, <1>3
  <2> QED
    BY <1>1, <1>2, <1>3, <2>1, <2>2 DEF RingStep
<1>7. FeedsFollow({head}, {}, Zero)
  BY <1>1, <1>4 DEF FeedsFollow
<1>8. decoder'.hand = decoder.hand /\ {} \cap (Live \ {head}) = {}
  BY <1>1
<1> QED
  BY <1>5, <1>6, <1>7, <1>8, RingStepSound

-----------------------------------------------------------------------------
(* The drain.                                                              *)

LEMMA PopStep ==
  ASSUME QueueInv, Pop
  PROVE  QueueInv'
<1>0. RingInv /\ SubmitInv /\ NumberInv /\ AnsweredOnce /\ submits \in Nat
  BY DEF QueueInv, SubmitInv
<1>1. /\ decoder.at = "pop" /\ ~IsEmpty /\ decoder' = [at |-> "apply", hand |-> q[head], result |-> "none"]
      /\ q' = [q EXCEPT ![head] = Zero] /\ head' = (head + 1) % Cap
      /\ UNCHANGED <<desk, tail, submits, generation, read, requests, newest, answers>>
  BY DEF Pop, sessionVars, askVars, resultVars
<1>2. head \in Live /\ head \in Slots /\ (head + 1) % Cap \in Slots /\ tail \in Slots /\ q[head] \in Commands
  BY <1>0, <1>1, Oldest DEF RingInv
<1>3. q \in [Slots -> Commands \cup {Zero}] /\ decoder.hand = Zero /\ q[head] # Zero
  BY <1>0, <1>1, <1>2, CommandIsNotZero DEF RingInv
<1>4. \A i \in Slots : q'[i] = IF i = head THEN Zero ELSE q[i]
  BY <1>1, <1>2, <1>3
<1>5. RingStep({head}, {}, Zero)
  <2>1. \A i \in Slots : i \in Live' <=> i \in Live /\ i # head
    BY <1>1, <1>2, RingMoves
  <2>2. q' \in [Slots -> Commands \cup {Zero}]
    BY <1>1, <1>2, <1>3
  <2>3. decoder' \in DecoderStates /\ decoder'.at = "apply" /\ decoder'.hand = q[head]
    BY <1>1, <1>2 DEF DecoderStates, Statuses
  <2> QED
    BY <1>1, <1>2, <1>3, <1>4, <2>1, <2>2, <2>3 DEF RingStep
<1>6. RingInv' /\ NumberInv'
  BY <1>0, <1>5, RingStepKeeps
<1>7. SubmitInv'
  BY <1>0, <1>1 DEF SubmitInv, Producers
<1>8. ASSUME NEW f \in Feeds PROVE FeedInv(f)'
  <2>1. Outstanding(f)' = Outstanding(f)
    <3>1. Zero.kind # f
      BY FeedKinds
    <3>2. ASSUME NEW n PROVE n \in Outstanding(f)' <=> n \in Outstanding(f)
      <4>1. n \in Outstanding(f) <=> \/ \E i \in Slots : q[i].kind = f /\ q[i].number = n
                                     \/ decoder.hand.kind = f /\ decoder.hand.number = n
        BY <1>0, OutstandingIs
      <4>2. n \in Outstanding(f)' <=> \/ \E i \in Slots : q'[i].kind = f /\ q'[i].number = n
                                      \/ decoder'.hand.kind = f /\ decoder'.hand.number = n
        BY <1>6, OutstandingIsNext
      <4>3. decoder'.hand = q[head]
        BY <1>1
      <4>4. (\E i \in Slots : q[i].kind = f /\ q[i].number = n) <=>
               \/ \E i \in Slots : q'[i].kind = f /\ q'[i].number = n
               \/ q[head].kind = f /\ q[head].number = n
        BY <1>2, <1>4, <3>1
      <4> QED
        BY <1>3, <3>1, <4>1, <4>2, <4>3, <4>4
    <3> QED
      BY <3>2
  <2>2. FeedStep(f, {}, {})
    BY <1>1, <2>1 DEF FeedStep
  <2>3. FeedInv(f)
    BY <1>0 DEF AnsweredOnce, FeedInv
  <2> QED
    BY <1>0, <2>2, <2>3, FeedStepKeeps
<1>9. AnsweredOnce'
  BY <1>8 DEF AnsweredOnce, FeedInv
<1> QED
  BY <1>6, <1>7, <1>9 DEF QueueInv

(* A step that leaves the ring alone.                                      *)
LEMMA StillRing ==
  ASSUME RingInv, UNCHANGED <<q, head, tail>>, submits' \in {submits, submits + 1},
         decoder' \in DecoderStates, decoder'.at \in {"apply", "publish"} <=> decoder'.hand # Zero,
         decoder'.hand \in {decoder.hand, Zero}
  PROVE  RingStep({}, {}, Zero)
<1>1. head \in Slots /\ tail \in Slots /\ q \in [Slots -> Commands \cup {Zero}]
  BY DEF RingInv
<1>2. Live' = Live
  BY DEF Live, Slots
<1> QED
  BY <1>1, <1>2 DEF RingStep

LEMMA PublishResultStep ==
  ASSUME QueueInv, PublishResult
  PROVE  QueueInv'
<1>0. RingInv /\ SubmitInv /\ NumberInv /\ AnsweredOnce /\ submits \in Nat
  BY DEF QueueInv, SubmitInv
<1>1. /\ decoder.at = "publish" /\ decoder' = At("pop") /\ Publish(decoder.hand, decoder.result)
      /\ UNCHANGED <<q, head, tail>> /\ UNCHANGED <<desk, submits, generation, read, requests>>
  BY DEF PublishResult, ringVars, sessionVars, askVars
<1>2. decoder.hand # Zero /\ decoder.hand \in Commands /\ decoder.result \in Statuses
  BY <1>0, <1>1 DEF RingInv, DecoderStates
<1>3. decoder' \in DecoderStates /\ decoder'.at = "pop" /\ decoder'.hand = Zero
  BY <1>1 DEF At, DecoderStates, Statuses
<1>4. RingInv' /\ NumberInv'
  <2>1. RingStep({}, {}, Zero)
    BY <1>0, <1>1, <1>3, StillRing
  <2> QED
    BY <1>0, <2>1, RingStepKeeps
<1>5. /\ newest' \in [Feeds -> Nat] /\ answers' \in [Feeds -> Seq(Answers)]
      /\ \A f \in Feeds :
            IF decoder.hand.kind = f
            THEN \E r \in Answers : r.number = decoder.hand.number /\ answers'[f] = Append(answers[f], r)
            ELSE answers'[f] = answers[f]
  BY <1>0, <1>1, <1>2, PublishAnswers, Zenon
<1>6. SubmitInv'
  BY <1>0, <1>1, <1>5 DEF SubmitInv, Producers
<1>7. ASSUME NEW f \in Feeds PROVE FeedInv(f)'
  <2> DEFINE D == IF decoder.hand.kind = f THEN {decoder.hand.number} ELSE {}
  <2>1. Zero.kind # f
    BY FeedKinds
  <2>2. \A n : n \in Outstanding(f) <=> \/ \E i \in Slots : q[i].kind = f /\ q[i].number = n
                                        \/ decoder.hand.kind = f /\ decoder.hand.number = n
    BY <1>0, OutstandingIs
  <2>3. \A n : n \in Outstanding(f)' <=> \E i \in Slots : q[i].kind = f /\ q[i].number = n
    BY <1>1, <1>3, <1>4, <2>1, OutstandingIsNext
  <2>4. \A i \in Slots : q[i].kind = f => q[i].number # decoder.hand.number
    BY <1>0, <1>2, <2>1 DEF NumberInv
  <2>5. D \subseteq Outstanding(f) /\ Outstanding(f)' = Outstanding(f) \ D
    BY <2>2, <2>3, <2>4
  <2>6. FeedStep(f, D, {})
    BY <1>1, <1>5, <2>5 DEF FeedStep
  <2>7. FeedInv(f)
    BY <1>0 DEF AnsweredOnce, FeedInv
  <2> QED
    BY <1>0, <2>6, <2>7, FeedStepKeeps
<1>8. AnsweredOnce'
  BY <1>7 DEF AnsweredOnce, FeedInv
<1> QED
  BY <1>4, <1>6, <1>8 DEF QueueInv

(* A step that moves no command.                                           *)
LEMMA QuietStep ==
  ASSUME QueueInv, SubmitInv', UNCHANGED <<q, head, tail, requests, answers>>,
         submits' \in {submits, submits + 1}, decoder'.hand = decoder.hand,
         decoder' \in DecoderStates, decoder'.at \in {"apply", "publish"} <=> decoder'.hand # Zero
  PROVE  QueueInv'
<1>1. RingStep({}, {}, Zero)
  BY StillRing DEF QueueInv
<1>2. FeedsFollow({}, {}, Zero)
  BY DEF FeedsFollow, Gone
<1>3. {} \cap (Live \ {}) = {}
  OBVIOUS
<1> QED
  BY <1>1, <1>2, <1>3, RingStepSound

LEMMA RejectStep ==
  ASSUME QueueInv, NEW p \in Producers, NEW kind \in Kinds, Reject(p, kind)
  PROVE  QueueInv'
<1>0. RingInv /\ SubmitInv
  BY DEF QueueInv
<1>1. /\ Asks(p, kind) /\ UNCHANGED <<q, head, tail, requests, answers>> /\ UNCHANGED <<newest, decoder>>
      /\ submits' = submits + 1
  BY DEF Reject, Asks, ringVars, resultVars
<1>2. SubmitInv'
  BY <1>0, <1>1, AskedSubmitInv DEF SubmitInv
<1>3. /\ decoder' \in DecoderStates /\ decoder'.hand = decoder.hand
      /\ decoder'.at \in {"apply", "publish"} <=> decoder'.hand # Zero
  BY <1>0, <1>1 DEF RingInv
<1> QED
  BY <1>1, <1>2, <1>3, QuietStep

(* A step of the decoder that ends with an empty hand, as it began.        *)
LEMMA MoveStep ==
  ASSUME QueueInv, NEW to \in {"out", "opening", "run", "wait", "pop", "closing"},
         decoder.at \notin {"apply", "publish"}, decoder' = At(to),
         UNCHANGED <<ringVars, resultVars, askVars>>, generation' \in Nat
  PROVE  QueueInv'
<1>0. RingInv /\ SubmitInv
  BY DEF QueueInv
<1>1. /\ UNCHANGED <<q, head, tail, requests, answers>> /\ UNCHANGED <<desk, submits, read, newest>>
  BY DEF ringVars, resultVars, askVars
<1>2. SubmitInv'
  BY <1>0, <1>1 DEF SubmitInv, Producers
<1>3. decoder.hand = Zero
  BY <1>0 DEF RingInv
<1>4. decoder' \in DecoderStates /\ decoder'.at = to /\ decoder'.hand = Zero
  BY DEF At, DecoderStates, Statuses
<1> QED
  BY <1>1, <1>2, <1>3, <1>4, QuietStep

(* A command that is refused or applied stays in the drain's hand.         *)
LEMMA HandStep ==
  ASSUME QueueInv, decoder.at = "apply", NEW status \in Statuses,
         decoder' = [decoder EXCEPT !.at = "publish", !.result = status],
         UNCHANGED <<ringVars, sessionVars, resultVars, askVars>>
  PROVE  QueueInv'
<1>0. RingInv /\ SubmitInv
  BY DEF QueueInv
<1>1. UNCHANGED <<q, head, tail, requests, answers>> /\ UNCHANGED <<desk, submits, read, newest, generation>>
  BY DEF ringVars, sessionVars, resultVars, askVars
<1>2. SubmitInv'
  BY <1>0, <1>1 DEF SubmitInv, Producers
<1>3. decoder \in DecoderStates /\ decoder.hand # Zero
  BY <1>0 DEF RingInv
<1>4. decoder' \in DecoderStates /\ decoder'.at = "publish" /\ decoder'.hand = decoder.hand
  BY <1>3 DEF DecoderStates
<1> QED
  BY <1>1, <1>2, <1>3, <1>4, QuietStep

-----------------------------------------------------------------------------
(* The invariant.                                                          *)

LEMMA InitQueue == QueueInit => QueueInv
<1> SUFFICES ASSUME QueueInit PROVE QueueInv
  OBVIOUS
<1>1. Cap \in Nat \ {0, 1} /\ 0 \in Slots /\ Zero.kind = "zero"
  BY QueueAssumption DEF Slots, Zero
<1>2. head = 0 /\ tail = 0 /\ q = [i \in Slots |-> Zero] /\ decoder = At("out") /\ desk \in Desks
  BY DEF QueueInit
<1>3. Live = {}
  <2>1. \A i \in Slots : i \notin Live
    BY <1>1, <1>2, LiveIs DEF Slots
  <2> QED
    BY <2>1 DEF Live
<1>4. decoder \in DecoderStates /\ decoder.at = "out" /\ decoder.hand = Zero
  BY <1>2 DEF At, DecoderStates, Statuses
<1>5. RingInv
  BY <1>1, <1>2, <1>3, <1>4 DEF RingInv
<1>6. SubmitInv
  <2>1. read \in [Producers -> Int]
    BY DEF QueueInit, NoGeneration
  <2>2. <<>> \in Seq(Answers)
    OBVIOUS
  <2> QED
    BY <1>2, <2>1, <2>2 DEF QueueInit, SubmitInv
<1>7. NumberInv
  BY <1>2, <1>4 DEF NumberInv
<1>8. ASSUME NEW f \in Feeds PROVE FeedInv(f)
  <2>1. answers[f] = <<>> /\ requests[f] = {}
    BY DEF QueueInit
  <2>2. Answered(f) = {}
    BY <2>1 DEF Answered
  <2>3. ASSUME NEW n PROVE n \notin Outstanding(f)
    <3>1. n \in Outstanding(f) <=> \/ \E i \in Slots : q[i].kind = f /\ q[i].number = n
                                   \/ decoder.hand.kind = f /\ decoder.hand.number = n
      BY <1>5, OutstandingIs
    <3> QED
      BY <1>2, <1>4, <3>1, FeedKinds
  <2> QED
    BY <2>1, <2>2, <2>3, FS_EmptySet DEF FeedInv
<1> QED
  BY <1>5, <1>6, <1>7, <1>8 DEF QueueInv, AnsweredOnce, FeedInv

LEMMA QueueStep ==
  ASSUME QueueInv, [QueueNext]_queueVars
  PROVE  QueueInv'
<1>0. RingInv /\ SubmitInv /\ generation \in Nat /\ decoder \in DecoderStates
  BY DEF QueueInv, SubmitInv, RingInv
<1>1. ASSUME NEW p \in Producers, ReadGeneration(p) PROVE QueueInv'
  <2>1. /\ UNCHANGED <<q, head, tail, requests, answers>> /\ UNCHANGED <<desk, submits, newest, generation, decoder>>
        /\ read' = [read EXCEPT ![p] = Generation]
    BY <1>1 DEF ReadGeneration, ringVars, sessionVars, resultVars
  <2>2. Generation \in Int
    BY <1>0 DEF Generation
  <2>3. read' \in [Producers -> Int]
    BY <1>0, <2>1, <2>2 DEF SubmitInv
  <2>4. SubmitInv'
    BY <1>0, <2>1, <2>3 DEF SubmitInv, Producers
  <2>5. decoder' \in DecoderStates /\ (decoder'.at \in {"apply", "publish"} <=> decoder'.hand # Zero)
    BY <1>0, <2>1 DEF RingInv
  <2> QED
    BY <2>1, <2>4, <2>5, QuietStep
<1>2. ASSUME NEW p \in Producers, NEW kind \in Kinds, Reject(p, kind) PROVE QueueInv'
  BY <1>2, RejectStep
<1>3. ASSUME NEW p \in Producers, NEW kind \in Kinds, NEW valid \in BOOLEAN,
             Coalesce(p, kind, valid) \/ Enqueue(p, kind, valid) \/ Evict(p, kind, valid)
      PROVE  QueueInv'
  BY <1>3, CoalesceStep, EnqueueStep, EvictStep
<1>4. CASE StartSession
  BY <1>0, <1>4, MoveStep DEF StartSession, sessionVars
<1>5. CASE StopSession
  BY <1>0, <1>5, MoveStep DEF StopSession, sessionVars
<1>6. CASE Cancel
  BY <1>6, CancelStep
<1>7. CASE Edge
  <2> DEFINE to == IF open' THEN "run" ELSE "out"
  <2>1. decoder' = At(to) /\ decoder.at \notin {"apply", "publish"} /\ UNCHANGED <<ringVars, resultVars, askVars>>
    BY <1>7 DEF Edge, Unlocked
  <2>2. generation' \in Nat /\ to \in {"out", "opening", "run", "wait", "pop", "closing"}
    BY <1>0, <1>7 DEF Edge
  <2> HIDE DEF to
  <2> QED
    BY <2>1, <2>2, MoveStep
<1>8. CASE Samples \/ Pending \/ Pump
  BY <1>0, <1>8, MoveStep DEF Samples, Pending, Pump, Move, sessionVars
<1>9. CASE Pop
  BY <1>9, PopStep
<1>10. CASE DrainDone
  BY <1>0, <1>10, MoveStep DEF DrainDone, sessionVars
<1>11. CASE Refuse
  <2>1. "invalid" \in Statuses
    BY DEF Statuses
  <2> QED
    BY <1>11, <2>1, HandStep DEF Refuse
<1>12. CASE Apply
  <2>1. PICK status \in CASE decoder.hand.kind = "key"  -> KeyStatus(decoder.hand)
                         [] decoder.hand.kind = "quit" -> {"applied"}
                         [] OTHER -> {"applied", "failed"} :
              decoder' = [decoder EXCEPT !.at = "publish", !.result = status]
    BY <1>12 DEF Apply
  <2>2. status \in Statuses
    BY <2>1 DEF KeyStatus, Statuses
  <2>3. decoder.at = "apply" /\ UNCHANGED <<ringVars, sessionVars, resultVars, askVars>>
    BY <1>12 DEF Apply
  <2> QED
    BY <2>1, <2>2, <2>3, HandStep
<1>13. CASE PublishResult
  BY <1>13, PublishResultStep
<1>14. CASE Shutdown \/ UNCHANGED queueVars
  <2>1. UNCHANGED <<q, head, tail, requests, answers>> /\ UNCHANGED <<desk, submits, read, newest, generation, decoder>>
    BY <1>14 DEF Shutdown, queueVars, ringVars, sessionVars, resultVars, askVars
  <2>2. SubmitInv'
    BY <1>0, <2>1 DEF SubmitInv, Producers
  <2>3. decoder' \in DecoderStates /\ (decoder'.at \in {"apply", "publish"} <=> decoder'.hand # Zero)
    BY <1>0, <2>1 DEF RingInv
  <2> QED
    BY <2>1, <2>2, <2>3, QuietStep
<1> QED
  BY <1>1, <1>2, <1>3, <1>4, <1>5, <1>6, <1>7, <1>8, <1>9, <1>10, <1>11, <1>12, <1>13, <1>14
  DEF QueueNext

(* The invariant that the other results rest on.                           *)
THEOREM QueueInvariant == QueueSpec => []QueueInv
<1>1. QueueInit => QueueInv
  BY InitQueue
<1>2. QueueInv /\ [QueueNext]_queueVars => QueueInv'
  BY QueueStep
<1> QED
  BY <1>1, <1>2, PTL DEF QueueSpec

(* Every key or export request that was admitted is queued, in the drain's *)
(* hand or answered, one of the three and answered once, whatever mix of   *)
(* evictions, session edges and drains it went through.                    *)
THEOREM EveryRequestAnswered == QueueSpec => []AnsweredOnce
<1>1. QueueInv => AnsweredOnce
  BY DEF QueueInv
<1> QED
  BY <1>1, QueueInvariant, PTL

(* A slot outside head .. tail holds nothing of a command, however it left *)
(* the queue (DSD_SECURE_ZERO of the slot).                                *)
THEOREM NothingLeftBehind == QueueSpec => []StorageCleared
<1>1. QueueInv => StorageCleared
  BY DEF QueueInv, RingInv, StorageCleared
<1> QED
  BY <1>1, QueueInvariant, PTL

-----------------------------------------------------------------------------
(* Sessions and order.                                                     *)

Rank(i) == (i - head) % Cap
NextRank(i) == (i - head') % Cap

(* Taking the oldest command keeps the order of the others, a command put  *)
(* at the tail is the last, and so is the one before the tail.             *)
LEMMA RankMoves ==
  ASSUME head \in Slots, tail \in Slots, NEW i \in Slots, NEW j \in Slots
  PROVE  /\ head' = (head + 1) % Cap /\ i # head /\ j # head
              => (NextRank(i) < NextRank(j) => Rank(i) < Rank(j))
         /\ ~IsFull /\ head' = head /\ tail' = (tail + 1) % Cap /\ i \in Live'
              => ~(NextRank(tail) < NextRank(i))
         /\ IsFull /\ head' = (head + 1) % Cap /\ tail' = (tail + 1) % Cap /\ i \in Live'
              => ~(NextRank(tail) < NextRank(i))
         /\ j = (tail - 1) % Cap /\ i \in Live => ~(Rank(j) < Rank(i))
<1>1. Cap \in Nat \ {0, 1} /\ head \in 0 .. Cap - 1 /\ tail \in 0 .. Cap - 1
      /\ i \in 0 .. Cap - 1 /\ j \in 0 .. Cap - 1
  BY QueueAssumption DEF Slots
<1>2. /\ (head + 1) % Cap = IF head + 1 = Cap THEN 0 ELSE head + 1
      /\ (tail + 1) % Cap = IF tail + 1 = Cap THEN 0 ELSE tail + 1
      /\ (tail - 1) % Cap = IF tail = 0 THEN Cap - 1 ELSE tail - 1
  BY SlotArithmetic
<1>3. (head + 1) % Cap \in Slots /\ (tail + 1) % Cap \in Slots
  BY RingEnds
<1>4. \A k \in Slots : Rank(k) = IF k >= head THEN k - head ELSE k - head + Cap
  BY SlotArithmetic DEF Rank
<1>5. head' \in Slots => \A k \in Slots : (k - head') % Cap = IF k >= head' THEN k - head' ELSE k - head' + Cap
  BY SlotArithmetic
<1>6. ASSUME head' = (head + 1) % Cap, i # head, j # head, NextRank(i) < NextRank(j)
      PROVE  Rank(i) < Rank(j)
  <2>1. /\ (i - head') % Cap = IF i >= head' THEN i - head' ELSE i - head' + Cap
        /\ (j - head') % Cap = IF j >= head' THEN j - head' ELSE j - head' + Cap
    BY <1>3, <1>5, <1>6
  <2>2. (i - head') % Cap < (j - head') % Cap
    BY <1>6 DEF NextRank
  <2>3. /\ Rank(i) = IF i >= head THEN i - head ELSE i - head + Cap
        /\ Rank(j) = IF j >= head THEN j - head ELSE j - head + Cap
    BY <1>4
  <2> QED
    BY <1>1, <1>2, <1>6, <2>1, <2>2, <2>3
<1>7. ASSUME head' \in Slots, tail' = (tail + 1) % Cap, i \in Live',
             (~IsFull /\ head' = head) \/ (IsFull /\ head' = (head + 1) % Cap)
      PROVE  ~(NextRank(tail) < NextRank(i))
  <2>1. i \in Live' <=> IF head' <= tail' THEN head' <= i /\ i < tail' ELSE head' <= i \/ i < tail'
    BY <1>3, <1>7, LiveIsNext
  <2>2. ~((tail - head') % Cap < (i - head') % Cap)
    <3>1. /\ (i - head') % Cap = IF i >= head' THEN i - head' ELSE i - head' + Cap
          /\ (tail - head') % Cap = IF tail >= head' THEN tail - head' ELSE tail - head' + Cap
      BY <1>5, <1>7
    <3> QED
      BY <1>1, <1>2, <1>7, <2>1, <3>1 DEF IsFull
  <2> QED
    BY <2>2 DEF NextRank
<1>8. ASSUME j = (tail - 1) % Cap, i \in Live
      PROVE  ~(Rank(j) < Rank(i))
  <2>1. i \in Live <=> IF head <= tail THEN head <= i /\ i < tail ELSE head <= i \/ i < tail
    BY LiveIs
  <2>2. /\ Rank(i) = IF i >= head THEN i - head ELSE i - head + Cap
        /\ Rank(j) = IF j >= head THEN j - head ELSE j - head + Cap
    BY <1>4
  <2> QED
    BY <1>1, <1>2, <1>8, <2>1, <2>2
<1>9. ~IsFull /\ head' = head /\ tail' = (tail + 1) % Cap /\ i \in Live' => ~(NextRank(tail) < NextRank(i))
  BY <1>7
<1>10. IsFull /\ head' = (head + 1) % Cap /\ tail' = (tail + 1) % Cap /\ i \in Live'
         => ~(NextRank(tail) < NextRank(i))
  BY <1>3, <1>7
<1> QED
  BY <1>6, <1>8, <1>9, <1>10, Zenon

(* What is queued or in the drain's hand belongs to the open session, and  *)
(* to no other.                                                            *)
SessionInv ==
    /\ decoder.at \in {"out", "opening"} <=> ~open
    /\ \A i \in Slots : q[i] # Zero => open /\ q[i].session = generation
    /\ decoder.hand # Zero => decoder.hand.session = generation
    /\ AppliedInItsSession

(* What is queued is younger than what is in hand, that is not older than  *)
(* what was applied last, and a later place in the ring is a later one of  *)
(* the submissions.                                                        *)
OrderInv ==
    /\ applied.number \in Nat /\ applied.number <= submits
    /\ \A i \in Slots : q[i] # Zero => q[i].number > applied.number
    /\ decoder.at = "apply" => decoder.hand.number > applied.number
    /\ decoder.hand # Zero => \A i \in Slots : q[i] # Zero => q[i].number > decoder.hand.number
    /\ \A i, j \in Slots : q[i] # Zero /\ q[j] # Zero /\ Rank(i) < Rank(j) => q[i].number < q[j].number

(* A slot keeps its command in a step, or gets a submission of this        *)
(* session that is the last in the ring.                                   *)
Keeps(i) == q'[i] # Zero /\ q'[i] = q[i]
Comes(i) ==
    /\ open /\ submits' = submits + 1
    /\ q'[i].number = submits + 1 /\ q'[i].session = generation
    /\ \A j \in Slots : q'[j] # Zero => ~(NextRank(i) < NextRank(j))
OrderStep ==
    /\ submits' \in {submits, submits + 1}
    /\ \A i \in Slots : q'[i] # Zero => Keeps(i) \/ Comes(i)
    /\ \A i, j \in Slots : Keeps(i) /\ Keeps(j) /\ NextRank(i) < NextRank(j) => Rank(i) < Rank(j)

(* The facts about numbers that the order needs.                           *)
LEMMA Numbers ==
  ASSUME QueueInv
  PROVE  /\ submits \in Nat
         /\ \A i \in Slots : q[i] # Zero => q[i] \in Commands /\ q[i].number \in Nat /\ q[i].number <= submits
         /\ decoder.hand # Zero => /\ decoder.hand \in Commands /\ decoder.hand.number \in Nat
                                   /\ decoder.hand.number <= submits
<1>1. RingInv /\ NumberInv /\ submits \in Nat
  BY DEF QueueInv, SubmitInv
<1>2. \A c \in Commands : c.number \in Nat
  BY DEF Commands
<1>3. \A i \in Slots : q[i] # Zero => q[i] \in Commands /\ q[i].number <= submits
  BY <1>1 DEF RingInv, NumberInv
<1>4. decoder.hand # Zero => decoder.hand \in Commands /\ decoder.hand.number <= submits
  BY <1>1 DEF RingInv, NumberInv, DecoderStates
<1> QED
  BY <1>1, <1>2, <1>3, <1>4

LEMMA OrderStepKeeps ==
  ASSUME QueueInv, SessionInv, OrderInv, OrderStep
  PROVE  /\ \A i, j \in Slots : q'[i] # Zero /\ q'[j] # Zero /\ NextRank(i) < NextRank(j)
                                  => q'[i].number < q'[j].number
         /\ \A i \in Slots : q'[i] # Zero => open /\ q'[i].session = generation
         /\ \A n \in Nat : n <= submits /\ (\A i \in Slots : q[i] # Zero => q[i].number > n)
              => /\ \A i \in Slots : q'[i] # Zero => q'[i].number > n
                 /\ n <= submits'
<1>0. /\ submits \in Nat /\ \A i \in Slots : q[i] # Zero => q[i].number \in Nat /\ q[i].number <= submits
  BY Numbers
<1>1. \A i \in Slots : q'[i] # Zero => open /\ q'[i].session = generation
  BY DEF OrderStep, Keeps, Comes, SessionInv
<1>2. ASSUME NEW n \in Nat, n <= submits, \A i \in Slots : q[i] # Zero => q[i].number > n
      PROVE  (\A i \in Slots : q'[i] # Zero => q'[i].number > n) /\ n <= submits'
  <2>1. submits + 1 > n
    BY <1>0, <1>2
  <2>2. \A i \in Slots : q'[i] # Zero => q'[i].number > n
    BY <1>2, <2>1 DEF OrderStep, Keeps, Comes
  <2> QED
    BY <1>0, <1>2, <2>2 DEF OrderStep
<1>3. ASSUME NEW i \in Slots, NEW j \in Slots, q'[i] # Zero, q'[j] # Zero, NextRank(i) < NextRank(j)
      PROVE  q'[i].number < q'[j].number
  <2>1. Keeps(i)
    BY <1>3 DEF OrderStep, Comes
  <2>2. CASE Keeps(j)
    <3>1. Rank(i) < Rank(j)
      BY <1>3, <2>1, <2>2 DEF OrderStep
    <3>2. q[i] # Zero /\ q[j] # Zero /\ q'[i] = q[i] /\ q'[j] = q[j]
      BY <2>1, <2>2 DEF Keeps
    <3> QED
      BY <3>1, <3>2 DEF OrderInv
  <2>3. CASE Comes(j)
    <3>1. q'[i].number \in Nat /\ q'[i].number <= submits /\ q'[j].number = submits + 1
      BY <1>0, <2>1, <2>3 DEF Keeps, Comes
    <3> QED
      BY <1>0, <3>1
  <2> QED
    BY <1>3, <2>2, <2>3 DEF OrderStep
<1> QED
  BY <1>1, <1>2, <1>3

(* A step of the ring that leaves the decoder alone.                       *)
LEMMA OrderStepSound ==
  ASSUME QueueInv, SessionInv, OrderInv, OrderStep, UNCHANGED <<decoder, open, generation, applied>>
  PROVE  SessionInv' /\ OrderInv'
<1>0. /\ \A i, j \in Slots : q'[i] # Zero /\ q'[j] # Zero /\ NextRank(i) < NextRank(j)
                               => q'[i].number < q'[j].number
      /\ \A i \in Slots : q'[i] # Zero => open /\ q'[i].session = generation
      /\ \A n \in Nat : n <= submits /\ (\A i \in Slots : q[i] # Zero => q[i].number > n)
           => /\ \A i \in Slots : q'[i] # Zero => q'[i].number > n
              /\ n <= submits'
  BY OrderStepKeeps, Zenon
<1>1. Slots' = Slots /\ \A i : Rank(i)' = NextRank(i)
  BY DEF Slots, Rank, NextRank
<1>2. SessionInv'
  BY <1>0, <1>1 DEF SessionInv, AppliedInItsSession
<1>3. applied'.number \in Nat /\ applied'.number <= submits' /\ \A i \in Slots : q'[i] # Zero => q'[i].number > applied'.number
  BY <1>0 DEF OrderInv
<1>4. decoder'.at = "apply" => decoder'.hand.number > applied'.number
  BY DEF OrderInv
<1>5. decoder'.hand # Zero => \A i \in Slots : q'[i] # Zero => q'[i].number > decoder'.hand.number
  BY <1>0, Numbers DEF OrderInv
<1>6. \A i, j \in Slots : q'[i] # Zero /\ q'[j] # Zero /\ NextRank(i) < NextRank(j) => q'[i].number < q'[j].number
  BY <1>0
<1>7. OrderInv'
  BY <1>1, <1>3, <1>4, <1>5, <1>6 DEF OrderInv, Rank, NextRank
<1> QED
  BY <1>2, <1>7

(* The three ways a submission is admitted.                                *)
LEMMA AdmitOrder ==
  ASSUME QueueInv, QueueInv', SessionInv, OrderInv, NEW p \in Producers, NEW kind \in Kinds, NEW valid \in BOOLEAN,
         Coalesce(p, kind, valid) \/ Enqueue(p, kind, valid) \/ Evict(p, kind, valid)
  PROVE  SessionInv' /\ OrderInv'
<1> DEFINE new == Submitted(p, kind, valid)
<1>0. RingInv /\ SubmitInv /\ RingInv'
  BY DEF QueueInv
<1>1. new.number = submits + 1 /\ new.session = generation
  BY DEF Submitted
<1>2. open /\ submits' = submits + 1 /\ UNCHANGED <<decoder, open, generation, applied>>
  BY DEF Coalesce, Enqueue, Evict, Asks, sessionVars
<1>3. /\ head \in Slots /\ tail \in Slots /\ q \in [Slots -> Commands \cup {Zero}]
      /\ \A j \in Slots : q[j] # Zero <=> j \in Live
      /\ \A j \in Slots : q'[j] # Zero <=> j \in Live'
  BY <1>0 DEF RingInv, Slots
<1>4. CASE Coalesce(p, kind, valid)
  <2>1. PICK i \in Overwrites(kind, valid) : q' = [q EXCEPT ![i] = new]
    BY <1>4 DEF Coalesce
  <2>2. i = (tail - 1) % Cap /\ i \in Slots /\ UNCHANGED <<head, tail>> /\ Live' = Live
    BY <1>3, <1>4, RingEnds DEF Overwrites, PendingTail, Coalesce, Live
  <2> HIDE DEF new
  <2>3. \A j \in Slots : q'[j] = IF j = i THEN new ELSE q[j]
    BY <1>3, <2>1
  <2>4. \A j \in Slots : NextRank(j) = Rank(j)
    BY <2>2 DEF NextRank, Rank
  <2>5. \A j \in Slots : q'[j] # Zero => ~(NextRank(i) < NextRank(j))
    BY <1>3, <2>2, <2>4, RankMoves
  <2>6. Comes(i)
    BY <1>1, <1>2, <2>2, <2>3, <2>5 DEF Comes
  <2>7. OrderStep
    BY <1>2, <2>3, <2>4, <2>6 DEF OrderStep, Keeps
  <2> QED
    BY <1>2, <2>7, OrderStepSound
<1>5. CASE Enqueue(p, kind, valid)
  <2>1. ~IsFull /\ q' = [q EXCEPT ![tail] = new] /\ head' = head /\ tail' = (tail + 1) % Cap
    BY <1>5 DEF Enqueue
  <2> HIDE DEF new
  <2>2. \A j \in Slots : q'[j] = IF j = tail THEN new ELSE q[j]
    BY <1>3, <2>1
  <2>3. \A j \in Slots : NextRank(j) = Rank(j)
    BY <2>1 DEF NextRank, Rank
  <2>4. \A j \in Slots : q'[j] # Zero => ~(NextRank(tail) < NextRank(j))
    BY <1>3, <2>1, RankMoves
  <2>5. Comes(tail)
    BY <1>1, <1>2, <1>3, <2>2, <2>4 DEF Comes
  <2>6. OrderStep
    BY <1>2, <2>2, <2>3, <2>5 DEF OrderStep, Keeps
  <2> QED
    BY <1>2, <2>6, OrderStepSound
<1>6. CASE Evict(p, kind, valid)
  <2>1. /\ IsFull /\ q' = [q EXCEPT ![head] = Zero, ![tail] = new]
        /\ head' = (head + 1) % Cap /\ tail' = (tail + 1) % Cap
    BY <1>6 DEF Evict
  <2> HIDE DEF new
  <2>2. \A j \in Slots : q'[j] = IF j = tail THEN new ELSE IF j = head THEN Zero ELSE q[j]
    BY <1>3, <2>1
  <2>3. \A i, j \in Slots : i # head /\ j # head /\ NextRank(i) < NextRank(j) => Rank(i) < Rank(j)
    BY <1>3, <2>1, RankMoves
  <2>4. \A j \in Slots : q'[j] # Zero => ~(NextRank(tail) < NextRank(j))
    BY <1>3, <2>1, RankMoves
  <2>5. Comes(tail)
    BY <1>1, <1>2, <1>3, <2>2, <2>4 DEF Comes
  <2>6. head # tail
    BY <1>3, <2>1, RingEnds DEF IsEmpty
  <2>7. OrderStep
    BY <1>2, <2>2, <2>3, <2>5, <2>6 DEF OrderStep, Keeps
  <2> QED
    BY <1>2, <2>7, OrderStepSound
<1> QED
  BY <1>4, <1>5, <1>6

(* The oldest command leaves: the others keep their order.                 *)
LEMMA LeaveOrder ==
  ASSUME QueueInv, ~IsEmpty, q' = [q EXCEPT ![head] = Zero], head' = (head + 1) % Cap, submits' = submits
  PROVE  OrderStep /\ \A j \in Slots : q'[j] # Zero => j # head /\ q'[j] = q[j]
<1>1. head \in Slots /\ tail \in Slots /\ q \in [Slots -> Commands \cup {Zero}]
  BY DEF QueueInv, RingInv
<1>2. \A j \in Slots : q'[j] = IF j = head THEN Zero ELSE q[j]
  BY <1>1
<1>3. \A i, j \in Slots : i # head /\ j # head /\ NextRank(i) < NextRank(j) => Rank(i) < Rank(j)
  BY <1>1, RankMoves
<1> QED
  BY <1>2, <1>3 DEF OrderStep, Keeps

(* The oldest is older than the others.                                    *)
LEMMA OldestFirst ==
  ASSUME QueueInv, OrderInv, ~IsEmpty, NEW j \in Slots, q[j] # Zero, j # head
  PROVE  q[head].number < q[j].number
<1>1. head \in Slots /\ q[head] # Zero
  BY Oldest, CommandIsNotZero DEF QueueInv
<1>2. Rank(head) < Rank(j)
  <2>1. Cap \in Nat /\ head \in 0 .. Cap - 1 /\ j \in 0 .. Cap - 1
    BY <1>1, QueueAssumption DEF Slots
  <2>2. /\ Rank(j) = IF j >= head THEN j - head ELSE j - head + Cap
        /\ Rank(head) = IF head >= head THEN head - head ELSE head - head + Cap
    BY <1>1, SlotArithmetic DEF Rank
  <2> QED
    BY <2>1, <2>2
<1> QED
  BY <1>1, <1>2 DEF OrderInv

LEMMA CancelOrder ==
  ASSUME QueueInv, SessionInv, OrderInv, Cancel
  PROVE  SessionInv' /\ OrderInv'
<1>1. /\ ~IsEmpty /\ q' = [q EXCEPT ![head] = Zero] /\ head' = (head + 1) % Cap /\ submits' = submits
      /\ UNCHANGED <<decoder, open, generation, applied>>
  BY DEF Cancel, sessionVars, askVars
<1> QED
  BY <1>1, LeaveOrder, OrderStepSound

LEMMA PopOrder ==
  ASSUME QueueInv, SessionInv, OrderInv, Pop
  PROVE  SessionInv' /\ OrderInv'
<1>1. /\ ~IsEmpty /\ q' = [q EXCEPT ![head] = Zero] /\ head' = (head + 1) % Cap /\ submits' = submits
      /\ decoder.at = "pop" /\ decoder'.at = "apply" /\ decoder'.hand = q[head]
      /\ UNCHANGED <<open, generation, applied>>
  BY DEF Pop, sessionVars, askVars
<1>2. OrderStep /\ \A j \in Slots : q'[j] # Zero => j # head /\ q'[j] = q[j]
  BY <1>1, LeaveOrder
<1>3. head \in Slots /\ q[head] # Zero
  BY <1>1, Oldest, CommandIsNotZero DEF QueueInv
<1>4. \A j \in Slots : q'[j] # Zero => q[head].number < q'[j].number
  BY <1>1, <1>2, OldestFirst
<1>5. q[head].number \in Nat /\ \A j \in Slots : q'[j] # Zero => q'[j].number \in Nat
  BY <1>2, <1>3, Numbers
<1>6. /\ \A i, j \in Slots : q'[i] # Zero /\ q'[j] # Zero /\ NextRank(i) < NextRank(j)
                               => q'[i].number < q'[j].number
      /\ \A i \in Slots : q'[i] # Zero => open /\ q'[i].session = generation
  BY <1>2, OrderStepKeeps, Zenon
<1>7. Slots' = Slots /\ \A i : Rank(i)' = NextRank(i)
  BY DEF Slots, Rank, NextRank
<1>8. SessionInv'
  BY <1>1, <1>3, <1>6, <1>7 DEF SessionInv, AppliedInItsSession
<1>9. /\ \A i \in Slots : q'[i] # Zero => q'[i].number > applied.number /\ q'[i].number > q[head].number
      /\ q[head].number > applied.number
  BY <1>2, <1>3, <1>4, <1>5 DEF OrderInv
<1>10. OrderInv'
  BY <1>1, <1>6, <1>7, <1>9 DEF OrderInv, Rank, NextRank
<1> QED
  BY <1>8, <1>10

(* The decoder moves on with an empty hand, in a session or out of one.    *)
LEMMA StillOrder ==
  ASSUME QueueInv, SessionInv, OrderInv, UNCHANGED <<q, head, open, generation, applied>>,
         submits' \in {submits, submits + 1}, decoder'.hand \in {decoder.hand, Zero}, decoder'.at # "apply",
         decoder.at \in {"out", "opening"} <=> decoder'.at \in {"out", "opening"}
  PROVE  SessionInv' /\ OrderInv'
<1>1. Slots' = Slots /\ \A i : Rank(i)' = Rank(i)
  BY DEF Slots, Rank
<1>2. SessionInv'
  BY <1>1 DEF SessionInv, AppliedInItsSession
<1>3. applied.number \in Nat /\ applied.number <= submits' /\ submits \in Nat
  BY Numbers DEF OrderInv
<1>4. OrderInv'
  BY <1>1, <1>3 DEF OrderInv, Rank
<1> QED
  BY <1>2, <1>4

LEMMA ApplyOrder ==
  ASSUME QueueInv, SessionInv, OrderInv, Apply
  PROVE  SessionInv' /\ OrderInv'
<1> DEFINE cmd == decoder.hand
<1>1. PICK status \in CASE cmd.kind = "key"  -> KeyStatus(cmd)
                       [] cmd.kind = "quit" -> {"applied"}
                       [] OTHER -> {"applied", "failed"} :
         /\ decoder' = [decoder EXCEPT !.at = "publish", !.result = status]
         /\ applied' = IF status # "applied" THEN applied
                       ELSE [number |-> cmd.number, session |-> cmd.session,
                             inSession |-> Generation,
                             named |-> IF cmd.kind = "key" THEN cmd.named ELSE Generation]
  BY DEF Apply
<1>2. decoder.at = "apply" /\ UNCHANGED <<q, head, open, generation, submits>>
  BY DEF Apply, ringVars, sessionVars, askVars
<1>3. decoder \in DecoderStates /\ cmd # Zero
  BY <1>2 DEF QueueInv, RingInv
<1>4. decoder'.at = "publish" /\ decoder'.hand = cmd
  BY <1>1, <1>3 DEF DecoderStates
<1>5. open /\ Generation = generation /\ cmd.session = generation
  <2>1. open
    BY <1>2 DEF SessionInv
  <2> QED
    BY <1>3, <2>1 DEF SessionInv, Generation
<1>6. cmd.kind = "key" /\ status = "applied" => cmd.named = Generation
  BY <1>1 DEF KeyStatus
<1>7. AppliedInItsSession'
  <2>1. CASE status # "applied"
    <3>1. applied' = applied
      BY <1>1, <2>1
    <3> QED
      BY <3>1 DEF SessionInv, AppliedInItsSession
  <2>2. CASE status = "applied"
    <3>1. /\ applied'.session = cmd.session /\ applied'.inSession = Generation
          /\ applied'.named = IF cmd.kind = "key" THEN cmd.named ELSE Generation
      BY <1>1, <2>2
    <3> QED
      BY <1>5, <1>6, <2>2, <3>1 DEF AppliedInItsSession
  <2> QED
    BY <2>1, <2>2
<1>8. Slots' = Slots /\ \A i : Rank(i)' = Rank(i)
  BY <1>2 DEF Slots, Rank
<1>9. SessionInv'
  BY <1>2, <1>4, <1>7, <1>8 DEF SessionInv
<1>10. applied'.number \in {applied.number, cmd.number}
  BY <1>1
<1>11. cmd.number \in Nat /\ cmd.number <= submits
  BY <1>3, Numbers
<1>12. OrderInv'
  BY <1>2, <1>3, <1>4, <1>8, <1>10, <1>11 DEF OrderInv, Rank
<1> QED
  BY <1>9, <1>12

(* The edge of a session finds the ring and the hand empty.                *)
LEMMA EdgeOrder ==
  ASSUME QueueInv, SessionInv, OrderInv, Edge
  PROVE  SessionInv' /\ OrderInv'
<1>1. /\ IsEmpty /\ decoder.at \in {"opening", "closing"} /\ open' = (decoder.at = "opening")
      /\ decoder' = At(IF open' THEN "run" ELSE "out") /\ UNCHANGED <<q, head, submits, applied>>
  BY DEF Edge, Unlocked, ringVars, askVars
<1>2. decoder'.hand = Zero /\ decoder'.at = IF open' THEN "run" ELSE "out"
  BY <1>1 DEF At
<1>3. \A i \in Slots : q[i] = Zero
  <2>1. head \in Slots /\ tail \in Slots /\ head = tail /\ \A i \in Slots : i \in Live <=> q[i] # Zero
    BY <1>1 DEF QueueInv, RingInv, IsEmpty
  <2>2. \A i \in Slots : i \notin Live
    BY <2>1, LiveIs DEF Slots
  <2> QED
    BY <2>1, <2>2
<1>4. Slots' = Slots
  BY DEF Slots
<1>5. decoder'.at \in {"out", "opening"} <=> ~open'
  BY <1>2
<1>6. SessionInv'
  BY <1>1, <1>2, <1>3, <1>4, <1>5 DEF SessionInv, AppliedInItsSession
<1>7. OrderInv'
  BY <1>1, <1>2, <1>3, <1>4 DEF OrderInv
<1> QED
  BY <1>6, <1>7

LEMMA UnmovedOrder ==
  ASSUME QueueInv, SessionInv, OrderInv, submits' \in {submits, submits + 1},
         UNCHANGED <<q, head, decoder, open, generation, applied>>
  PROVE  SessionInv' /\ OrderInv'
<1>1. \A i : NextRank(i) = Rank(i)
  BY DEF NextRank, Rank
<1>2. OrderStep
  BY <1>1 DEF OrderStep, Keeps
<1> QED
  BY <1>2, OrderStepSound

LEMMA OrderNext ==
  ASSUME QueueInv, QueueInv', SessionInv, OrderInv, [QueueNext]_queueVars
  PROVE  SessionInv' /\ OrderInv'
<1> USE DEF ringVars, sessionVars, askVars
<1>1. CASE \E p \in Producers : ReadGeneration(p)
  BY <1>1, UnmovedOrder DEF ReadGeneration
<1>2. CASE \E p \in Producers, kind \in Kinds : Reject(p, kind)
  BY <1>2, UnmovedOrder DEF Reject, Asks
<1>3. ASSUME NEW p \in Producers, NEW kind \in Kinds, NEW valid \in BOOLEAN,
             Coalesce(p, kind, valid) \/ Enqueue(p, kind, valid) \/ Evict(p, kind, valid)
      PROVE  SessionInv' /\ OrderInv'
  BY <1>3, AdmitOrder
<1>4. CASE StartSession \/ StopSession
  BY <1>4, StillOrder DEF StartSession, StopSession, At
<1>5. CASE Cancel
  BY <1>5, CancelOrder
<1>6. CASE Edge
  BY <1>6, EdgeOrder
<1>7. CASE Samples \/ Pending \/ Pump
  BY <1>7, StillOrder DEF Samples, Pending, Pump, Move, At
<1>8. CASE Pop
  BY <1>8, PopOrder
<1>9. CASE DrainDone
  BY <1>9, StillOrder DEF DrainDone, At
<1>10. CASE Refuse
  <2>1. decoder \in DecoderStates
    BY DEF QueueInv, RingInv
  <2>2. decoder'.at = "publish" /\ decoder'.hand = decoder.hand
    BY <1>10, <2>1 DEF Refuse, DecoderStates
  <2> QED
    BY <1>10, <2>2, StillOrder DEF Refuse
<1>11. CASE Apply
  BY <1>11, ApplyOrder
<1>12. CASE PublishResult
  BY <1>12, StillOrder DEF PublishResult, At
<1>13. CASE Shutdown \/ UNCHANGED queueVars
  BY <1>13, UnmovedOrder DEF Shutdown, queueVars
<1> QED
  BY <1>1, <1>2, <1>3, <1>4, <1>5, <1>6, <1>7, <1>8, <1>9, <1>10, <1>11, <1>12, <1>13
  DEF QueueNext

LEMMA OrderInvariant == QueueSpec => [](SessionInv /\ OrderInv)
<1>1. QueueInit => SessionInv /\ OrderInv
  BY DEF QueueInit, SessionInv, OrderInv, AppliedInItsSession, At
<1>2. QueueInv /\ QueueInv' /\ (SessionInv /\ OrderInv) /\ [QueueNext]_queueVars => (SessionInv /\ OrderInv)'
  BY OrderNext
<1> QED
  BY <1>1, <1>2, QueueInvariant, PTL DEF QueueSpec

(* A command takes effect only in the session it was submitted in, and a   *)
(* key only in the session its request named, though its producer may have *)
(* read the generation before a stop and a start.                          *)
THEOREM NoCommandOutlivesItsSession == QueueSpec => []AppliedInItsSession
<1>1. SessionInv => AppliedInItsSession
  BY DEF SessionInv
<1> QED
  BY <1>1, OrderInvariant, PTL

(* Commands take effect in the order of their submission: neither the      *)
(* overwriting of a pending setter nor an eviction lets one overtake       *)
(* another.                                                                *)
THEOREM AppliedInOrder == QueueSpec => []InOrder
<1>1. QueueInv /\ OrderInv => InOrder
  <2> SUFFICES ASSUME QueueInv, OrderInv PROVE InOrder
    OBVIOUS
  <2>1. \A i \in Live : i \in Slots /\ q[i] # Zero
    BY DEF QueueInv, RingInv, Live
  <2>2. \A i, j \in Live : (i - head) % Cap < (j - head) % Cap => q[i].number < q[j].number
    BY <2>1 DEF OrderInv, Rank
  <2> QED
    BY <2>1, <2>2 DEF OrderInv, InOrder
<1> QED
  BY <1>1, QueueInvariant, OrderInvariant, PTL

-----------------------------------------------------------------------------
(* Settings.                                                               *)

(* Where the last submission of a setter is: given up, in force, queued,   *)
(* or about to be applied.                                                 *)
Stands(k) ==
    \/ asked[k] \in lost
    \/ inForce[k] = asked[k]
    \/ \E i \in Slots : q[i].kind = k /\ q[i].number = asked[k]
    \/ decoder.at = "apply" /\ decoder.hand.kind = k /\ decoder.hand.number = asked[k]

(* Nothing younger of its kind is on the way, and what is in force is not  *)
(* younger than the command applied last: an older setting still queued is *)
(* younger than that, and so cannot undo the last one once it is in force. *)
SettingInv ==
    /\ asked \in [Setters -> Nat] /\ inForce \in [Setters -> Nat]
    /\ \A k \in Setters :
          /\ inForce[k] <= applied.number
          /\ \A i \in Slots : q[i].kind = k => q[i].number <= asked[k]
          /\ decoder.hand.kind = k => decoder.hand.number <= asked[k]
          /\ Stands(k)

LEMMA SettersAreNotZero == \A k \in Setters : k # Zero.kind
  BY DEF Setters, Zero

(* A step that neither admits, takes nor applies a command.                *)
LEMMA SettingStill ==
  ASSUME SettingInv, UNCHANGED <<q, asked, inForce, applied>>, lost \subseteq lost',
         decoder' = decoder \/ (decoder'.hand = Zero /\ decoder.at # "apply")
  PROVE  SettingInv'
<1>1. Slots' = Slots
  BY DEF Slots
<1>2. ASSUME NEW k \in Setters PROVE Stands(k)'
  BY <1>1 DEF SettingInv, Stands
<1>3. ASSUME NEW k \in Setters, decoder'.hand.kind = k PROVE decoder'.hand.number <= asked[k]
  BY <1>3, SettersAreNotZero DEF SettingInv
<1> QED
  BY <1>1, <1>2, <1>3 DEF SettingInv

(* A submission takes a slot that is empty or has one of its kind; others  *)
(* keep their command or lose it for good.                                 *)
LEMMA SettingAdmitted ==
  ASSUME QueueInv, SettingInv, NEW kind, NEW s \in Slots, Admitted(kind),
         q'[s].kind = kind, q'[s].number = submits + 1, q[s].kind \in {kind, Zero.kind},
         \A j \in Slots : j = s \/ q'[j] = q[j] \/ (q'[j] = Zero /\ q[j].number \in lost'),
         lost \subseteq lost', UNCHANGED <<decoder, inForce, applied>>
  PROVE  SettingInv'
<1>0. Slots' = Slots
  BY DEF Slots
<1>1. /\ submits \in Nat
      /\ \A i \in Slots : q[i] # Zero => q[i].number \in Nat /\ q[i].number <= submits
      /\ decoder.hand # Zero => decoder.hand.number \in Nat /\ decoder.hand.number <= submits
  BY Numbers
<1>2. asked \in [Setters -> Nat] /\ inForce \in [Setters -> Nat]
  BY DEF SettingInv
<1>3. \A k \in Setters : asked'[k] = IF k = kind THEN submits + 1 ELSE asked[k]
  BY <1>2 DEF Admitted
<1>4. asked' \in [Setters -> Nat]
  BY <1>1, <1>2 DEF Admitted
<1>5. ASSUME NEW k \in Setters
      PROVE  /\ inForce'[k] <= applied'.number
             /\ \A i \in Slots : q'[i].kind = k => q'[i].number <= asked'[k]
             /\ decoder'.hand.kind = k => decoder'.hand.number <= asked'[k]
             /\ Stands(k)'
  <2>0. k # Zero.kind
    BY SettersAreNotZero
  <2>1. inForce'[k] <= applied'.number
    BY DEF SettingInv
  <2>2. CASE k = kind
    <3>1. asked'[k] = submits + 1
      BY <1>3, <2>2
    <3>2. ASSUME NEW i \in Slots, q'[i].kind = k PROVE q'[i].number <= asked'[k]
      <4>1. CASE i = s
        BY <1>1, <3>1, <4>1
      <4>2. CASE i # s
        <5>1. q'[i] = q[i] /\ q[i] # Zero
          BY <2>0, <3>2, <4>2
        <5> QED
          BY <1>1, <3>1, <5>1
      <4> QED
        BY <4>1, <4>2
    <3>3. decoder'.hand.kind = k => decoder'.hand.number <= asked'[k]
      <4>1. decoder.hand.kind = k => decoder.hand # Zero
        BY <2>0
      <4> QED
        BY <1>1, <3>1, <4>1
    <3>4. Stands(k)'
      BY <1>0, <2>2, <3>1 DEF Stands
    <3> QED
      BY <2>1, <3>2, <3>3, <3>4
  <2>3. CASE k # kind
    <3>1. asked'[k] = asked[k]
      BY <1>3, <2>3
    <3>2. \A i \in Slots : q'[i].kind = k => q'[i] = q[i]
      BY <2>0, <2>3
    <3>3. \A i \in Slots : q[i].kind = k => q'[i] = q[i] \/ q[i].number \in lost'
      BY <2>0, <2>3
    <3>4. Stands(k)'
      BY <1>0, <3>1, <3>3 DEF SettingInv, Stands
    <3> QED
      BY <2>1, <3>1, <3>2, <3>4 DEF SettingInv
  <2> QED
    BY <2>2, <2>3
<1> QED
  BY <1>0, <1>2, <1>4, <1>5 DEF SettingInv

LEMMA AdmitSetting ==
  ASSUME QueueInv, SettingInv, NEW p \in Producers, NEW kind \in Kinds, NEW valid \in BOOLEAN,
         Coalesce(p, kind, valid) \/ Enqueue(p, kind, valid) \/ Evict(p, kind, valid)
  PROVE  SettingInv'
<1> DEFINE new == Submitted(p, kind, valid)
<1>1. new.kind = kind /\ new.number = submits + 1
  BY SubmittedIs DEF QueueInv
<1>2. Admitted(kind) /\ UNCHANGED <<decoder, inForce, applied>>
  BY DEF Coalesce, Enqueue, Evict, Asks
<1>3. /\ head \in Slots /\ tail \in Slots /\ q \in [Slots -> Commands \cup {Zero}]
      /\ \A j \in Slots : q[j] # Zero <=> j \in Live
  BY DEF QueueInv, RingInv
<1>4. q[tail] = Zero
  BY <1>3, RingEnds
<1>5. CASE Coalesce(p, kind, valid)
  <2>1. PICK i \in Overwrites(kind, valid) : q' = [q EXCEPT ![i] = new]
    BY <1>5 DEF Coalesce
  <2>2. i \in Slots
    BY <1>3, RingEnds DEF Overwrites, PendingTail
  <2>3. q[i].kind = kind
    <3>1. Id(q[i].kind) = Id(kind) /\ Id(kind) \in Coalescible /\ CoalescesWith(q[i], kind, valid)
      BY DEF Overwrites, PendingTail
    <3>2. CASE Id(kind) = "squelch"
      BY <3>1, <3>2 DEF CoalescesWith
    <3>3. CASE Id(kind) # "squelch"
      BY <3>1, <3>3 DEF Id
    <3> QED
      BY <3>2, <3>3
  <2> HIDE DEF new
  <2>4. \A j \in Slots : q'[j] = IF j = i THEN new ELSE q[j]
    BY <1>3, <2>1
  <2>5. lost' = lost
    BY <1>5 DEF Coalesce
  <2> QED
    BY <1>1, <1>2, <2>2, <2>3, <2>4, <2>5, SettingAdmitted
<1>6. CASE Enqueue(p, kind, valid)
  <2>1. q' = [q EXCEPT ![tail] = new] /\ lost' = lost
    BY <1>6 DEF Enqueue
  <2> HIDE DEF new
  <2>2. \A j \in Slots : q'[j] = IF j = tail THEN new ELSE q[j]
    BY <1>3, <2>1
  <2> QED
    BY <1>1, <1>2, <1>3, <1>4, <2>1, <2>2, SettingAdmitted
<1>7. CASE Evict(p, kind, valid)
  <2>1. q' = [q EXCEPT ![head] = Zero, ![tail] = new] /\ lost' = lost \cup {q[head].number}
    BY <1>7 DEF Evict
  <2> HIDE DEF new
  <2>2. \A j \in Slots : q'[j] = IF j = tail THEN new ELSE IF j = head THEN Zero ELSE q[j]
    BY <1>3, <2>1
  <2>3. \A j \in Slots : j = tail \/ q'[j] = q[j] \/ (q'[j] = Zero /\ q[j].number \in lost')
    BY <2>1, <2>2
  <2>4. q'[tail].kind = kind /\ q'[tail].number = submits + 1 /\ q[tail].kind = Zero.kind /\ lost \subseteq lost'
    BY <1>1, <1>3, <1>4, <2>1, <2>2
  <2> QED
    BY <1>2, <1>3, <2>3, <2>4, SettingAdmitted
<1> QED
  BY <1>5, <1>6, <1>7

(* The oldest command is given up, or goes into the drain's hand.          *)
LEMMA LeaveSetting ==
  ASSUME QueueInv, SettingInv, Cancel \/ Pop
  PROVE  SettingInv'
<1>0. Slots' = Slots
  BY DEF Slots
<1>1. /\ head \in Slots /\ q \in [Slots -> Commands \cup {Zero}] /\ q' = [q EXCEPT ![head] = Zero]
      /\ UNCHANGED <<asked, inForce, applied>> /\ lost \subseteq lost'
  BY DEF QueueInv, RingInv, Cancel, Pop, askVars
<1>2. \A j \in Slots : q'[j] = IF j = head THEN Zero ELSE q[j]
  BY <1>1
<1>3. \/ decoder' = decoder /\ q[head].number \in lost'
      \/ decoder.hand = Zero /\ decoder'.at = "apply" /\ decoder'.hand = q[head]
  <2>1. CASE Cancel
    BY <2>1 DEF Cancel
  <2>2. CASE Pop
    BY <2>2 DEF Pop, QueueInv, RingInv
  <2> QED
    BY <2>1, <2>2
<1>4. ASSUME NEW k \in Setters
      PROVE  /\ \A i \in Slots : q'[i].kind = k => q'[i].number <= asked'[k]
             /\ decoder'.hand.kind = k => decoder'.hand.number <= asked'[k]
             /\ Stands(k)'
  <2>0. k # Zero.kind
    BY SettersAreNotZero
  <2>1. \A i \in Slots : q'[i].kind = k => q'[i].number <= asked'[k]
    BY <1>1, <1>2, <2>0 DEF SettingInv
  <2>2. decoder'.hand.kind = k => decoder'.hand.number <= asked'[k]
    BY <1>1, <1>3 DEF SettingInv
  <2>3. Stands(k)'
    <3>1. CASE asked[k] \in lost \/ inForce[k] = asked[k]
      BY <1>1, <3>1 DEF Stands
    <3>2. CASE \E i \in Slots : q[i].kind = k /\ q[i].number = asked[k]
      <4>1. PICK i \in Slots : q[i].kind = k /\ q[i].number = asked[k]
        BY <3>2
      <4>2. CASE i = head
        BY <1>1, <1>3, <4>1, <4>2, <2>0 DEF Stands, SettingInv
      <4>3. CASE i # head
        BY <1>0, <1>1, <1>2, <4>1, <4>3 DEF Stands
      <4> QED
        BY <4>2, <4>3
    <3>3. CASE decoder.at = "apply" /\ decoder.hand.kind = k /\ decoder.hand.number = asked[k]
      BY <1>1, <1>3, <2>0, <3>3 DEF Stands
    <3> QED
      BY <3>1, <3>2, <3>3 DEF SettingInv, Stands
  <2> QED
    BY <2>1, <2>2, <2>3
<1> QED
  BY <1>0, <1>1, <1>4 DEF SettingInv

LEMMA RefuseSetting ==
  ASSUME QueueInv, SettingInv, Refuse
  PROVE  SettingInv'
<1>1. /\ UNCHANGED <<q, asked, inForce, applied>> /\ lost' = lost \cup {decoder.hand.number}
      /\ decoder'.hand = decoder.hand /\ decoder'.at = "publish"
  BY DEF Refuse, ringVars, askVars, QueueInv, RingInv, DecoderStates
<1>2. Slots' = Slots
  BY DEF Slots
<1>3. ASSUME NEW k \in Setters PROVE Stands(k)'
  BY <1>1, <1>2 DEF SettingInv, Stands
<1> QED
  BY <1>1, <1>2, <1>3 DEF SettingInv

(* What is applied is younger than what is in force, so that it is not     *)
(* what undoes the last setting.                                           *)
LEMMA ApplySetting ==
  ASSUME QueueInv, OrderInv, SettingInv, Apply
  PROVE  SettingInv'
<1> DEFINE cmd == decoder.hand
<1>0. Slots' = Slots
  BY DEF Slots
<1>1. PICK status :
         /\ decoder' = [decoder EXCEPT !.at = "publish", !.result = status]
         /\ lost' = IF status = "applied" THEN lost ELSE lost \cup {cmd.number}
         /\ inForce' = IF status = "applied" /\ cmd.kind \in Setters
                       THEN [inForce EXCEPT ![cmd.kind] = cmd.number] ELSE inForce
         /\ applied' = IF status # "applied" THEN applied
                       ELSE [number |-> cmd.number, session |-> cmd.session,
                             inSession |-> Generation,
                             named |-> IF cmd.kind = "key" THEN cmd.named ELSE Generation]
  BY DEF Apply
<1>2. decoder.at = "apply" /\ UNCHANGED <<q, asked>>
  BY DEF Apply, ringVars, askVars
<1>3. decoder \in DecoderStates /\ cmd # Zero
  BY <1>2 DEF QueueInv, RingInv
<1>4. decoder'.at = "publish" /\ decoder'.hand = cmd
  BY <1>1, <1>3 DEF DecoderStates
<1>5. cmd.number \in Nat /\ cmd.number > applied.number /\ applied.number \in Nat
  BY <1>2, <1>3, Numbers DEF OrderInv
<1>6. asked \in [Setters -> Nat] /\ inForce \in [Setters -> Nat]
  BY DEF SettingInv
<1>7. CASE status # "applied"
  <2>1. inForce' = inForce /\ applied' = applied /\ lost' = lost \cup {cmd.number}
    BY <1>1, <1>7
  <2>2. ASSUME NEW k \in Setters PROVE Stands(k)'
    BY <1>0, <1>2, <2>1 DEF SettingInv, Stands
  <2> QED
    BY <1>0, <1>2, <1>4, <2>1, <2>2 DEF SettingInv
<1>8. CASE status = "applied"
  <2>1. lost' = lost /\ applied'.number = cmd.number
    BY <1>1, <1>8
  <2>2. /\ \A k \in Setters : inForce'[k] = IF k = cmd.kind THEN cmd.number ELSE inForce[k]
        /\ inForce' \in [Setters -> Nat]
    BY <1>1, <1>5, <1>6, <1>8
  <2>3. ASSUME NEW k \in Setters PROVE inForce'[k] <= applied'.number /\ Stands(k)'
    <3>1. inForce[k] <= applied.number /\ inForce[k] \in Nat /\ asked[k] \in Nat
      BY <1>6 DEF SettingInv
    <3>2. inForce'[k] <= applied'.number
      BY <1>5, <2>1, <2>2, <3>1
    <3>3. CASE k = cmd.kind
      <4>1. cmd.number <= asked[k] /\ inForce[k] # asked[k] /\ inForce'[k] = cmd.number
        BY <1>5, <2>2, <3>1, <3>3 DEF SettingInv
      <4>2. Stands(k)
        BY DEF SettingInv
      <4> QED
        BY <1>0, <1>2, <2>1, <3>2, <4>1, <4>2 DEF Stands
    <3>4. CASE k # cmd.kind
      <4>1. inForce'[k] = inForce[k]
        BY <2>2, <3>4
      <4> QED
        BY <1>0, <1>2, <2>1, <3>2, <3>4, <4>1 DEF SettingInv, Stands
    <3> QED
      BY <3>3, <3>4
  <2> QED
    BY <1>0, <1>2, <1>4, <1>6, <2>2, <2>3 DEF SettingInv
<1> QED
  BY <1>7, <1>8

LEMMA SettingNext ==
  ASSUME QueueInv, OrderInv, SettingInv, [QueueNext]_queueVars
  PROVE  SettingInv'
<1> USE DEF ringVars, askVars
<1>1. CASE \E p \in Producers : ReadGeneration(p)
  BY <1>1, SettingStill DEF ReadGeneration
<1>2. CASE \E p \in Producers, kind \in Kinds : Reject(p, kind)
  BY <1>2, SettingStill DEF Reject, Asks
<1>3. ASSUME NEW p \in Producers, NEW kind \in Kinds, NEW valid \in BOOLEAN,
             Coalesce(p, kind, valid) \/ Enqueue(p, kind, valid) \/ Evict(p, kind, valid)
      PROVE  SettingInv'
  BY <1>3, AdmitSetting
<1>4. CASE StartSession \/ StopSession
  BY <1>4, SettingStill DEF StartSession, StopSession, At
<1>5. CASE Cancel \/ Pop
  BY <1>5, LeaveSetting
<1>6. CASE Edge
  BY <1>6, SettingStill DEF Edge, Unlocked, At
<1>7. CASE Samples \/ Pending \/ Pump
  BY <1>7, SettingStill DEF Samples, Pending, Pump, Move, At
<1>8. CASE DrainDone \/ PublishResult
  BY <1>8, SettingStill DEF DrainDone, PublishResult, At
<1>9. CASE Refuse
  BY <1>9, RefuseSetting
<1>10. CASE Apply
  BY <1>10, ApplySetting
<1>11. CASE Shutdown \/ UNCHANGED queueVars
  BY <1>11, SettingStill DEF Shutdown, queueVars
<1> QED
  BY <1>1, <1>2, <1>3, <1>4, <1>5, <1>6, <1>7, <1>8, <1>9, <1>10, <1>11 DEF QueueNext

(* Once the ring is drained, each setter is at what it was last asked,     *)
(* unless that very submission was evicted, cancelled, refused or failed:  *)
(* overwriting a pending setter drops nothing that would have had an       *)
(* effect, and no older setting comes after a newer one.                   *)
THEOREM LastSettingStands == QueueSpec => []NewestInForce
<1>1. QueueInit => SettingInv
  BY DEF QueueInit, SettingInv, Stands, At, Zero, Setters
<1>2. QueueInv /\ OrderInv /\ SettingInv /\ [QueueNext]_queueVars => SettingInv'
  BY SettingNext
<1>3. QueueInv /\ SettingInv => NewestInForce
  <2> SUFFICES ASSUME QueueInv, SettingInv, IsEmpty, decoder.hand = Zero, NEW k \in Setters
               PROVE  asked[k] \in lost \/ inForce[k] = asked[k]
    BY DEF NewestInForce
  <2>1. \A i \in Slots : q[i] = Zero
    <3>1. head \in Slots /\ tail \in Slots /\ head = tail /\ \A i \in Slots : i \in Live <=> q[i] # Zero
      BY DEF QueueInv, RingInv, IsEmpty
    <3>2. \A i \in Slots : i \notin Live
      BY <3>1, LiveIs DEF Slots
    <3> QED
      BY <3>1, <3>2
  <2> QED
    BY <2>1, SettersAreNotZero DEF SettingInv, Stands
<1> QED
  BY <1>1, <1>2, <1>3, QueueInvariant, OrderInvariant, PTL DEF QueueSpec

(* The gate of the warning and the burst it stands for.                    *)
BurstInv == burst = IF gate THEN [evicted |-> 1, warned |-> 1] ELSE Calm

(* However evictions, drains and session edges alternate, each burst of    *)
(* evictions is warned about exactly once.                                 *)
THEOREM OneWarningPerBurst == QueueSpec => []WarnedOncePerBurst
<1>1. QueueInit => BurstInv
  BY DEF QueueInit, BurstInv
<1>2. BurstInv /\ [QueueNext]_queueVars => BurstInv'
  <2> SUFFICES ASSUME BurstInv, [QueueNext]_queueVars PROVE BurstInv'
    OBVIOUS
  <2>1. CASE UNCHANGED overflowVars
    BY <2>1 DEF BurstInv, overflowVars, Calm
  <2>2. CASE gate' = FALSE /\ burst' = Calm
    BY <2>2 DEF BurstInv, Calm
  <2>3. ASSUME NEW p \in Producers, NEW kind \in Kinds, NEW valid \in BOOLEAN, Evict(p, kind, valid)
        PROVE  BurstInv'
    BY <2>3 DEF Evict, BurstInv, Calm
  <2> QED
    BY <2>1, <2>2, <2>3
    DEF QueueNext, queueVars, overflowVars, ReadGeneration, Reject, Coalesce, Enqueue, StartSession, StopSession,
        Cancel, Edge, Samples, Pending, Pump, Move, Pop, DrainDone, Refuse, Apply, PublishResult, Shutdown
<1>3. BurstInv => WarnedOncePerBurst
  BY DEF BurstInv, WarnedOncePerBurst, Calm
<1> QED
  BY <1>1, <1>2, <1>3, PTL DEF QueueSpec

-----------------------------------------------------------------------------
(* Results.                                                                *)

(* Two sequence numbers that share a slot are a history apart.             *)
LEMMA SharedSlot ==
  ASSUME NEW a \in Nat, NEW b \in Nat, NEW size \in Nat \ {0}, a % size = b % size, a < b
  PROVE  a + size <= b
<1> DEFINE x == a \div size
           y == b \div size
           r == a % size
<1>1. a = size * x + r /\ b = size * y + r /\ {x, y, r} \subseteq Int
  OBVIOUS
<1> HIDE DEF x, y, r
<1>2. b - a = size * (y - x)
  <2>1. size * (y - x) = size * y - size * x /\ size * x \in Int /\ size * y \in Int
    BY <1>1
  <2> QED
    BY <1>1, <2>1
<1>3. CASE y - x >= 1
  <2>1. size * (y - x) >= size
    BY <1>1, <1>3
  <2> QED
    BY <1>1, <1>2, <2>1
<1>4. CASE y - x <= 0
  <2>1. size * (y - x) <= 0
    BY <1>1, <1>4
  <2> QED
    BY <1>1, <1>2, <2>1
<1> QED
  BY <1>1, <1>3, <1>4

(* Each of the last results of a feed, as many as its history has room     *)
(* for, is in its slot under its own sequence number: the test by which    *)
(* dsd_app_*_results_since() skips a slot that was overwritten skips none  *)
(* of them, and a poll that is not too late misses nothing.                *)
ResultsKept ==
    \A f \in Feeds : \A n \in 1 .. newest[f] :
      /\ answers[f][n].seq = n
      /\ n + History > newest[f] => history[f][SlotOf(n)] = answers[f][n]

ResultInv ==
    /\ history \in [Feeds -> [0 .. History - 1 -> Answers \cup {None}]]
    /\ \A f \in Feeds : newest[f] = Len(answers[f])
    /\ ResultsKept

LEMMA HistoryIs == ASSUME SubmitInv PROVE History \in Nat \ {0}
  BY QueueAssumption DEF SubmitInv, History

LEMMA PublishKeeps ==
  ASSUME SubmitInv, ResultInv, NEW cmd \in Commands, NEW status \in Statuses, Publish(cmd, status),
         desk' = desk
  PROVE  ResultInv'
<1>0. /\ History' = History /\ History \in Nat \ {0}
      /\ newest \in [Feeds -> Nat] /\ answers \in [Feeds -> Seq(Answers)]
      /\ history \in [Feeds -> [0 .. History - 1 -> Answers \cup {None}]]
      /\ cmd.number \in Nat
  BY HistoryIs DEF History, SubmitInv, ResultInv, Commands
<1>1. CASE cmd.kind \notin Feeds
  <2>1. UNCHANGED resultVars
    BY <1>1 DEF Publish
  <2> QED
    BY <1>0, <2>1 DEF resultVars, ResultInv, ResultsKept, SlotOf
<1>2. CASE cmd.kind \in Feeds
  <2> DEFINE k == cmd.kind
             last == newest[k] + 1
             slot == last % History
             res == [seq |-> last, number |-> cmd.number, status |-> status]
  <2>1. /\ newest' = [newest EXCEPT ![k] = last]
        /\ history' = [history EXCEPT ![k][slot] = res]
        /\ answers' = [answers EXCEPT ![k] = Append(answers[k], res)]
    BY <1>2 DEF Publish, SlotOf
  <2>2. /\ res \in Answers /\ res.seq = last /\ last \in Nat /\ k \in Feeds /\ slot \in 0 .. History - 1
        /\ newest[k] = last - 1
    BY <1>0, <1>2 DEF Answers
  <2> HIDE DEF res, last, slot, k
  <2>3. history' \in [Feeds -> [0 .. History - 1 -> Answers \cup {None}]]
    BY <1>0, <2>1, <2>2
  <2>4. ASSUME NEW f \in Feeds, f # k
        PROVE  newest'[f] = newest[f] /\ answers'[f] = answers[f] /\ history'[f] = history[f]
    BY <1>0, <2>1, <2>4
  <2>5. /\ newest'[k] = last /\ answers'[k] = Append(answers[k], res)
        /\ \A i \in 0 .. History - 1 : history'[k][i] = IF i = slot THEN res ELSE history[k][i]
    BY <1>0, <2>1, <2>2
  <2>6. answers[k] \in Seq(Answers) /\ Len(answers[k]) + 1 = last
    BY <1>0, <2>2 DEF ResultInv, last
  <2>7. /\ Len(answers'[k]) = last /\ answers'[k][last] = res
        /\ \A n \in 1 .. last - 1 : answers'[k][n] = answers[k][n]
    BY <2>2, <2>5, <2>6
  <2>8. ASSUME NEW n \in 1 .. last
        PROVE  /\ answers'[k][n].seq = n
               /\ n + History > last => history'[k][n % History] = answers'[k][n]
    <3>0. n \in Nat /\ n % History \in 0 .. History - 1
      BY <1>0, <2>2
    <3>1. CASE n = last
      BY <2>2, <2>5, <2>7, <3>0, <3>1 DEF slot
    <3>2. CASE n # last
      <4>1. n \in 1 .. last - 1 /\ n < last /\ newest[k] = last - 1
        <5>1. last \in Nat /\ n \in 1 .. last /\ n # last /\ newest[k] = last - 1
          BY <2>2, <3>2
        <5> QED
          BY <5>1
      <4>2. /\ answers[k][n].seq = n
            /\ n + History > last - 1 => history[k][n % History] = answers[k][n]
        BY <2>2, <4>1 DEF ResultInv, ResultsKept, SlotOf
      <4>3. ASSUME n + History > last PROVE n % History # slot
        <5>1. History \in Nat \ {0} /\ last \in Nat /\ slot = last % History
          BY <1>0, <2>2 DEF slot
        <5>2. n % History = last % History => n + History <= last
          BY <3>0, <4>1, <5>1, SharedSlot
        <5>3. ~(n + History <= last)
          BY <3>0, <4>3, <5>1
        <5> QED
          BY <5>1, <5>2, <5>3
      <4>4. n + History > last => n + History > last - 1
        BY <1>0, <2>2, <3>0
      <4> QED
        BY <2>5, <2>7, <3>0, <4>1, <4>2, <4>3, <4>4
    <3> QED
      BY <3>1, <3>2
  <2>9. ResultsKept'
    <3>1. ASSUME NEW f \in Feeds, NEW n \in 1 .. newest'[f]
          PROVE  /\ answers'[f][n].seq = n
                 /\ n + History > newest'[f] => history'[f][n % History] = answers'[f][n]
      <4>1. CASE f = k
        BY <2>5, <2>8, <3>1, <4>1
      <4>2. CASE f # k
        BY <2>4, <3>1, <4>2 DEF ResultInv, ResultsKept, SlotOf
      <4> QED
        BY <4>1, <4>2
    <3> QED
      BY <1>0, <3>1 DEF ResultsKept, SlotOf
  <2>10. \A f \in Feeds : newest'[f] = Len(answers'[f])
    BY <2>4, <2>5, <2>7 DEF ResultInv
  <2> QED
    BY <1>0, <2>3, <2>9, <2>10 DEF ResultInv
<1> QED
  BY <1>1, <1>2

LEMMA ResultNext ==
  ASSUME QueueInv, ResultInv, [QueueNext]_queueVars
  PROVE  ResultInv'
<1>0. SubmitInv /\ RingInv /\ decoder \in DecoderStates
  BY DEF QueueInv, RingInv
<1>1. CASE UNCHANGED <<desk, newest, history, answers>>
  BY <1>1 DEF ResultInv, ResultsKept, SlotOf, History
<1>2. ASSUME ~IsEmpty, Publish(q[head], "cancelled"), desk' = desk PROVE ResultInv'
  <2>1. q[head] \in Commands
    BY <1>0, <1>2, Oldest
  <2>2. "cancelled" \in Statuses
    BY DEF Statuses
  <2> QED
    BY <1>0, <1>2, <2>1, <2>2, PublishKeeps
<1>3. ASSUME NEW p \in Producers, NEW kind \in Kinds, NEW valid \in BOOLEAN, Evict(p, kind, valid)
      PROVE  ResultInv'
  <2>1. ~IsEmpty
    BY <1>0, <1>3, RingEnds DEF Evict, RingInv
  <2> QED
    BY <1>2, <1>3, <2>1 DEF Evict, Asks
<1>4. CASE Cancel
  BY <1>2, <1>4 DEF Cancel
<1>5. CASE PublishResult
  <2>1. decoder.hand # Zero
    BY <1>0, <1>5 DEF PublishResult, RingInv
  <2>2. decoder.hand \in Commands /\ decoder.result \in Statuses
    BY <1>0, <2>1 DEF DecoderStates
  <2>3. Publish(decoder.hand, decoder.result) /\ desk' = desk
    BY <1>5 DEF PublishResult, ringVars
  <2> QED
    BY <1>0, <2>2, <2>3, PublishKeeps
<1> QED
  BY <1>1, <1>3, <1>4, <1>5
  DEF QueueNext, queueVars, resultVars, ringVars, ReadGeneration, Reject, Asks, Coalesce, Enqueue, StartSession,
      StopSession, Edge, Samples, Pending, Pump, Move, Pop, DrainDone, Refuse, Apply, Shutdown

LEMMA ResultInvariant == QueueSpec => []ResultInv
<1>1. QueueInit => ResultInv
  <2> SUFFICES ASSUME QueueInit PROVE ResultInv
    OBVIOUS
  <2>1. History \in Nat \ {0}
    BY QueueAssumption DEF QueueInit, History
  <2>2. /\ newest = [f \in Feeds |-> 0] /\ answers = [f \in Feeds |-> <<>>]
        /\ history = [f \in Feeds |-> [i \in 0 .. History - 1 |-> None]]
    BY DEF QueueInit
  <2> QED
    BY <2>1, <2>2 DEF ResultInv, ResultsKept
<1>2. QueueInv /\ ResultInv /\ [QueueNext]_queueVars => ResultInv'
  BY ResultNext
<1> QED
  BY <1>1, <1>2, QueueInvariant, PTL DEF QueueSpec

(* A reader of the key or export results gets every result above the last  *)
(* it saw, or the newest History of them, whoever published them: an       *)
(* eviction, a session edge or the drain.                                  *)
THEOREM LastResultsReadable == QueueSpec => []HistoryReadable
<1>1. QueueInv /\ ResultInv => HistoryReadable
  <2> SUFFICES ASSUME QueueInv, ResultInv, NEW f \in Feeds, NEW after \in 0 .. newest[f]
               PROVE  LET missed == IF after + History < newest[f] THEN newest[f] - History ELSE after
                      IN  ResultsSince(f, after) = {answers[f][n] : n \in missed + 1 .. newest[f]}
    BY DEF HistoryReadable
  <2> DEFINE missed == IF after + History < newest[f] THEN newest[f] - History ELSE after
             first == IF newest[f] >= History /\ after + 1 < newest[f] - History + 1
                      THEN newest[f] - History + 1
                      ELSE after + 1
             kept == {seq \in first .. newest[f] : history[f][SlotOf(seq)].seq = seq}
  <2>1. History \in Nat \ {0} /\ newest[f] \in Nat
    BY HistoryIs DEF QueueInv, SubmitInv
  <2>2. first = missed + 1 /\ \A n \in first .. newest[f] : n \in 1 .. newest[f] /\ n + History > newest[f]
    BY <2>1
  <2>3. \A n \in first .. newest[f] :
            history[f][SlotOf(n)] = answers[f][n] /\ history[f][SlotOf(n)].seq = n
    BY <2>2 DEF ResultInv, ResultsKept
  <2>4. ResultsSince(f, after) = {history[f][SlotOf(seq)] : seq \in kept}
    BY DEF ResultsSince
  <2>5. kept = missed + 1 .. newest[f]
    BY <2>2, <2>3
  <2> HIDE DEF kept, missed, first
  <2>6. {history[f][SlotOf(seq)] : seq \in kept} = {answers[f][n] : n \in missed + 1 .. newest[f]}
    BY <2>2, <2>3, <2>5
  <2> QED
    BY <2>4, <2>6 DEF missed
<1> QED
  BY <1>1, QueueInvariant, ResultInvariant, PTL

-----------------------------------------------------------------------------
(* Types.                                                                  *)

(* The parts of QueueTypeOK that the invariants above leave open, with the *)
(* room that a session that is being opened found.                         *)
StateInv ==
    /\ \A i \in Slots : q[i] = Zero \/ q[i].kind \in Kinds
    /\ open \in BOOLEAN /\ generation \in 0 .. MaxSessions /\ (open => generation # 0)
    /\ decoder.at = "opening" => generation < MaxSessions
    /\ \A p \in Producers : read[p] \in {NoGeneration} \cup 0 .. MaxSessions
    /\ gate \in BOOLEAN /\ exit \in BOOLEAN
    /\ lost \subseteq 1 .. submits

(* A step of the decoder that leaves the session as it is.                 *)
LEMMA StateKept ==
  ASSUME StateInv, UNCHANGED <<desk, open, generation, read, submits>>,
         \A i \in Slots : q'[i] \in {q[i], Zero},
         decoder'.at = "opening" => decoder.at = "opening" \/ generation < MaxSessions,
         gate' \in {gate, FALSE}, exit' \in BOOLEAN, lost' \subseteq 1 .. submits
  PROVE  StateInv'
<1>1. Slots' = Slots /\ Kinds' = Kinds /\ MaxSessions' = MaxSessions /\ Producers' = Producers
  BY DEF Slots, Kinds, MaxSessions, Producers
<1>2. \A i \in Slots : q'[i] = Zero \/ q'[i].kind \in Kinds
  BY DEF StateInv
<1>3. gate' \in BOOLEAN
  BY DEF StateInv
<1> QED
  BY <1>1, <1>2, <1>3 DEF StateInv

LEMMA AskState ==
  ASSUME QueueInv, StateInv, NEW p \in Producers, NEW kind \in Kinds, Asks(p, kind),
         \A i \in Slots : q'[i] \in {q[i], Zero} \/ q'[i].kind = kind,
         gate' \in BOOLEAN, lost' \subseteq 1 .. submits + 1
  PROVE  StateInv'
<1>1. Slots' = Slots /\ Kinds' = Kinds /\ MaxSessions' = MaxSessions /\ Producers' = Producers
  BY DEF Slots, Kinds, MaxSessions, Producers, Asks
<1>2. \A i \in Slots : q'[i] = Zero \/ q'[i].kind \in Kinds
  BY DEF StateInv
<1>3. \A r \in Producers : read'[r] \in {NoGeneration} \cup 0 .. MaxSessions
  <2>1. read \in [Producers -> Int] /\ read' = [read EXCEPT ![p] = NoGeneration]
    BY DEF QueueInv, SubmitInv, Asks
  <2> QED
    BY <2>1 DEF StateInv
<1>4. UNCHANGED <<open, generation, decoder, exit>> /\ submits' = submits + 1
  BY DEF Asks, sessionVars
<1> QED
  BY <1>1, <1>2, <1>3, <1>4 DEF StateInv

LEMMA AdmitState ==
  ASSUME QueueInv, StateInv, NEW p \in Producers, NEW kind \in Kinds, NEW valid \in BOOLEAN,
         Coalesce(p, kind, valid) \/ Enqueue(p, kind, valid) \/ Evict(p, kind, valid)
  PROVE  StateInv'
<1> DEFINE new == Submitted(p, kind, valid)
<1>0. /\ head \in Slots /\ tail \in Slots /\ q \in [Slots -> Commands \cup {Zero}]
      /\ submits \in Nat /\ RingInv
  BY DEF QueueInv, RingInv, SubmitInv
<1>1. new.kind = kind
  BY SubmittedIs DEF QueueInv
<1>2. 1 .. submits \subseteq 1 .. submits + 1
  BY <1>0
<1>3. Asks(p, kind)
  BY DEF Coalesce, Enqueue, Evict
<1>4. CASE Coalesce(p, kind, valid)
  <2>1. PICK i \in Overwrites(kind, valid) : q' = [q EXCEPT ![i] = new]
    BY <1>4 DEF Coalesce
  <2> HIDE DEF new
  <2>2. \A j \in Slots : q'[j] = q[j] \/ q'[j].kind = kind
    BY <1>0, <1>1, <2>1
  <2>3. gate' = gate /\ lost' = lost
    BY <1>4 DEF Coalesce, overflowVars
  <2>4. gate' \in BOOLEAN /\ lost' \subseteq 1 .. submits + 1
    BY <1>2, <2>3 DEF StateInv
  <2> QED
    BY <1>3, <2>2, <2>4, AskState
<1>5. CASE Enqueue(p, kind, valid)
  <2>1. q' = [q EXCEPT ![tail] = new] /\ gate' = gate /\ lost' = lost
    BY <1>5 DEF Enqueue, overflowVars
  <2> HIDE DEF new
  <2>2. \A j \in Slots : q'[j] = q[j] \/ q'[j].kind = kind
    BY <1>0, <1>1, <2>1
  <2>4. gate' \in BOOLEAN /\ lost' \subseteq 1 .. submits + 1
    BY <1>2, <2>1 DEF StateInv
  <2> QED
    BY <1>3, <2>2, <2>4, AskState
<1>6. CASE Evict(p, kind, valid)
  <2>1. /\ q' = [q EXCEPT ![head] = Zero, ![tail] = new] /\ gate' = TRUE
        /\ lost' = lost \cup {q[head].number} /\ IsFull
    BY <1>6 DEF Evict
  <2> HIDE DEF new
  <2>2. \A j \in Slots : q'[j] \in {q[j], Zero} \/ q'[j].kind = kind
    BY <1>0, <1>1, <2>1
  <2>3. q[head].number \in 1 .. submits
    <3>1. ~IsEmpty
      BY <1>0, <2>1, RingEnds
    <3>2. q[head] \in Commands /\ q[head] # Zero
      BY <1>0, <3>1, Oldest, CommandIsNotZero
    <3>3. q[head].number \in Nat \ {0} /\ q[head].number <= submits
      BY <1>0, <3>2, Numbers DEF Commands
    <3> QED
      BY <1>0, <3>3
  <2>4. gate' \in BOOLEAN /\ lost' \subseteq 1 .. submits + 1
    BY <1>2, <2>1, <2>3 DEF StateInv
  <2> QED
    BY <1>3, <2>2, <2>4, AskState
<1> QED
  BY <1>4, <1>5, <1>6

LEMMA StateNext ==
  ASSUME QueueInv, SessionInv, StateInv, [QueueNext]_queueVars
  PROVE  StateInv'
<1> USE DEF ringVars, sessionVars, askVars, overflowVars
<1>0. /\ q \in [Slots -> Commands \cup {Zero}] /\ head \in Slots /\ RingInv /\ submits \in Nat
      /\ desk \in Desks /\ decoder \in DecoderStates
      /\ decoder.at = "apply" => decoder.hand # Zero
  BY DEF QueueInv, RingInv, SubmitInv
<1>1. /\ lost \subseteq 1 .. submits /\ gate \in BOOLEAN /\ exit \in BOOLEAN
      /\ generation \in 0 .. MaxSessions /\ MaxSessions \in Nat
  BY <1>0, QueueAssumption DEF StateInv, MaxSessions
<1>2. ASSUME decoder.hand # Zero PROVE decoder.hand.number \in 1 .. submits
  <2>1. decoder.hand.number \in Nat \ {0} /\ decoder.hand.number <= submits
    BY <1>2, Numbers DEF Commands
  <2> QED
    BY <1>0, <2>1
<1>3. ASSUME ~IsEmpty PROVE q[head].number \in 1 .. submits
  <2>1. q[head] \in Commands /\ q[head] # Zero
    BY <1>0, <1>3, Oldest, CommandIsNotZero
  <2>2. q[head].number \in Nat \ {0} /\ q[head].number <= submits
    BY <1>0, <2>1, Numbers DEF Commands
  <2> QED
    BY <1>0, <2>2
<1>4. ASSUME q' = [q EXCEPT ![head] = Zero] PROVE \A i \in Slots : q'[i] \in {q[i], Zero}
  BY <1>0, <1>4
<1>5. CASE \E p \in Producers : ReadGeneration(p)
  <2>1. PICK p \in Producers : ReadGeneration(p)
    BY <1>5
  <2>2. read \in [Producers -> Int] /\ read' = [read EXCEPT ![p] = Generation]
    BY <2>1 DEF QueueInv, SubmitInv, ReadGeneration
  <2>3. Generation \in 0 .. MaxSessions
    BY <1>1 DEF Generation
  <2>4. \A r \in Producers : read'[r] \in {NoGeneration} \cup 0 .. MaxSessions
    BY <2>2, <2>3 DEF StateInv
  <2>5. UNCHANGED <<desk, q, open, generation, decoder, gate, exit, lost, submits>>
    BY <2>1 DEF ReadGeneration
  <2> QED
    BY <2>4, <2>5 DEF StateInv, Slots, Kinds, MaxSessions, Producers
<1>6. CASE \E p \in Producers, kind \in Kinds : Reject(p, kind)
  <2>1. PICK p \in Producers, kind \in Kinds : Reject(p, kind)
    BY <1>6
  <2>2. Asks(p, kind) /\ UNCHANGED <<q, gate, lost>>
    BY <2>1 DEF Reject
  <2>3. lost' \subseteq 1 .. submits + 1 /\ gate' \in BOOLEAN
    BY <1>0, <1>1, <2>2
  <2>4. \A i \in Slots : q'[i] \in {q[i], Zero} \/ q'[i].kind = kind
    BY <2>2
  <2> QED
    BY <2>2, <2>3, <2>4, AskState
<1>7. ASSUME NEW p \in Producers, NEW kind \in Kinds, NEW valid \in BOOLEAN,
             Coalesce(p, kind, valid) \/ Enqueue(p, kind, valid) \/ Evict(p, kind, valid)
      PROVE  StateInv'
  BY <1>7, AdmitState
<1>8. CASE StartSession \/ StopSession
  <2>1. /\ UNCHANGED <<desk, q, open, generation, read, submits, gate, exit, lost>>
        /\ decoder'.at = "opening" => generation < MaxSessions
    BY <1>8 DEF StartSession, StopSession, At
  <2> QED
    BY <1>1, <2>1, StateKept
<1>9. CASE Cancel
  <2>1. lost' \subseteq 1 .. submits
    BY <1>1, <1>3, <1>9 DEF Cancel
  <2> QED
    BY <1>1, <1>4, <1>9, <2>1, StateKept DEF Cancel
<1>10. CASE Edge
  <2>1. /\ UNCHANGED <<desk, q, read, submits, exit, lost>> /\ gate' = FALSE
        /\ open' = (decoder.at = "opening") /\ generation' = IF open' THEN generation + 1 ELSE generation
        /\ decoder' = At(IF open' THEN "run" ELSE "out")
    BY <1>10 DEF Edge
  <2>2. decoder'.at # "opening"
    BY <2>1 DEF At
  <2>3. open' \in BOOLEAN
    BY <2>1
  <2>4. generation' \in 0 .. MaxSessions /\ (open' => generation' # 0)
    <3>1. CASE decoder.at = "opening"
      BY <1>1, <2>1, <3>1 DEF StateInv
    <3>2. CASE decoder.at # "opening"
      BY <1>1, <2>1, <3>2
    <3> QED
      BY <3>1, <3>2
  <2> QED
    BY <1>1, <2>1, <2>2, <2>3, <2>4 DEF StateInv, Slots, Kinds, MaxSessions, Producers
<1>11. CASE Samples \/ Pending \/ Pump
  <2>1. /\ UNCHANGED <<desk, q, open, generation, read, submits, gate, exit, lost>>
        /\ decoder'.at # "opening"
    BY <1>11 DEF Samples, Pending, Pump, Move, At
  <2> QED
    BY <1>1, <2>1, StateKept
<1>12. CASE Pop
  BY <1>1, <1>4, <1>12, StateKept DEF Pop
<1>13. CASE DrainDone
  BY <1>1, <1>13, StateKept DEF DrainDone, At
<1>14. CASE Refuse
  <2>1. decoder'.at = "publish" /\ lost' \subseteq 1 .. submits
    BY <1>0, <1>1, <1>2, <1>14 DEF Refuse, DecoderStates
  <2> QED
    BY <1>1, <1>14, <2>1, StateKept DEF Refuse
<1>15. CASE Apply
  <2>1. /\ decoder'.at = "publish" /\ lost' \subseteq 1 .. submits
        /\ UNCHANGED <<desk, q, open, generation, read, submits, gate>>
        /\ exit' = (exit \/ decoder.hand.kind = "quit")
    BY <1>0, <1>1, <1>2, <1>15 DEF Apply, DecoderStates
  <2>2. exit' \in BOOLEAN
    BY <2>1
  <2> QED
    BY <2>1, <2>2, StateKept
<1>16. CASE PublishResult
  BY <1>1, <1>16, StateKept DEF PublishResult, At
<1>17. CASE Shutdown
  BY <1>1, <1>17, StateKept DEF Shutdown
<1>18. CASE UNCHANGED queueVars
  BY <1>1, <1>18, StateKept DEF queueVars
<1> QED
  BY <1>5, <1>6, <1>7, <1>8, <1>9, <1>10, <1>11, <1>12, <1>13, <1>14, <1>15, <1>16, <1>17, <1>18
  DEF QueueNext

(* The queue's state is what its declarations say, whatever producers and  *)
(* the decoder do: indices stay in the ring, a command is in hand exactly  *)
(* while it is applied or answered, and sessions are counted from one.     *)
THEOREM QueueTypes == QueueSpec => []QueueTypeOK
<1>1. QueueInit => StateInv
  <2> SUFFICES ASSUME QueueInit PROVE StateInv
    OBVIOUS
  <2>1. MaxSessions \in Nat
    BY QueueAssumption DEF QueueInit, MaxSessions
  <2>2. /\ q = [i \in Slots |-> Zero] /\ open = FALSE /\ generation = 0 /\ gate = FALSE /\ exit = FALSE
        /\ read = [p \in Producers |-> NoGeneration] /\ lost = {} /\ decoder.at = "out"
    BY DEF QueueInit, At
  <2>3. (\A i \in Slots : q[i] = Zero) /\ \A p \in Producers : read[p] = NoGeneration
    BY <2>2
  <2>4. open \in BOOLEAN /\ gate \in BOOLEAN /\ exit \in BOOLEAN /\ ~open
    BY <2>2
  <2>5. generation \in 0 .. MaxSessions /\ lost \subseteq 1 .. submits /\ decoder.at # "opening"
    BY <2>1, <2>2
  <2> QED
    BY <2>3, <2>4, <2>5, Zenon DEF StateInv
<1>2. QueueInv /\ SessionInv /\ StateInv /\ [QueueNext]_queueVars => StateInv'
  BY StateNext
<1>3. QueueInv /\ ResultInv /\ StateInv => QueueTypeOK
  BY DEF QueueInv, RingInv, SubmitInv, DecoderStates, ResultInv, StateInv, QueueTypeOK
<1> QED
  BY <1>1, <1>2, <1>3, QueueInvariant, OrderInvariant, ResultInvariant, PTL DEF QueueSpec

(* Everything that is claimed of the commands the drain is given: each     *)
(* takes effect in its session, in order and to the last setting, its      *)
(* result can be read, and its storage is erased.                          *)
THEOREM CommandsAreRight == QueueSpec => []CommandsRight
<1>1. /\ QueueTypeOK /\ AppliedInItsSession /\ InOrder /\ NewestInForce
      /\ HistoryReadable /\ StorageCleared /\ WarnedOncePerBurst
      => CommandsRight
  BY DEF CommandsRight
<1> QED
  BY <1>1, QueueTypes, NoCommandOutlivesItsSession, AppliedInOrder, LastSettingStands, LastResultsReadable,
     NothingLeftBehind, OneWarningPerBurst, PTL
=============================================================================
