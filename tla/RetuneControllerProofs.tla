----------------------- MODULE RetuneControllerProofs -----------------------
(***************************************************************************)
(* The retune pipeline is proved for any number of callers, calls and      *)
(* result slots.  The invariant has five parts, each of which rests on the *)
(* ones before it:                                                         *)
(*                                                                         *)
(*  CountInv    where the one retune of each request id is;                *)
(*  ParkInv     who may be at a block while the controller works;          *)
(*  FreshInv    which settings' samples are in either ring, in the         *)
(*              demodulator and in the reader's hands;                     *)
(*  SilentInv   what a closed gate means for a read that is under way;     *)
(*  AnswerInv   where a tagged call is and what its owner was told.        *)
(***************************************************************************)
EXTENDS RetuneController, TLAPS

(* The controller has a retune, and has programmed the hardware for it.    *)
Working == {"enter", "park", "clear", "clear2", "prepare", "program", "release", "drain",
            "drain2", "publish", "signal"}
Programmed == {"release", "drain", "drain2", "publish", "signal"}
Reconfiguring == {"park", "clear", "clear2", "prepare", "program", "release"}

CountInv ==
    /\ RequestsAccounted
    /\ request_id <= calls /\ queued <= calls /\ ctl.work <= calls /\ stop.call <= calls
    /\ ctl.work # 0 <=> ctl.pc \in Working
    /\ exit <=> stop.pc # "running"
    /\ accepting <=> stop.pc \in {"running", "detach"}
    /\ ~accepting => queued = 0
    /\ stop.call # 0 => stop.pc \in {"join", "cancel", "signal"} /\ stop.id = request_id
    /\ stop.pc \in {"cancel", "signal"} => stop.call # 0 /\ ctl.pc = "gone"
    /\ hw <= complete_id + One(ctl.work)
    /\ ctl.pc \notin Programmed => hw <= complete_id /\ applied = hw
    /\ applied <= hw /\ told <= applied

ParkInv ==
    /\ in_progress <=> ctl.pc \in Reconfiguring
    /\ busy <=> demod.pc \in {"check", "emit"}
    /\ DemodParked

AtLeast(samples, n) == \A s \in samples : s >= n

FreshInv ==
    /\ AtLeast(input, hw) \/ purge
    /\ demod.pc \in {"enter", "check"} => AtLeast(demod.block, hw) \/ purge
    /\ demod.pc = "emit" /\ ~exit => AtLeast(demod.block, hw)
    /\ ctl.pc \in {"prepare", "program", "release"} => output = {}
    /\ ~exit => AtLeast(output, hw)
    /\ reader.gen <= generation
    /\ reader.pc \in {"idle", "generation", "look", "copy"} => reader.got = {}
    /\ ctl.pc \in {"prepare", "program"} /\ reader.got # {} => reader.gen # generation
    /\ ~exit /\ reader.gen = generation => AtLeast(reader.got, hw)

(* A read past its look at the gate, with samples to hand over.            *)
Committed == reader.pc = "compare" /\ reader.got # {} /\ reader.gen = generation

SilentInv ==
    /\ gate # 0 /\ Committed => done_m # "free"
    /\ \A c \in Callers :
        /\ caller[c].pc \in {"disown", "settle"} <=> done_m = c
        /\ caller[c].pc \in {"disown", "settle"} =>
            caller[c].id > complete_id /\ gate >= caller[c].id
        /\ caller[c].pc = "settle" => ~Committed
        /\ caller[c].answer = "timeout" /\ caller[c].id > complete_id =>
            gate >= caller[c].id /\ ~Committed

(* Where the tagged call k, known to its caller as request n, is.          *)
AtController(k, n) ==
    /\ k = ctl.work /\ n = complete_id + 1
    /\ ctl.pc = "signal" => published[k] = ctl.result
InSlot(k, n) == k = queued /\ n = request_id
AtStop(k, n) ==
    /\ k = stop.call /\ n = request_id
    /\ stop.pc = "signal" => published[k] = "FAILED"
Finished(k, n) ==
    /\ k # queued /\ k # ctl.work /\ k # stop.call
    /\ n <= complete_id
    /\ Slot(n).id = n => Slot(n).result = published[k]

Placed(k, n) == AtController(k, n) \/ InSlot(k, n) \/ AtStop(k, n) \/ Finished(k, n)

OrderInv ==
    /\ tagged \subseteq 1 .. calls
    /\ queued # 0 => ctl.work < queued
    /\ stop.call # 0 => ctl.work < stop.call
    /\ \A i \in DOMAIN slots : slots[i].id <= complete_id

OwnerTold(c) ==
    caller[c].call \in tagged =>
      /\ Placed(caller[c].call, caller[c].id)
      /\ caller[c].answer \in Results =>
           caller[c].id <= complete_id /\ published[caller[c].call] = caller[c].answer

AnswerInv ==
    /\ OrderInv
    /\ \A c \in Callers : caller[c].call <= calls
    /\ \A c \in Callers : OwnerTold(c)

-----------------------------------------------------------------------------
(* Types and the count of requests.                                        *)

USE CallersAssumption, MaxCallsAssumption, SetupsAssumption DEF Calls, Results, Settings

BaseInv == TypeOK /\ CountInv

LEMMA SlotsPositive == TypeOK => Slots \in Nat \ {0}
  BY DEF TypeOK, Slots

LEMMA InitBase == Init => BaseInv
<1> SUFFICES ASSUME Init PROVE BaseInv
  OBVIOUS
<1>1. Slots \in Nat \ {0}
  BY DEF Init, Slots
<1>2. slots \in [0 .. Slots - 1 -> SlotStates]
  BY <1>1 DEF Init, SlotStates
<1>3. /\ caller \in [Callers -> CallerStates]
      /\ published \in [Calls -> {"none"} \cup Results]
  BY DEF Init, CallerStates
<1>6. ctl \in CtlStates /\ demod \in DemodStates /\ reader \in ReaderStates /\ stop \in StopStates
  BY DEF Init, NoWork, Idle, NoRead, CtlStates, DemodStates, ReaderStates, StopStates
<1>7. /\ accepting \in BOOLEAN /\ reading \in BOOLEAN /\ in_progress \in BOOLEAN /\ busy \in BOOLEAN
      /\ hold \in BOOLEAN /\ purge \in BOOLEAN /\ exit \in BOOLEAN
  BY Zenon DEF Init
<1>8. /\ calls \in 0 .. MaxCalls /\ tagged \subseteq Calls /\ queued \in 0 .. MaxCalls
      /\ request_id \in 0 .. MaxCalls /\ complete_id \in 0 .. MaxCalls /\ gate \in 0 .. MaxCalls
      /\ generation \in Nat /\ hw \in Settings /\ input \subseteq Settings /\ output \subseteq Settings
      /\ applied \in Settings /\ told \in Settings
  BY DEF Init
<1>4. TypeOK
  BY <1>2, <1>3, <1>6, <1>7, <1>8 DEF Init, TypeOK
<1>5. CountInv
  BY DEF Init, CountInv, RequestsAccounted, One, NoWork, Working, Programmed
<1> QED
  BY <1>4, <1>5 DEF BaseInv

(* Putting a retune into the slot keeps one id for it.                     *)
LEMMA QueueCounts ==
  ASSUME BaseInv, NEW isTagged \in BOOLEAN, Queue(isTagged),
         UNCHANGED <<complete_id, ctl, stop, hw, exit, applied, told>>
  PROVE  /\ CountInv'
         /\ calls' \in 1 .. MaxCalls /\ tagged' \subseteq Calls /\ accepting' \in BOOLEAN
         /\ queued' \in 1 .. MaxCalls /\ request_id' \in 0 .. MaxCalls
<1>1. /\ calls' \in 1 .. MaxCalls /\ tagged' \subseteq Calls /\ accepting' \in BOOLEAN
      /\ queued' \in 1 .. MaxCalls /\ request_id' \in 0 .. MaxCalls
  BY DEF BaseInv, TypeOK, CountInv, Queue
<1>2. accepting /\ stop.call = 0
  BY DEF BaseInv, CountInv, Queue, MayQueue
<1>3. RequestsAccounted'
  BY <1>1, <1>2 DEF BaseInv, TypeOK, CountInv, RequestsAccounted, One, Queue
<1>4. CountInv'
  BY <1>1, <1>2, <1>3 DEF BaseInv, TypeOK, CtlStates, StopStates, CountInv, Queue
<1> QED
  BY <1>1, <1>4

LEMMA AskBase ==
  ASSUME BaseInv, Nudge \/ \E c \in Callers, isTagged \in BOOLEAN : Tune(c, isTagged)
  PROVE  BaseInv'
<1>1. PICK isTagged \in BOOLEAN : Queue(isTagged) /\ AskRest
  BY DEF Nudge, Tune
<1>2. UNCHANGED <<complete_id, ctl, stop, hw, exit, applied, told>>
  BY <1>1 DEF AskRest, doneVars
<1>3. /\ CountInv'
      /\ calls' \in 1 .. MaxCalls /\ tagged' \subseteq Calls /\ accepting' \in BOOLEAN
      /\ queued' \in 1 .. MaxCalls /\ request_id' \in 0 .. MaxCalls
  BY <1>1, <1>2, QueueCounts
<1>4. caller' \in [Callers -> CallerStates]
  <2>1. [pc |-> "wait", call |-> calls', id |-> request_id', answer |-> "none"] \in CallerStates
    BY <1>3 DEF CallerStates
  <2>2. caller \in [Callers -> CallerStates]
    BY DEF BaseInv, TypeOK
  <2> QED
    BY <2>1, <2>2 DEF Nudge, Tune
<1>5. Slots' = Slots
  BY <1>1 DEF AskRest, Slots
<1>6. TypeOK'
  BY <1>1, <1>3, <1>4, <1>5 DEF BaseInv, TypeOK, AskRest, doneVars, demodVars
<1> QED
  BY <1>3, <1>6 DEF BaseInv

(* A caller's wait changes neither slot nor count.                         *)
CallerWaits(c) == WaitAnswered(c) \/ WaitStopped(c) \/ WaitTimesOut(c) \/ Disown(c) \/ GiveUp(c)

LEMMA WaitBase ==
  ASSUME BaseInv, NEW c \in Callers, CallerWaits(c)
  PROVE  BaseInv'
<1>1. Slot(caller[c].id).result \in Results
  <2>1. caller[c].id \in Nat
    BY DEF BaseInv, TypeOK, CallerStates
  <2>2. caller[c].id % Slots \in 0 .. Slots - 1
    BY <2>1, SlotsPositive DEF BaseInv
  <2> QED
    BY <2>2 DEF BaseInv, TypeOK, Slot, SlotStates
<1>2. caller' \in [Callers -> CallerStates]
  <2>0. caller \in [Callers -> CallerStates]
    BY DEF BaseInv, TypeOK
  <2>1. \A p \in {"idle", "wait", "disown", "settle"},
           a \in {"none", "missing", "stopped", "timeout"} \cup Results :
          /\ [caller[c] EXCEPT !.pc = p, !.answer = a] \in CallerStates
          /\ [caller[c] EXCEPT !.pc = p] \in CallerStates
    BY <2>0 DEF CallerStates
  <2>2. CASE WaitAnswered(c)
    BY <1>1, <2>0, <2>1, <2>2 DEF WaitAnswered
  <2>3. CASE WaitStopped(c) \/ GiveUp(c)
    BY <2>0, <2>1, <2>3 DEF WaitStopped, GiveUp
  <2>4. CASE WaitTimesOut(c) \/ Disown(c)
    BY <2>0, <2>1, <2>4 DEF WaitTimesOut, Disown
  <2> QED
    BY <2>2, <2>3, <2>4 DEF CallerWaits
<1>3. /\ gate' \in 0 .. MaxCalls /\ done_m' \in Callers \cup {"free"} /\ generation' \in Nat
      /\ told' \in {told, applied}
  BY DEF BaseInv, TypeOK, CallerStates, CallerWaits, WaitAnswered, WaitStopped, WaitTimesOut,
     Disown, GiveUp
<1>4. CallerRest
  BY DEF CallerWaits, WaitAnswered, WaitStopped, WaitTimesOut, Disown, GiveUp
<1> USE DEF CallerRest
<1>5. Slots' = Slots
  BY <1>4 DEF Slots
<1>6. TypeOK'
  BY <1>2, <1>3, <1>4, <1>5 DEF BaseInv, TypeOK, slotVars, demodVars
<1>7. CountInv'
  BY <1>3, <1>4 DEF BaseInv, CountInv, RequestsAccounted, slotVars, TypeOK
<1> QED
  BY <1>6, <1>7 DEF BaseInv

(* The controller's steps between Take, Program and Signal only move it.   *)
CtlMoves ==
    \/ EnterGate \/ Park \/ ClearFirst("clear", "clear2") \/ ClearRing("clear2", "prepare")
    \/ PrepareInput \/ Release \/ Drained \/ DrainTimesOut \/ ClearRing("drain2", "publish")

LEMMA CtlMovesBase ==
  ASSUME BaseInv, CtlMoves
  PROVE  BaseInv'
<1> DEFINE q == ctl'.pc
<1> USE DEF CtlMoves, EnterGate, Park, ClearFirst, ClearRing, PrepareInput, Release, Drained,
            DrainTimesOut
<1>1. CtlRest /\ CtlLeaves /\ UNCHANGED hw
  BY DEF demodVars
<1>2. /\ ctl' = [ctl EXCEPT !.pc = q] /\ ctl.pc \in Working /\ q \in Working
      /\ q \in Programmed <=> ctl.pc \in Programmed
  BY DEF BaseInv, TypeOK, CtlStates, Working, Programmed
<1>3. in_progress' \in BOOLEAN
  <2>1. in_progress' \in {in_progress, TRUE, FALSE}
    OBVIOUS
  <2> QED
    BY <2>1, Zenon DEF BaseInv, TypeOK
<1>4. hold' \in BOOLEAN /\ purge' \in BOOLEAN
  <2>1. hold' \in {hold, TRUE, FALSE} /\ purge' \in {purge, TRUE}
    BY DEF demodVars
  <2> QED
    BY <2>1, Zenon DEF BaseInv, TypeOK
<1>5. generation' \in Nat /\ output' \subseteq Settings /\ UNCHANGED <<busy, demod, input>>
  BY DEF BaseInv, TypeOK, demodVars
<1> HIDE DEF CtlMoves
<1>6. ctl' \in CtlStates /\ ctl'.pc = q /\ ctl'.work = ctl.work
  BY <1>2 DEF BaseInv, TypeOK, CtlStates, Working
<1>7. TypeOK'
  BY <1>1, <1>3, <1>4, <1>5, <1>6 DEF BaseInv, TypeOK, CtlRest, CtlLeaves, doneVars, Slots
<1>8. CountInv'
  <2>1. q # "gone" /\ ctl.pc # "gone"
    BY <1>2 DEF Working
  <2> HIDE DEF q
  <2> QED
    BY <1>1, <1>2, <1>6, <2>1 DEF BaseInv, CountInv, RequestsAccounted, CtlRest, CtlLeaves, doneVars
<1> QED
  BY <1>7, <1>8 DEF BaseInv

LEMMA TakeBase == BaseInv /\ (Take \/ CtlExits) => BaseInv'
<1> SUFFICES ASSUME BaseInv, Take \/ CtlExits PROVE BaseInv'
  OBVIOUS
<1>1. /\ CtlRest /\ UNCHANGED <<doneVars, published, generation, in_progress, demodVars, hw, output>>
      /\ ctl.pc = "idle"
  BY DEF Take, CtlExits, CtlLeaves
<1>2. \/ /\ queued # 0 /\ queued' = 0 /\ ~exit /\ ctl' = [ctl EXCEPT !.pc = "enter", !.work = queued]
      \/ queued' = queued /\ exit /\ ctl' = [ctl EXCEPT !.pc = "gone"]
  BY DEF Take, CtlExits, CtlLeaves
<1>3. /\ ctl' \in CtlStates /\ queued' \in 0 .. MaxCalls
      /\ \/ queued # 0 /\ queued' = 0 /\ ~exit /\ ctl'.pc = "enter" /\ ctl'.work = queued
         \/ queued' = queued /\ ctl'.pc = "gone" /\ ctl'.work = ctl.work
  <2>1. ctl \in CtlStates /\ queued \in 0 .. MaxCalls
    BY DEF BaseInv, TypeOK
  <2>2. /\ [ctl EXCEPT !.pc = "enter", !.work = queued] \in CtlStates
        /\ [ctl EXCEPT !.pc = "gone"] \in CtlStates
    BY <2>1 DEF CtlStates
  <2>3. CASE queued # 0 /\ queued' = 0 /\ ~exit /\ ctl' = [ctl EXCEPT !.pc = "enter", !.work = queued]
    <3>1. ctl'.pc = "enter" /\ ctl'.work = queued
      BY <2>1, <2>3 DEF CtlStates
    <3> QED
      BY <2>1, <2>2, <2>3, <3>1
  <2>4. CASE queued' = queued /\ exit /\ ctl' = [ctl EXCEPT !.pc = "gone"]
    <3>1. ctl'.pc = "gone" /\ ctl'.work = ctl.work
      BY <2>1, <2>4 DEF CtlStates
    <3> QED
      BY <2>1, <2>2, <2>4, <3>1
  <2> QED
    BY <1>2, <2>3, <2>4
<1>4. TypeOK'
  BY <1>1, <1>3 DEF BaseInv, TypeOK, CtlRest, doneVars, demodVars, Slots
<1>5. ctl.work = 0
  BY <1>1 DEF BaseInv, CountInv, Working, TypeOK, CtlStates
<1>6. CountInv'
  BY <1>1, <1>3, <1>5 DEF BaseInv, TypeOK, CountInv, RequestsAccounted, One, CtlRest, doneVars,
     Working, Programmed, StopStates
<1> QED
  BY <1>4, <1>6 DEF BaseInv

LEMMA ProgramBase ==
  ASSUME BaseInv, NEW moved \in BOOLEAN, NEW result \in Results, Program(moved, result)
  PROVE  BaseInv'
<1>1. /\ CtlRest /\ CtlLeaves /\ UNCHANGED <<generation, in_progress, busy, demod, input, hold, output>>
      /\ ctl.pc = "program" /\ hw' \in {hw, hw + 1}
      /\ ctl' = [ctl EXCEPT !.pc = "release", !.moved = moved, !.result = result]
  BY DEF Program
<1>2. purge' \in BOOLEAN
  BY Zenon DEF Program
<1>3. ctl' \in CtlStates /\ ctl'.pc = "release" /\ ctl'.work = ctl.work
  BY <1>1 DEF BaseInv, TypeOK, CtlStates
<1>4. ctl.work # 0 /\ hw <= complete_id /\ complete_id < request_id
  BY <1>1 DEF BaseInv, TypeOK, CountInv, RequestsAccounted, One, Working, Programmed
<1>5. hw' \in Settings
  BY <1>1, <1>4 DEF BaseInv, TypeOK
<1>6. TypeOK'
  BY <1>1, <1>2, <1>3, <1>5 DEF BaseInv, TypeOK, CtlRest, CtlLeaves, doneVars, Slots
<1>7. CountInv'
  BY <1>1, <1>3, <1>4, <1>5 DEF BaseInv, TypeOK, CountInv, RequestsAccounted, One, CtlRest, CtlLeaves,
     doneVars, Working, Programmed
<1> QED
  BY <1>6, <1>7 DEF BaseInv

LEMMA PublishBase == BaseInv /\ Publish => BaseInv'
<1> SUFFICES ASSUME BaseInv, Publish PROVE BaseInv'
  OBVIOUS
<1>1. /\ CtlRest /\ UNCHANGED <<queued, doneVars, generation, in_progress, demodVars, hw, output>>
      /\ ctl.pc = "publish" /\ ctl' = [ctl EXCEPT !.pc = "signal"]
  BY DEF Publish
<1>2. published' \in [Calls -> {"none"} \cup Results]
  BY DEF Publish, PublishCompletion, BaseInv, TypeOK, CtlStates
<1>3. ctl' \in CtlStates /\ ctl'.pc = "signal" /\ ctl'.work = ctl.work
  BY <1>1 DEF BaseInv, TypeOK, CtlStates
<1>4. TypeOK'
  BY <1>1, <1>2, <1>3 DEF BaseInv, TypeOK, CtlRest, doneVars, demodVars, Slots
<1>5. CountInv'
  BY <1>1, <1>3 DEF BaseInv, TypeOK, CountInv, RequestsAccounted, CtlRest, doneVars, Working, Programmed
<1> QED
  BY <1>4, <1>5 DEF BaseInv

(* A completion: the next id, in its slot.                                 *)
LEMMA CompletionTypes ==
  ASSUME BaseInv, NEW result \in Results, SignalComplete(result), complete_id < request_id,
         UNCHANGED <<setup, hw>>
  PROVE  /\ complete_id' = complete_id + 1 /\ complete_id' \in 1 .. MaxCalls
         /\ slots' \in [0 .. Slots' - 1 -> SlotStates] /\ gate' \in 0 .. MaxCalls
         /\ done_m' = "free" /\ applied' = hw
<1>1. complete_id' = complete_id + 1 /\ complete_id + 1 \in 1 .. MaxCalls
  BY DEF SignalComplete, BaseInv, TypeOK
<1>2. [id |-> complete_id + 1, result |-> result] \in SlotStates
  BY <1>1 DEF SlotStates
<1>3. Slots' = Slots /\ slots' = [slots EXCEPT ![(complete_id + 1) % Slots] = [id |-> complete_id + 1, result |-> result]]
  BY DEF SignalComplete, Slots
<1>4. slots' \in [0 .. Slots' - 1 -> SlotStates]
  BY <1>2, <1>3 DEF BaseInv, TypeOK
<1> QED
  BY <1>1, <1>4 DEF SignalComplete, BaseInv, TypeOK

LEMMA SignalBase == BaseInv /\ Signal => BaseInv'
<1> SUFFICES ASSUME BaseInv, Signal PROVE BaseInv'
  OBVIOUS
<1>1. /\ CtlRest /\ UNCHANGED <<queued, published, generation, in_progress, demodVars, hw, output>>
      /\ ctl.pc = "signal" /\ ctl' = NoWork /\ SignalComplete(ctl.result)
  BY DEF Signal
<1>2. ctl.result \in Results /\ ctl.work # 0 /\ complete_id < request_id
  BY <1>1 DEF BaseInv, TypeOK, CtlStates, CountInv, RequestsAccounted, One, Working
<1>3. /\ complete_id' = complete_id + 1 /\ complete_id' \in 1 .. MaxCalls
      /\ slots' \in [0 .. Slots' - 1 -> SlotStates] /\ gate' \in 0 .. MaxCalls
      /\ done_m' = "free" /\ applied' = hw
  BY <1>1, <1>2, CompletionTypes DEF CtlRest
<1>4. ctl' \in CtlStates /\ ctl'.pc = "idle" /\ ctl'.work = 0
  BY <1>1 DEF NoWork, CtlStates
<1>5. TypeOK'
  BY <1>1, <1>3, <1>4 DEF BaseInv, TypeOK, CtlRest, demodVars
<1>6. CountInv'
  BY <1>1, <1>2, <1>3, <1>4 DEF BaseInv, TypeOK, CountInv, RequestsAccounted, One, CtlRest, Working,
     Programmed, StopStates, CtlStates
<1> QED
  BY <1>5, <1>6 DEF BaseInv

(* The demodulator and the device touch no request.                        *)
LEMMA DemodBase ==
  ASSUME BaseInv, Capture \/ DemodStep
  PROVE  BaseInv'
<1>0. /\ demod \in DemodStates /\ input \subseteq Settings /\ output \subseteq Settings /\ hw \in Settings
      /\ busy \in BOOLEAN /\ purge \in BOOLEAN
  BY DEF BaseInv, TypeOK
<1>1. DemodRest
  BY DEF DemodStep, Capture, Purge, ReadBlock, EnterBlock, CheckBlock, EmitBlock, DemodExits
<1>2. demod' \in DemodStates
  <2>1. \A p \in {"check", "emit", "gone"} : [demod EXCEPT !.pc = p] \in DemodStates
    BY <1>0 DEF DemodStates
  <2>2. Idle \in DemodStates /\ \A b \in SUBSET Settings : [pc |-> "enter", block |-> b] \in DemodStates
    BY DEF DemodStates, Idle
  <2>3. CASE ReadBlock
    <3>1. PICK newest \in input : demod' = [pc |-> "enter", block |-> {s \in input : s <= newest}]
      BY <2>3 DEF ReadBlock
    <3>2. {s \in input : s <= newest} \in SUBSET Settings
      BY <1>0
    <3> QED
      BY <2>2, <3>1, <3>2
  <2>4. CASE CheckBlock
    BY <2>1, <2>2, <2>4 DEF CheckBlock
  <2>5. CASE EnterBlock \/ DemodExits
    BY <2>1, <2>5 DEF EnterBlock, DemodExits
  <2>6. CASE Capture \/ Purge \/ EmitBlock
    BY <1>0, <2>2, <2>6 DEF Capture, Purge, EmitBlock
  <2> QED
    BY <2>3, <2>4, <2>5, <2>6 DEF DemodStep
<1>3. input' \subseteq Settings
  BY <1>0 DEF DemodStep, Capture, Purge, ReadBlock, EnterBlock, CheckBlock, EmitBlock, DemodExits
<1>4. output' \subseteq Settings
  <2>1. demod.block \subseteq Settings
    BY <1>0 DEF DemodStates
  <2> QED
    BY <1>0, <2>1 DEF DemodStep, Capture, Purge, ReadBlock, EnterBlock, CheckBlock, EmitBlock, DemodExits
<1>5. busy' \in BOOLEAN
  BY <1>0, Zenon DEF DemodStep, Capture, Purge, ReadBlock, EnterBlock, CheckBlock, EmitBlock, DemodExits
<1>6. purge' \in BOOLEAN
  BY <1>0, Zenon DEF DemodStep, Capture, Purge, ReadBlock, EnterBlock, CheckBlock, EmitBlock, DemodExits
<1>7. TypeOK'
  BY <1>1, <1>2, <1>3, <1>4, <1>5, <1>6 DEF BaseInv, TypeOK, DemodRest, slotVars, doneVars, Slots
<1>8. CountInv'
  BY <1>1 DEF BaseInv, CountInv, RequestsAccounted, DemodRest, slotVars, doneVars
<1> QED
  BY <1>7, <1>8 DEF BaseInv

(* Nor does the reader.                                                    *)
LEMMA ReaderBase ==
  ASSUME BaseInv, ReaderStep
  PROVE  BaseInv'
<1>0. reader \in ReaderStates /\ output \subseteq Settings /\ reading \in BOOLEAN /\ generation \in Nat
  BY DEF BaseInv, TypeOK
<1>1. ReadRest
  BY DEF ReaderStep, ReadBegins, NoteGeneration, LookAtGate, Copy, Leave, GateAgain, CompareAgain, Consume
<1>2. reader' \in ReaderStates
  <2>1. \A p \in {"generation", "leave", "copy"} : [reader EXCEPT !.pc = p] \in ReaderStates
    BY <1>0 DEF ReaderStates
  <2>2. /\ NoRead \in ReaderStates /\ [reader EXCEPT !.pc = "look", !.gen = generation] \in ReaderStates
        /\ \A p \in {"leave", "gate", "compare", "handed"}, b \in SUBSET Settings :
             [reader EXCEPT !.pc = p, !.got = b] \in ReaderStates
    BY <1>0 DEF ReaderStates, NoRead
  <2>3. \A ok \in BOOLEAN : Keep(ok) \in SUBSET Settings
    BY <1>0 DEF ReaderStates, Keep
  <2>4. CASE Copy
    <3>1. CASE output = {} /\ reader' = [reader EXCEPT !.pc = "leave"]
      BY <2>1, <3>1
    <3>2. CASE \E newest \in output :
                  reader' = [reader EXCEPT !.pc = "leave", !.got = {s \in output : s <= newest}]
      <4>1. PICK newest \in output :
                  reader' = [reader EXCEPT !.pc = "leave", !.got = {s \in output : s <= newest}]
        BY <3>2
      <4>2. {s \in output : s <= newest} \in SUBSET Settings
        BY <1>0
      <4> QED
        BY <2>2, <4>1, <4>2
    <3> QED
      BY <2>4, <3>1, <3>2 DEF Copy
  <2>5. CASE Leave
    BY <2>2, <2>3, <2>5 DEF Leave
  <2>6. CASE GateAgain
    BY <2>2, <2>3, <2>6 DEF GateAgain
  <2>7. CASE CompareAgain
    BY <2>2, <2>3, <2>7 DEF CompareAgain, HandsOver
  <2>8. CASE ReadBegins \/ NoteGeneration \/ LookAtGate \/ Consume
    BY <2>1, <2>2, <2>8 DEF ReadBegins, NoteGeneration, LookAtGate, Consume
  <2> QED
    BY <2>4, <2>5, <2>6, <2>7, <2>8 DEF ReaderStep
<1>3. output' \subseteq Settings
  BY <1>0 DEF ReaderStep, ReadBegins, NoteGeneration, LookAtGate, Copy, Leave, GateAgain, CompareAgain, Consume
<1>4. reading' \in BOOLEAN
  BY <1>0, Zenon DEF ReaderStep, ReadBegins, NoteGeneration, LookAtGate, Copy, Leave, GateAgain,
     CompareAgain, Consume
<1>5. TypeOK'
  BY <1>1, <1>2, <1>3, <1>4 DEF BaseInv, TypeOK, ReadRest, slotVars, doneVars, demodVars, Slots
<1>6. CountInv'
  BY <1>1 DEF BaseInv, CountInv, RequestsAccounted, ReadRest, slotVars, doneVars
<1> QED
  BY <1>5, <1>6 DEF BaseInv

(* soft_stop() takes the retune that is still in the slot and completes it *)
(* itself, once the controller is gone.                                    *)
LEMMA StopBase ==
  ASSUME BaseInv, StopBegins \/ StopStep
  PROVE  BaseInv'
<1>0. /\ stop \in StopStates /\ queued \in 0 .. MaxCalls /\ request_id \in 0 .. MaxCalls
      /\ generation \in Nat /\ published \in [Calls -> {"none"} \cup Results]
      /\ complete_id \in 0 .. MaxCalls
  BY DEF BaseInv, TypeOK
<1>1. CASE StopBegins
  <2>1. /\ StopRest /\ UNCHANGED <<accepting, queued, doneVars, published>> /\ stop.pc = "running"
        /\ stop' = [stop EXCEPT !.pc = "detach"] /\ generation' = generation + 1 /\ exit'
    BY <1>1 DEF StopBegins
  <2>2. stop' \in StopStates /\ stop'.pc = "detach" /\ stop'.call = stop.call
    BY <1>0, <2>1 DEF StopStates
  <2>3. exit' \in BOOLEAN
    BY <1>1, Zenon DEF StopBegins
  <2>4. TypeOK'
    BY <1>0, <2>1, <2>2, <2>3 DEF BaseInv, TypeOK, StopRest, doneVars, demodVars, Slots
  <2>5. CountInv'
    BY <1>0, <2>1, <2>2 DEF BaseInv, CountInv, RequestsAccounted, One, StopRest, doneVars
  <2> QED
    BY <2>4, <2>5 DEF BaseInv
<1>2. CASE Detach
  <2>1. /\ StopRest /\ UNCHANGED <<doneVars, generation, exit, published>> /\ stop.pc = "detach"
        /\ stop' = [pc |-> "join", call |-> queued, id |-> IF queued = 0 THEN 0 ELSE request_id]
        /\ ~accepting' /\ queued' = 0
    BY <1>2 DEF Detach
  <2>2. /\ stop' \in StopStates /\ stop'.pc = "join" /\ stop'.call = queued
        /\ queued # 0 => stop'.id = request_id
    BY <1>0, <2>1 DEF StopStates
  <2>3. accepting' \in BOOLEAN
    BY <1>2, Zenon DEF Detach
  <2>4. TypeOK'
    BY <1>0, <2>1, <2>2, <2>3 DEF BaseInv, TypeOK, StopRest, doneVars, demodVars, Slots
  <2>5. stop.call = 0
    BY <2>1 DEF BaseInv, CountInv
  <2>6. CountInv'
    BY <1>0, <2>1, <2>2, <2>5 DEF BaseInv, CountInv, RequestsAccounted, One, StopRest, doneVars
  <2> QED
    BY <2>4, <2>6 DEF BaseInv
<1>3. CASE Join \/ CancelPublish
  <2>1. /\ StopRest /\ UNCHANGED <<accepting, queued, doneVars, generation, exit>>
        /\ \/ /\ stop.pc = "join" /\ ctl.pc = "gone"
              /\ stop' = [stop EXCEPT !.pc = IF stop.call = 0 THEN "stopped" ELSE "cancel"]
           \/ stop.pc = "cancel" /\ stop' = [stop EXCEPT !.pc = "signal"]
    BY <1>3 DEF Join, CancelPublish
  <2>2. /\ stop' \in StopStates /\ stop'.call = stop.call /\ stop'.id = stop.id
        /\ \/ stop.pc = "join" /\ ctl.pc = "gone" /\ stop'.pc = IF stop.call = 0 THEN "stopped" ELSE "cancel"
           \/ stop.pc = "cancel" /\ stop'.pc = "signal"
    BY <1>0, <2>1 DEF StopStates
  <2>3. published' \in [Calls -> {"none"} \cup Results]
    BY <1>0, <1>3 DEF Join, CancelPublish, PublishCompletion
  <2>4. TypeOK'
    BY <1>0, <2>1, <2>2, <2>3 DEF BaseInv, TypeOK, StopRest, doneVars, demodVars, Slots
  <2>5. CountInv'
    BY <1>0, <2>1, <2>2 DEF BaseInv, CountInv, RequestsAccounted, One, StopRest, doneVars
  <2> QED
    BY <2>4, <2>5 DEF BaseInv
<1>4. CASE CancelSignal
  <2>1. /\ StopRest /\ UNCHANGED <<accepting, queued, generation, exit, published>> /\ stop.pc = "signal"
        /\ SignalComplete("FAILED") /\ stop' = [stop EXCEPT !.pc = "stopped", !.call = 0]
    BY <1>4 DEF CancelSignal
  <2>2. stop' \in StopStates /\ stop'.pc = "stopped" /\ stop'.call = 0
    <3>1. stop \in StopStates /\ stop' = [stop EXCEPT !.pc = "stopped", !.call = 0]
      BY <1>0, <2>1
    <3>2. stop'.pc = "stopped" /\ stop'.call = 0 /\ stop'.id = stop.id
      BY <3>1 DEF StopStates
    <3>3. stop' = [pc |-> "stopped", call |-> 0, id |-> stop.id]
      BY <3>1, <3>2 DEF StopStates
    <3>4. 0 \in 0 .. MaxCalls /\ stop.id \in 0 .. MaxCalls
      BY <1>0 DEF StopStates
    <3> QED
      BY <3>2, <3>3, <3>4 DEF StopStates
  <2>3. stop.call # 0 /\ ctl.pc = "gone" /\ ctl.work = 0 /\ queued = 0 /\ request_id = complete_id + 1
    BY <1>0, <2>1 DEF BaseInv, TypeOK, CtlStates, CountInv, RequestsAccounted, One, Working
  <2>4. /\ complete_id' = complete_id + 1 /\ complete_id' \in 1 .. MaxCalls
        /\ slots' \in [0 .. Slots' - 1 -> SlotStates] /\ gate' \in 0 .. MaxCalls
        /\ done_m' = "free" /\ applied' = hw
    BY <1>0, <2>1, <2>3, CompletionTypes DEF StopRest
  <2>5. TypeOK'
    BY <1>0, <2>1, <2>2, <2>4 DEF BaseInv, TypeOK, StopRest, demodVars
  <2>6. CountInv'
    BY <1>0, <2>1, <2>2, <2>3, <2>4 DEF BaseInv, TypeOK, CountInv, RequestsAccounted, One, StopRest, Working,
       Programmed
  <2> QED
    BY <2>5, <2>6 DEF BaseInv
<1> QED
  BY <1>1, <1>2, <1>3, <1>4 DEF StopStep

LEMMA BaseStep == BaseInv /\ [Next]_vars => BaseInv'
<1> SUFFICES ASSUME BaseInv, [Next]_vars PROVE BaseInv'
  OBVIOUS
<1>1. CASE \E c \in Callers : CallerStep(c)
  BY <1>1, AskBase, WaitBase DEF CallerStep, CallerWaits
<1>2. CASE Nudge
  BY <1>2, AskBase
<1>3. CASE CtlStep
  BY <1>3, CtlMovesBase, TakeBase, ProgramBase, PublishBase, SignalBase DEF CtlStep, CtlMoves
<1>4. CASE Capture \/ DemodStep
  BY <1>4, DemodBase
<1>5. CASE ReaderStep
  BY <1>5, ReaderBase
<1>6. CASE StopBegins \/ StopStep
  BY <1>6, StopBase
<1>7. CASE UNCHANGED vars
  BY <1>7 DEF BaseInv, TypeOK, CountInv, RequestsAccounted, vars, slotVars, doneVars, demodVars, Slots
<1> QED
  BY <1>1, <1>2, <1>3, <1>4, <1>5, <1>6, <1>7 DEF Next

(* What soft_stop() cancels is the request after the last completed one.   *)
LEMMA BaseInOrder == BaseInv => RequestsInOrder
<1> SUFFICES ASSUME BaseInv PROVE CancelledInOrder
  BY DEF RequestsInOrder, BaseInv, CountInv
<1>1. CASE stop.pc \in {"cancel", "signal"}
  BY <1>1 DEF BaseInv, TypeOK, CtlStates, StopStates, CountInv, RequestsAccounted, One, Working,
     CancelledInOrder
<1> QED
  BY <1>1 DEF CancelledInOrder

(* Requests are numbered, carried out and answered one by one: every id is *)
(* completed, at the controller, in the slot or with soft_stop(), and what *)
(* controller_finish_cancelled_manual_retune() answers is the next in      *)
(* turn.                                                                   *)
THEOREM RequestOrder == Spec => []RequestsInOrder
<1>1. Init => BaseInv
  BY InitBase
<1>2. BaseInv /\ [Next]_vars => BaseInv'
  BY BaseStep
<1>3. BaseInv => RequestsInOrder
  BY BaseInOrder
<1> QED
  BY <1>1, <1>2, <1>3, PTL DEF Spec

-----------------------------------------------------------------------------
(* The controller and the demodulator.                                     *)

(* The controller goes on to pc with the retune it has.                    *)
CtlGoes(pc) == ctl'.pc = pc /\ ctl'.work = ctl.work /\ ctl'.result = ctl.result

LEMMA CtlSteps ==
  ASSUME BaseInv
  PROVE  /\ EnterGate => CtlGoes("park")
         /\ Park => CtlGoes("clear")
         /\ ClearFirst("clear", "clear2") => CtlGoes("clear2")
         /\ ClearRing("clear2", "prepare") => CtlGoes("prepare")
         /\ PrepareInput => CtlGoes("program")
         /\ Release => CtlGoes("drain") \/ CtlGoes("publish")
         /\ Drained => CtlGoes("publish")
         /\ DrainTimesOut => CtlGoes("drain2")
         /\ ClearRing("drain2", "publish") => CtlGoes("publish")
         /\ Publish => CtlGoes("signal")
         /\ CtlExits => CtlGoes("gone")
         /\ Take => ctl'.pc = "enter" /\ ctl'.work = queued
         /\ Signal => ctl'.pc = "idle" /\ ctl'.work = 0
<1>0. ctl \in CtlStates
  BY DEF BaseInv, TypeOK
<1>1. \A p \in {"park", "clear", "clear2", "prepare", "program", "drain", "publish", "drain2", "signal", "gone"} :
        ctl' = [ctl EXCEPT !.pc = p] => ctl'.pc = p /\ ctl'.work = ctl.work /\ ctl'.result = ctl.result
  BY <1>0 DEF CtlStates
<1>2. Take => ctl'.pc = "enter" /\ ctl'.work = queued
  BY <1>0 DEF Take, CtlStates
<1>3. Signal => ctl'.pc = "idle" /\ ctl'.work = 0
  BY DEF Signal, NoWork
<1>4. Release => CtlGoes("drain") \/ CtlGoes("publish")
  BY <1>1 DEF Release, CtlGoes
<1>5. /\ EnterGate => CtlGoes("park")
      /\ Park => CtlGoes("clear")
      /\ PrepareInput => CtlGoes("program")
      /\ Publish => CtlGoes("signal")
      /\ CtlExits => CtlGoes("gone")
  BY <1>1 DEF EnterGate, Park, PrepareInput, Publish, CtlExits, CtlGoes
<1>6. /\ ClearFirst("clear", "clear2") => CtlGoes("clear2")
      /\ ClearRing("clear2", "prepare") => CtlGoes("prepare")
      /\ Drained => CtlGoes("publish")
      /\ DrainTimesOut => CtlGoes("drain2")
      /\ ClearRing("drain2", "publish") => CtlGoes("publish")
  BY <1>1 DEF ClearFirst, ClearRing, Drained, DrainTimesOut, CtlGoes
<1> QED
  BY <1>2, <1>3, <1>4, <1>5, <1>6

LEMMA ProgramGoes ==
  ASSUME BaseInv, NEW moved \in BOOLEAN, NEW result \in Results, Program(moved, result)
  PROVE  ctl'.pc = "release" /\ ctl'.work = ctl.work
<1>1. ctl' = [ctl EXCEPT !.pc = "release", !.moved = moved, !.result = result]
  BY DEF Program
<1> QED
  BY <1>1 DEF BaseInv, TypeOK, CtlStates

LEMMA InitPark == Init => ParkInv
  BY DEF Init, ParkInv, DemodParked, NoWork, Idle, Reconfiguring

(* What leaves the controller, the demodulator and their flags alone.      *)
LEMMA ParkUnchanged ==
  ASSUME ParkInv, UNCHANGED <<in_progress, ctl, busy, demod>>, exit => exit'
  PROVE  ParkInv'
  BY DEF ParkInv, DemodParked

LEMMA ParkStep == BaseInv /\ ParkInv /\ [Next]_vars => ParkInv'
<1> SUFFICES ASSUME BaseInv, ParkInv, [Next]_vars PROVE ParkInv'
  OBVIOUS
<1>1. CASE \E c \in Callers : CallerStep(c)
  <2>1. UNCHANGED <<in_progress, ctl, busy, demod, exit>>
    BY <1>1 DEF CallerStep, WaitAnswered, WaitStopped, WaitTimesOut, Disown, GiveUp, Tune, CallerRest,
       AskRest, demodVars
  <2> QED
    BY <2>1, ParkUnchanged
<1>2. CASE Nudge \/ Capture \/ ReaderStep \/ StopBegins \/ StopStep \/ UNCHANGED vars
  <2>1. CASE Nudge \/ Capture \/ ReaderStep \/ StopStep \/ UNCHANGED vars
    <3>1. UNCHANGED <<in_progress, ctl, busy, demod, exit>>
      BY <2>1 DEF Nudge, AskRest, Capture, DemodRest, ReaderStep, ReadBegins, NoteGeneration, LookAtGate, Copy,
         Leave, GateAgain, CompareAgain, Consume, ReadRest, StopStep, Detach, Join, CancelPublish,
         CancelSignal, StopRest, vars, demodVars
    <3> QED
      BY <3>1, ParkUnchanged
  <2>2. CASE StopBegins
    <3>1. UNCHANGED <<in_progress, ctl, busy, demod>> /\ exit'
      BY <2>2 DEF StopBegins, StopRest, demodVars
    <3> QED
      BY <3>1, ParkUnchanged
  <2> QED
    BY <1>2, <2>1, <2>2
<1>3. CASE CtlStep
  <2>1. UNCHANGED <<busy, demod, exit>>
    BY <1>3 DEF CtlStep, Take, CtlExits, EnterGate, Park, ClearFirst, ClearRing, PrepareInput, Program, Release,
       Drained, DrainTimesOut, Publish, Signal, CtlRest, demodVars
  <2>2. CASE Take \/ CtlExits \/ Drained \/ DrainTimesOut \/ ClearRing("drain2", "publish") \/ Publish \/ Signal
    <3>1. ctl.pc \notin Reconfiguring /\ UNCHANGED in_progress
      BY <2>2 DEF Take, CtlExits, Drained, DrainTimesOut, ClearFirst, ClearRing, Publish, Signal, Reconfiguring
    <3>2. ctl'.pc \notin Reconfiguring
      BY <2>2, CtlSteps DEF CtlGoes, Reconfiguring
    <3> QED
      BY <2>1, <3>1, <3>2 DEF ParkInv, DemodParked, Reconfiguring
  <2>3. CASE EnterGate
    BY <2>1, <2>3, CtlSteps DEF EnterGate, ParkInv, DemodParked, CtlGoes, Reconfiguring
  <2>4. CASE Park
    BY <2>1, <2>4, CtlSteps DEF Park, ParkInv, DemodParked, CtlGoes, Reconfiguring
  <2>5. CASE ClearFirst("clear", "clear2") \/ ClearRing("clear2", "prepare") \/ PrepareInput
    BY <2>1, <2>5, CtlSteps DEF ClearFirst, ClearRing, PrepareInput, ParkInv, DemodParked, CtlGoes, Reconfiguring
  <2>6. CASE \E moved \in BOOLEAN, result \in Results : Program(moved, result)
    <3>1. UNCHANGED in_progress /\ ctl.pc = "program" /\ ctl'.pc = "release"
      BY <2>6, ProgramGoes DEF Program
    <3> QED
      BY <2>1, <3>1 DEF ParkInv, DemodParked, Reconfiguring
  <2>7. CASE Release
    BY <2>1, <2>7, CtlSteps DEF Release, ParkInv, DemodParked, CtlGoes, Reconfiguring
  <2> QED
    BY <1>3, <2>2, <2>3, <2>4, <2>5, <2>6, <2>7 DEF CtlStep
<1>4. CASE DemodStep
  <2>1. UNCHANGED <<in_progress, ctl, exit>>
    BY <1>4 DEF DemodStep, Purge, ReadBlock, EnterBlock, CheckBlock, EmitBlock, DemodExits, DemodRest
  <2>2. CASE Purge
    BY <2>1, <2>2, ParkUnchanged DEF Purge
  <2>3. CASE ReadBlock
    BY <2>1, <2>3 DEF ReadBlock, ParkInv, DemodParked
  <2>4. CASE EnterBlock
    <3>1. demod'.pc = "check"
      BY <2>4 DEF EnterBlock, BaseInv, TypeOK, DemodStates
    <3> QED
      BY <2>1, <2>4, <3>1 DEF EnterBlock, ParkInv, DemodParked
  <2>5. CASE CheckBlock
    <3>1. CASE in_progress \/ purge
      BY <2>1, <2>5, <3>1 DEF CheckBlock, ParkInv, DemodParked, Idle
    <3>2. CASE ~(in_progress \/ purge)
      <4>1. demod'.pc = "emit" /\ busy'
        BY <2>5, <3>2 DEF CheckBlock, BaseInv, TypeOK, DemodStates
      <4> QED
        BY <2>1, <3>2, <4>1 DEF ParkInv, DemodParked, Reconfiguring
    <3> QED
      BY <3>1, <3>2
  <2>6. CASE EmitBlock
    BY <2>1, <2>6 DEF EmitBlock, ParkInv, DemodParked, Idle
  <2>7. CASE DemodExits
    <3>1. demod'.pc = "gone" /\ demod.pc = "idle" /\ UNCHANGED busy
      BY <2>7 DEF DemodExits, BaseInv, TypeOK, DemodStates
    <3> QED
      BY <2>1, <3>1 DEF ParkInv, DemodParked
  <2> QED
    BY <1>4, <2>2, <2>3, <2>4, <2>5, <2>6, <2>7 DEF DemodStep
<1> QED
  BY <1>1, <1>2, <1>3, <1>4 DEF Next

(* While the controller clears the rings and moves the hardware, the       *)
(* demodulator thread is not inside a block: the flag and the busy mark    *)
(* are enough, in whatever order the two threads set and read them.        *)
THEOREM ParkedDuringRetune == Spec => []DemodParked
<1>1. Init => BaseInv /\ ParkInv
  BY InitBase, InitPark
<1>2. (BaseInv /\ ParkInv) /\ [Next]_vars => (BaseInv /\ ParkInv)'
  BY BaseStep, ParkStep
<1>3. ParkInv => DemodParked
  BY DEF ParkInv
<1> QED
  BY <1>1, <1>2, <1>3, PTL DEF Spec

-----------------------------------------------------------------------------
(* Whose samples are where.                                                *)

ParkedInv == BaseInv /\ ParkInv

LEMMA InitFresh == Init => FreshInv
  BY DEF Init, FreshInv, AtLeast, NoWork, Idle, NoRead

(* A step that leaves the samples alone and at most ends the generation or *)
(* the stream, with the controller outside the reconfiguration.            *)
LEMMA FreshUnmoved ==
  ASSUME BaseInv, FreshInv, UNCHANGED <<input, hw, demod, purge, output, reader>>,
         generation' \in {generation, generation + 1}, ~exit' => ~exit,
         ctl'.pc = ctl.pc \/ ctl'.pc \notin {"prepare", "program", "release"}
  PROVE  FreshInv'
<1>1. reader.gen \in Nat /\ generation \in Nat
  BY DEF BaseInv, TypeOK, ReaderStates
<1>2. /\ AtLeast(input, hw)' \/ purge'
      /\ (demod.pc \in {"enter", "check"} => AtLeast(demod.block, hw) \/ purge)'
      /\ (demod.pc = "emit" /\ ~exit => AtLeast(demod.block, hw))'
  BY DEF FreshInv, AtLeast
<1>3. /\ (ctl.pc \in {"prepare", "program", "release"} => output = {})'
      /\ (~exit => AtLeast(output, hw))'
  BY DEF FreshInv, AtLeast
<1>4. /\ (reader.gen <= generation)'
      /\ (reader.pc \in {"idle", "generation", "look", "copy"} => reader.got = {})'
  BY <1>1 DEF FreshInv
<1>5. /\ (ctl.pc \in {"prepare", "program"} /\ reader.got # {} => reader.gen # generation)'
      /\ (~exit /\ reader.gen = generation => AtLeast(reader.got, hw))'
  BY <1>1 DEF FreshInv, AtLeast
<1> QED
  BY <1>2, <1>3, <1>4, <1>5 DEF FreshInv

LEMMA FreshCtl ==
  ASSUME ParkedInv, FreshInv, CtlStep
  PROVE  FreshInv'
<1> USE DEF ParkedInv
<1>0. reader.gen \in Nat /\ generation \in Nat
  BY DEF BaseInv, TypeOK, ReaderStates
<1>1. CASE Take \/ CtlExits \/ EnterGate \/ Park \/ Release \/ Publish \/ Signal
  <2>1. UNCHANGED <<input, hw, demod, purge, output, reader, generation, exit>>
    BY <1>1 DEF Take, CtlExits, EnterGate, Park, Release, Publish, Signal, CtlRest, demodVars
  <2>2. ctl'.pc \notin {"prepare", "program", "release"}
    BY <1>1, CtlSteps DEF CtlGoes
  <2> QED
    BY <2>1, <2>2, FreshUnmoved
<1>2. CASE ClearFirst("clear", "clear2") \/ Drained \/ DrainTimesOut
  <2>1. UNCHANGED <<input, hw, demod, purge, output, reader, exit>> /\ generation' = generation + 1
    BY <1>2 DEF ClearFirst, Drained, DrainTimesOut, CtlRest, demodVars
  <2>2. ctl'.pc \notin {"prepare", "program", "release"}
    BY <1>2, CtlSteps DEF CtlGoes
  <2> QED
    BY <2>1, <2>2, FreshUnmoved
<1>3. CASE ClearRing("clear2", "prepare") \/ ClearRing("drain2", "publish")
  <2>1. /\ UNCHANGED <<input, hw, demod, purge, reader, exit>> /\ generation' = generation + 1
        /\ output' = {}
    BY <1>3 DEF ClearRing, CtlRest, demodVars
  <2>2. reader'.gen < generation'
    BY <1>0, <2>1 DEF FreshInv
  <2> QED
    BY <1>0, <2>1, <2>2 DEF FreshInv, AtLeast
<1>4. CASE PrepareInput
  <2>1. /\ UNCHANGED <<input, hw, demod, output, reader, generation, exit>> /\ purge'
        /\ ctl.pc = "prepare" /\ ctl'.pc = "program"
    BY <1>4, CtlSteps DEF PrepareInput, CtlRest, CtlGoes
  <2> QED
    BY <2>1 DEF FreshInv, AtLeast
<1>5. CASE \E moved \in BOOLEAN, result \in Results : Program(moved, result)
  <2>1. PICK moved \in BOOLEAN, result \in Results : Program(moved, result)
    BY <1>5
  <2>2. /\ UNCHANGED <<input, demod, output, reader, generation, exit>>
        /\ ctl.pc = "program" /\ ctl'.pc = "release"
    BY <2>1, ProgramGoes DEF Program, CtlRest
  <2>3. (hw' = hw /\ (purge => purge')) \/ purge'
    BY <2>1 DEF Program
  <2>4. output = {} /\ AtLeast(output, hw)'
    BY <2>2 DEF FreshInv, AtLeast
  <2>5. ~exit => demod.pc # "emit"
    BY <2>2 DEF ParkInv, DemodParked
  <2>6. (reader.gen = generation => AtLeast(reader.got, hw))'
    BY <2>2 DEF FreshInv, AtLeast
  <2>7. AtLeast(input, hw)' \/ purge'
    BY <2>2, <2>3 DEF FreshInv, AtLeast
  <2>8. (demod.pc \in {"enter", "check"} => AtLeast(demod.block, hw) \/ purge)'
    BY <2>2, <2>3 DEF FreshInv, AtLeast
  <2> QED
    BY <2>2, <2>4, <2>5, <2>6, <2>7, <2>8 DEF FreshInv
<1> QED
  BY <1>1, <1>2, <1>3, <1>4, <1>5 DEF CtlStep

LEMMA FreshDemod ==
  ASSUME ParkedInv, FreshInv, Capture \/ DemodStep
  PROVE  FreshInv'
<1> USE DEF ParkedInv
<1>0. demod \in DemodStates /\ hw \in Nat /\ input \subseteq Nat
  BY DEF BaseInv, TypeOK
<1>1. UNCHANGED <<hw, ctl, reader, generation, exit, in_progress>>
  BY DEF DemodStep, Capture, Purge, ReadBlock, EnterBlock, CheckBlock, EmitBlock, DemodExits, DemodRest
<1>2. CASE Capture
  BY <1>0, <1>1, <1>2 DEF Capture, FreshInv, AtLeast
<1>3. CASE Purge
  BY <1>1, <1>3 DEF Purge, FreshInv, AtLeast
<1>4. CASE ReadBlock
  <2>1. ~purge /\ ~purge' /\ UNCHANGED output
    BY <1>4 DEF ReadBlock
  <2>2. AtLeast(input, hw)
    BY <2>1 DEF FreshInv
  <2>3. demod'.pc = "enter" /\ demod'.block \subseteq input /\ input' \subseteq input
    BY <1>4 DEF ReadBlock
  <2> QED
    BY <1>1, <2>1, <2>2, <2>3 DEF FreshInv, AtLeast
<1>5. CASE EnterBlock
  <2>1. demod'.pc = "check" /\ demod'.block = demod.block /\ demod.pc = "enter"
    BY <1>0, <1>5 DEF EnterBlock, DemodStates
  <2> QED
    BY <1>1, <1>5, <2>1 DEF EnterBlock, FreshInv, AtLeast
<1>6. CASE CheckBlock
  <2>1. UNCHANGED <<input, purge, output>> /\ demod.pc = "check"
    BY <1>6 DEF CheckBlock
  <2>2. CASE in_progress \/ purge
    <3>1. demod'.pc = "idle"
      BY <1>6, <2>2 DEF CheckBlock, Idle
    <3> QED
      BY <1>1, <2>1, <3>1 DEF FreshInv, AtLeast
  <2>3. CASE ~(in_progress \/ purge)
    <3>1. demod'.pc = "emit" /\ demod'.block = demod.block
      BY <1>0, <1>6, <2>3 DEF CheckBlock, DemodStates
    <3> QED
      BY <1>1, <2>1, <2>3, <3>1 DEF FreshInv, AtLeast
  <2> QED
    BY <2>2, <2>3
<1>7. CASE EmitBlock
  <2>1. UNCHANGED <<input, purge>> /\ demod.pc = "emit" /\ demod'.pc = "idle"
    BY <1>7 DEF EmitBlock, Idle
  <2>2. CASE in_progress
    BY <1>1, <1>7, <2>1, <2>2 DEF EmitBlock, FreshInv, AtLeast
  <2>3. CASE ~in_progress
    <3>1. ctl.pc \notin {"prepare", "program", "release"}
      BY <2>3 DEF ParkInv, Reconfiguring
    <3>2. output' = output \cup demod.block
      BY <1>7, <2>3 DEF EmitBlock
    <3> QED
      BY <1>1, <2>1, <3>1, <3>2 DEF FreshInv, AtLeast
  <2> QED
    BY <2>2, <2>3
<1>8. CASE DemodExits
  <2>1. UNCHANGED <<input, purge, output>> /\ demod'.pc = "gone"
    BY <1>0, <1>8 DEF DemodExits, DemodStates
  <2> QED
    BY <1>1, <2>1 DEF FreshInv, AtLeast
<1> QED
  BY <1>2, <1>3, <1>4, <1>5, <1>6, <1>7, <1>8 DEF DemodStep

(* What a read does to the samples the reader holds.                       *)
LEMMA ReaderSteps ==
  ASSUME BaseInv
  PROVE  /\ ReadBegins => reader'.pc = "generation" /\ reader'.gen = reader.gen /\ reader'.got = reader.got
         /\ NoteGeneration => reader'.pc = "look" /\ reader'.gen = generation /\ reader'.got = reader.got
         /\ LookAtGate => /\ reader'.pc = IF gate # 0 THEN "leave" ELSE "copy"
                          /\ reader'.gen = reader.gen /\ reader'.got = reader.got
         /\ Copy => /\ reader'.pc = "leave" /\ reader'.gen = reader.gen
                    /\ \/ output = {} /\ output' = output /\ reader'.got = reader.got
                       \/ output # {} /\ output' \subseteq output /\ reader'.got \subseteq output
         /\ Leave => /\ reader'.pc = "gate" /\ reader'.gen = reader.gen
                     /\ reader'.got = IF generation = reader.gen /\ gate = 0 THEN reader.got ELSE {}
         /\ GateAgain => /\ reader'.pc = "compare" /\ reader'.gen = reader.gen
                         /\ reader'.got = IF gate = 0 THEN reader.got ELSE {}
         /\ CompareAgain =>
              \/ /\ generation = reader.gen /\ reader.got # {}
                 /\ reader'.pc = "handed" /\ reader'.gen = reader.gen /\ reader'.got = reader.got
              \/ reader' = NoRead
         /\ Consume => reader' = NoRead
<1>0. reader \in ReaderStates
  BY DEF BaseInv, TypeOK
<1>1. ReadBegins => reader'.pc = "generation" /\ reader'.gen = reader.gen /\ reader'.got = reader.got
  BY <1>0 DEF ReadBegins, ReaderStates
<1>2. NoteGeneration => reader'.pc = "look" /\ reader'.gen = generation /\ reader'.got = reader.got
  BY <1>0 DEF NoteGeneration, ReaderStates
<1>3. LookAtGate => /\ reader'.pc = IF gate # 0 THEN "leave" ELSE "copy"
                    /\ reader'.gen = reader.gen /\ reader'.got = reader.got
  BY <1>0 DEF LookAtGate, ReaderStates
<1>4. Copy => /\ reader'.pc = "leave" /\ reader'.gen = reader.gen
              /\ \/ output = {} /\ output' = output /\ reader'.got = reader.got
                 \/ output # {} /\ output' \subseteq output /\ reader'.got \subseteq output
  <2>1. CASE output = {} /\ reader' = [reader EXCEPT !.pc = "leave"] /\ UNCHANGED output
    BY <1>0, <2>1 DEF ReaderStates
  <2>2. CASE \E newest \in output :
            /\ reader' = [reader EXCEPT !.pc = "leave", !.got = {s \in output : s <= newest}]
            /\ output' = {s \in output : s >= newest}
    <3>1. PICK newest \in output :
            /\ reader' = [reader EXCEPT !.pc = "leave", !.got = {s \in output : s <= newest}]
            /\ output' = {s \in output : s >= newest}
      BY <2>2
    <3>2. reader'.pc = "leave" /\ reader'.gen = reader.gen /\ reader'.got = {s \in output : s <= newest}
      BY <1>0, <3>1 DEF ReaderStates
    <3> QED
      BY <3>1, <3>2
  <2> QED
    BY <2>1, <2>2 DEF Copy
<1>5. Leave => /\ reader'.pc = "gate" /\ reader'.gen = reader.gen
               /\ reader'.got = IF generation = reader.gen /\ gate = 0 THEN reader.got ELSE {}
  BY <1>0 DEF Leave, Keep, ReaderStates
<1>6. GateAgain => /\ reader'.pc = "compare" /\ reader'.gen = reader.gen
                   /\ reader'.got = IF gate = 0 THEN reader.got ELSE {}
  BY <1>0 DEF GateAgain, Keep, ReaderStates
<1>7. CompareAgain =>
        \/ /\ generation = reader.gen /\ reader.got # {}
           /\ reader'.pc = "handed" /\ reader'.gen = reader.gen /\ reader'.got = reader.got
        \/ reader' = NoRead
  <2>1. CASE generation = reader.gen /\ reader.got # {}
    BY <1>0, <2>1 DEF CompareAgain, HandsOver, Keep, ReaderStates
  <2>2. CASE ~(generation = reader.gen /\ reader.got # {})
    BY <2>2 DEF CompareAgain, HandsOver, Keep
  <2> QED
    BY <2>1, <2>2
<1>8. Consume => reader' = NoRead
  BY DEF Consume
<1> QED
  BY <1>1, <1>2, <1>3, <1>4, <1>5, <1>6, <1>7, <1>8

LEMMA FreshReader ==
  ASSUME ParkedInv, FreshInv, ReaderStep
  PROVE  FreshInv'
<1> USE DEF ParkedInv
<1>0. reader.gen \in Nat /\ generation \in Nat
  BY DEF BaseInv, TypeOK, ReaderStates
<1>1. UNCHANGED <<input, hw, demod, purge, ctl, generation, exit>>
  BY DEF ReaderStep, ReadBegins, NoteGeneration, LookAtGate, Copy, Leave, GateAgain, CompareAgain, Consume,
     ReadRest, demodVars
<1>2. /\ AtLeast(input, hw)' \/ purge'
      /\ (demod.pc \in {"enter", "check"} => AtLeast(demod.block, hw) \/ purge)'
      /\ (demod.pc = "emit" /\ ~exit => AtLeast(demod.block, hw))'
  BY <1>1 DEF FreshInv, AtLeast
<1>3. /\ (ctl.pc \in {"prepare", "program", "release"} => output = {})'
      /\ (~exit => AtLeast(output, hw))'
  <2>1. output' \subseteq output
    BY ReaderSteps DEF ReaderStep, ReadBegins, NoteGeneration, LookAtGate, Copy, Leave, GateAgain, CompareAgain,
       Consume
  <2> QED
    BY <1>1, <2>1 DEF FreshInv, AtLeast
<1>4. /\ (reader.gen <= generation)'
      /\ (reader.pc \in {"idle", "generation", "look", "copy"} => reader.got = {})'
      /\ (ctl.pc \in {"prepare", "program"} /\ reader.got # {} => reader.gen # generation)'
      /\ (~exit /\ reader.gen = generation => AtLeast(reader.got, hw))'
  <2>1. CASE ReadBegins \/ NoteGeneration \/ LookAtGate
    <3>1. reader.got = {} /\ reader'.got = {} /\ reader'.gen \in {reader.gen, generation}
      BY <2>1, ReaderSteps DEF ReadBegins, NoteGeneration, LookAtGate, FreshInv
    <3> QED
      BY <1>0, <1>1, <3>1 DEF FreshInv, AtLeast
  <2>2. CASE Copy
    <3>1. /\ reader'.pc = "leave" /\ reader'.gen = reader.gen
          /\ \/ output = {} /\ reader'.got = reader.got
             \/ output # {} /\ reader'.got \subseteq output
      BY <2>2, ReaderSteps
    <3> QED
      BY <1>0, <1>1, <3>1 DEF FreshInv, AtLeast
  <2>3. CASE Leave \/ GateAgain
    <3>1. reader'.pc \in {"gate", "compare"} /\ reader'.gen = reader.gen /\ reader'.got \in {reader.got, {}}
      BY <2>3, ReaderSteps
    <3> QED
      BY <1>0, <1>1, <3>1 DEF FreshInv, AtLeast
  <2>4. CASE CompareAgain \/ Consume
    <3>1. CASE reader' = NoRead
      BY <1>0, <1>1, <3>1 DEF NoRead, FreshInv, AtLeast
    <3>2. CASE reader'.pc = "handed" /\ reader'.gen = reader.gen /\ reader'.got = reader.got
      BY <1>0, <1>1, <3>2 DEF FreshInv, AtLeast
    <3> QED
      BY <2>4, <3>1, <3>2, ReaderSteps
  <2> QED
    BY <2>1, <2>2, <2>3, <2>4 DEF ReaderStep
<1> QED
  BY <1>2, <1>3, <1>4 DEF FreshInv

LEMMA FreshStep == ParkedInv /\ FreshInv /\ [Next]_vars => FreshInv'
<1> SUFFICES ASSUME ParkedInv, FreshInv, [Next]_vars PROVE FreshInv'
  OBVIOUS
<1> USE DEF ParkedInv
<1>0. generation \in Nat
  BY DEF BaseInv, TypeOK
<1>1. CASE \E c \in Callers : CallerStep(c)
  <2>1. UNCHANGED <<input, hw, demod, purge, output, reader, ctl, exit>>
    BY <1>1 DEF CallerStep, WaitAnswered, WaitStopped, WaitTimesOut, Disown, GiveUp, Tune, CallerRest,
       AskRest, demodVars
  <2>2. generation' \in {generation, generation + 1}
    BY <1>1 DEF CallerStep, WaitAnswered, WaitStopped, WaitTimesOut, Disown, GiveUp, Tune, AskRest
  <2> QED
    BY <2>1, <2>2, FreshUnmoved
<1>2. CASE Nudge \/ StopStep \/ UNCHANGED vars
  <2>1. UNCHANGED <<input, hw, demod, purge, output, reader, ctl, exit, generation>>
    BY <1>2 DEF Nudge, AskRest, StopStep, Detach, Join, CancelPublish, CancelSignal, StopRest, vars, demodVars
  <2> QED
    BY <2>1, FreshUnmoved
<1>3. CASE StopBegins
  <2>1. UNCHANGED <<input, hw, demod, purge, output, reader, ctl>> /\ exit' /\ generation' = generation + 1
    BY <1>3 DEF StopBegins, StopRest, demodVars
  <2> QED
    BY <2>1, FreshUnmoved
<1> QED
  BY <1>1, <1>2, <1>3, FreshCtl, FreshDemod, FreshReader DEF Next

(* Samples change hands in CompareAgain alone.                             *)
LEMMA HandoverStep ==
  ASSUME BaseInv, [Next]_vars, Handover
  PROVE  /\ CompareAgain /\ reader.pc = "compare" /\ generation = reader.gen /\ reader.got # {}
         /\ reader'.got = reader.got
<1>1. ReaderStep
  <2>1. reader' # reader
    BY DEF Handover
  <2>2. CASE \E c \in Callers : CallerStep(c)
    BY <2>1, <2>2 DEF CallerStep, WaitAnswered, WaitStopped, WaitTimesOut, Disown, GiveUp, Tune, CallerRest,
       AskRest
  <2>3. CASE CtlStep
    BY <2>1, <2>3 DEF CtlStep, Take, CtlExits, EnterGate, Park, ClearFirst, ClearRing, PrepareInput, Program,
       Release, Drained, DrainTimesOut, Publish, Signal, CtlRest
  <2>4. CASE Nudge \/ Capture \/ DemodStep \/ StopBegins \/ StopStep \/ UNCHANGED vars
    BY <2>1, <2>4 DEF Nudge, AskRest, Capture, DemodStep, Purge, ReadBlock, EnterBlock, CheckBlock, EmitBlock,
       DemodExits, DemodRest, StopBegins, StopStep, Detach, Join, CancelPublish, CancelSignal, StopRest, vars
  <2> QED
    BY <2>2, <2>3, <2>4 DEF Next
<1>2. NoRead.pc = "idle"
  BY DEF NoRead
<1>3. CompareAgain
  BY <1>1, <1>2, ReaderSteps DEF ReaderStep, Handover
<1> QED
  BY <1>2, <1>3, ReaderSteps DEF CompareAgain, Handover

(* The samples handed over were captured under the setting the hardware    *)
(* has now, which is not older than the one a tune call has returned with. *)
LEMMA FreshHandover ==
  ASSUME BaseInv, FreshInv, [Next]_vars, Handover, ~exit
  PROVE  \A s \in reader'.got : s >= told
<1>1. generation = reader.gen /\ reader'.got = reader.got
  BY HandoverStep
<1>2. AtLeast(reader.got, hw)
  BY <1>1 DEF FreshInv
<1>3. told <= hw /\ told \in Nat /\ hw \in Nat /\ reader.got \subseteq Nat
  BY DEF BaseInv, CountInv, TypeOK, ReaderStates
<1> QED
  BY <1>1, <1>2, <1>3 DEF AtLeast

(* No tune call returns before the samples of the setting it leaves are    *)
(* out of the decoder's reach: in neither ring, not in the block the       *)
(* demodulator has read and not in the copy the decoder's read has made.   *)
THEOREM FreshSamples == Spec => HandoverIsFresh
<1> DEFINE Inv == ParkedInv /\ FreshInv
<1>1. Init => Inv
  BY InitBase, InitPark, InitFresh DEF ParkedInv
<1>2. Inv /\ [Next]_vars => Inv'
  BY BaseStep, ParkStep, FreshStep DEF ParkedInv
<1>3. Inv /\ [Next]_vars => [Handover /\ ~exit => \A s \in reader'.got : s >= told]_reader
  BY FreshHandover DEF ParkedInv
<1> QED
  BY <1>1, <1>2, <1>3, PTL DEF Spec, HandoverIsFresh

-----------------------------------------------------------------------------
(* What a timed out call leaves behind.                                    *)

LEMMA InitSilent == Init => SilentInv
  BY DEF Init, SilentInv, Committed, NoRead

(* A read gets past its looks at the gate only while the gate is open.     *)
LEMMA CommitStep ==
  ASSUME BaseInv, FreshInv, [Next]_vars, Committed'
  PROVE  Committed \/ (gate = 0 /\ UNCHANGED <<gate, caller, done_m, complete_id>>)
<1>0. reader.gen \in Nat /\ generation \in Nat /\ reader.gen <= generation
  BY DEF BaseInv, TypeOK, ReaderStates, FreshInv
<1>1. CASE ReaderStep
  <2>1. UNCHANGED <<gate, caller, done_m, complete_id, generation>>
    BY <1>1 DEF ReaderStep, ReadBegins, NoteGeneration, LookAtGate, Copy, Leave, GateAgain, CompareAgain,
       Consume, ReadRest, doneVars
  <2>2. reader'.pc = "compare" /\ reader'.got # {}
    BY DEF Committed
  <2>3. GateAgain
    BY <1>1, <2>2, ReaderSteps DEF ReaderStep, NoRead
  <2>4. gate = 0
    BY <2>2, <2>3, ReaderSteps
  <2> QED
    BY <2>1, <2>4
<1>5. ASSUME UNCHANGED reader, generation' \in {generation, generation + 1} PROVE Committed
  BY <1>0, <1>5 DEF Committed
<1>2. CASE \E c \in Callers : CallerStep(c)
  <2>1. UNCHANGED reader /\ generation' \in {generation, generation + 1}
    BY <1>2 DEF CallerStep, WaitAnswered, WaitStopped, WaitTimesOut, Disown, GiveUp, Tune, CallerRest, AskRest
  <2> QED
    BY <1>5, <2>1
<1>3. CASE CtlStep
  <2>1. UNCHANGED reader /\ generation' \in {generation, generation + 1}
    BY <1>3 DEF CtlStep, Take, CtlExits, EnterGate, Park, ClearFirst, ClearRing, PrepareInput, Program,
       Release, Drained, DrainTimesOut, Publish, Signal, CtlRest
  <2> QED
    BY <1>5, <2>1
<1>4. CASE Nudge \/ Capture \/ DemodStep \/ StopBegins \/ StopStep \/ UNCHANGED vars
  <2>1. UNCHANGED reader /\ generation' \in {generation, generation + 1}
    BY <1>4 DEF Nudge, AskRest, Capture, DemodStep, Purge, ReadBlock, EnterBlock, CheckBlock, EmitBlock,
       DemodExits, DemodRest, StopBegins, StopStep, Detach, Join, CancelPublish, CancelSignal, StopRest, vars
  <2> QED
    BY <1>5, <2>1
<1> QED
  BY <1>1, <1>2, <1>3, <1>4 DEF Next

(* A completion opens the gate once the latest request it was closed for   *)
(* is done.                                                                *)
LEMMA SilentSignal ==
  ASSUME BaseInv, FreshInv, SilentInv, [Next]_vars, NEW result \in Results, SignalComplete(result), UNCHANGED caller
  PROVE  SilentInv'
<1>0. gate \in Nat /\ complete_id \in Nat /\ \A c \in Callers : caller[c].id \in Nat
  BY DEF BaseInv, TypeOK, CallerStates
<1>1. complete_id' = complete_id + 1 /\ done_m = "free" /\ done_m' = "free"
  BY DEF SignalComplete
<1>2. (gate' = 0 /\ gate <= complete_id') \/ gate' = gate
  BY DEF SignalComplete, Opens
<1>3. \A c \in Callers : caller[c].pc \notin {"disown", "settle"}
  BY <1>1 DEF SilentInv
<1>4. Committed' => Committed \/ gate = 0
  BY CommitStep
<1>5. gate' # 0 => ~Committed'
  BY <1>0, <1>1, <1>2, <1>4 DEF SilentInv
<1>6. \A c \in Callers : caller[c].answer = "timeout" /\ caller[c].id > complete_id' =>
                           gate' >= caller[c].id /\ ~Committed'
  BY <1>0, <1>1, <1>2, <1>5 DEF SilentInv
<1> QED
  BY <1>1, <1>3, <1>5, <1>6 DEF SilentInv

(* A caller's own steps.                                                   *)
LEMMA SilentCaller ==
  ASSUME BaseInv, FreshInv, SilentInv, [Next]_vars, NEW c \in Callers, CallerStep(c)
  PROVE  SilentInv'
<1>0. /\ gate \in Nat /\ complete_id \in Nat /\ caller \in [Callers -> CallerStates]
      /\ \A d \in Callers : caller[d].id \in Nat /\ d # "free"
  BY DEF BaseInv, TypeOK, CallerStates
<1>1. Committed' => Committed \/ (gate = 0 /\ UNCHANGED <<gate, caller, done_m, complete_id>>)
  BY CommitStep
<1>2. UNCHANGED complete_id
  BY DEF CallerStep, WaitAnswered, WaitStopped, WaitTimesOut, Disown, GiveUp, Tune, CallerRest, AskRest, doneVars
<1>3. CASE WaitAnswered(c) \/ WaitStopped(c) \/ \E isTagged \in BOOLEAN : Tune(c, isTagged)
  <2>1. UNCHANGED <<gate, done_m>> /\ caller[c].pc \in {"idle", "wait"}
    BY <1>3 DEF WaitAnswered, WaitStopped, Waits, Tune, AskRest, doneVars
  <2>2. /\ \A d \in Callers : d # c => caller'[d] = caller[d]
        /\ caller'[c].pc \in {"idle", "wait"} /\ caller'[c].answer # "timeout"
    <3>1. CASE \E isTagged \in BOOLEAN : Tune(c, isTagged)
      BY <1>0, <3>1 DEF Tune
    <3>2. CASE WaitStopped(c)
      BY <1>0, <3>2 DEF WaitStopped, CallerStates
    <3>3. CASE WaitAnswered(c)
      <4>1. Slot(caller[c].id).result # "timeout"
        <5>1. caller[c].id % Slots \in 0 .. Slots - 1
          BY <1>0, SlotsPositive DEF BaseInv
        <5> QED
          BY <5>1 DEF BaseInv, TypeOK, Slot, SlotStates
      <4> DEFINE a == IF Slot(caller[c].id).id = caller[c].id THEN Slot(caller[c].id).result ELSE "missing"
      <4>2. a # "timeout" /\ caller' = [caller EXCEPT ![c].pc = "idle", ![c].answer = a]
        BY <3>3, <4>1 DEF WaitAnswered
      <4> HIDE DEF a
      <4> QED
        BY <1>0, <4>2 DEF CallerStates
    <3> QED
      BY <1>3, <3>1, <3>2, <3>3
  <2>3. gate # 0 => (Committed' => Committed)
    BY <1>1
  <2> QED
    BY <1>0, <1>2, <2>1, <2>2, <2>3 DEF SilentInv
<1>4. CASE WaitTimesOut(c)
  <2>1. /\ done_m = "free" /\ done_m' = c /\ complete_id < caller[c].id
        /\ \/ gate' = caller[c].id /\ (gate = 0 \/ caller[c].id > gate)
              /\ caller' = [caller EXCEPT ![c].pc = "disown"]
           \/ gate' = gate /\ gate # 0 /\ ~(caller[c].id > gate) /\ caller' = [caller EXCEPT ![c].pc = "settle"]
    BY <1>4 DEF WaitTimesOut, Waits
  <2>2. /\ \A d \in Callers : d # c => caller'[d] = caller[d]
        /\ caller'[c].id = caller[c].id /\ caller'[c].answer = caller[c].answer
        /\ \/ gate' = caller[c].id /\ (gate = 0 \/ caller[c].id > gate) /\ caller'[c].pc = "disown"
           \/ gate' = gate /\ gate # 0 /\ ~(caller[c].id > gate) /\ caller'[c].pc = "settle"
    BY <1>0, <2>1 DEF CallerStates
  <2>3. \A d \in Callers : caller[d].pc \notin {"disown", "settle"}
    BY <1>0, <2>1 DEF SilentInv
  <2>4. gate # 0 => ~Committed'
    BY <1>0, <1>1, <2>1 DEF SilentInv
  <2>5. caller'[c].pc \in {"disown", "settle"} /\ gate' >= caller'[c].id /\ caller'[c].id > complete_id'
    BY <1>0, <1>2, <2>1, <2>2
  <2>6. \A d \in Callers : caller'[d].answer = "timeout" /\ caller'[d].id > complete_id' =>
                             gate' >= caller'[d].id /\ ~Committed'
    <3> SUFFICES ASSUME NEW d \in Callers, caller'[d].answer = "timeout", caller'[d].id > complete_id'
                 PROVE  gate' >= caller'[d].id /\ ~Committed'
      OBVIOUS
    <3>1. caller[d].answer = "timeout" /\ caller[d].id > complete_id /\ caller'[d].id = caller[d].id
      BY <1>2, <2>2
    <3>2. gate >= caller[d].id /\ gate # 0
      BY <1>0, <3>1 DEF SilentInv
    <3> QED
      BY <1>0, <2>2, <2>4, <3>1, <3>2
  <2> QED
    BY <1>0, <2>1, <2>2, <2>3, <2>4, <2>5, <2>6 DEF SilentInv
<1>5. CASE Disown(c)
  <2>1. /\ UNCHANGED <<gate, done_m, reader>> /\ generation' = generation + 1
        /\ caller' = [caller EXCEPT ![c].pc = "settle"] /\ caller[c].pc = "disown"
    BY <1>5 DEF Disown, CallerRest
  <2>2. /\ \A d \in Callers : d # c => caller'[d] = caller[d]
        /\ caller'[c].pc = "settle" /\ caller'[c].id = caller[c].id /\ caller'[c].answer = caller[c].answer
    BY <1>0, <2>1 DEF CallerStates
  <2>3. ~Committed'
    BY <2>1 DEF BaseInv, TypeOK, ReaderStates, FreshInv, Committed
  <2> QED
    BY <1>0, <1>2, <2>1, <2>2, <2>3 DEF SilentInv
<1>6. CASE GiveUp(c)
  <2>1. /\ UNCHANGED <<gate, generation, reader>> /\ done_m' = "free" /\ caller[c].pc = "settle"
        /\ caller' = [caller EXCEPT ![c].pc = "idle", ![c].answer = "timeout"]
    BY <1>6 DEF GiveUp, CallerRest
  <2>2. /\ \A d \in Callers : d # c => caller'[d] = caller[d]
        /\ caller'[c].pc = "idle" /\ caller'[c].id = caller[c].id
    BY <1>0, <2>1 DEF CallerStates
  <2>3. ~Committed /\ ~Committed'
    BY <2>1 DEF SilentInv, Committed
  <2> QED
    BY <1>0, <1>2, <2>1, <2>2, <2>3 DEF SilentInv
<1> QED
  BY <1>3, <1>4, <1>5, <1>6 DEF CallerStep

LEMMA SilentStep == BaseInv /\ FreshInv /\ SilentInv /\ [Next]_vars => SilentInv'
<1> SUFFICES ASSUME BaseInv, FreshInv, SilentInv, [Next]_vars PROVE SilentInv'
  OBVIOUS
<1>1. CASE Signal \/ CancelSignal
  <2>1. UNCHANGED caller /\ \E result \in Results : SignalComplete(result)
    BY <1>1 DEF Signal, CancelSignal, CtlRest, StopRest, BaseInv, TypeOK, CtlStates
  <2> QED
    BY <2>1, SilentSignal
<1>2. ASSUME UNCHANGED <<gate, caller, done_m, complete_id>> PROVE SilentInv'
  <2>1. Committed' => Committed \/ gate = 0
    BY CommitStep
  <2>2. gate \in Nat /\ complete_id \in Nat /\ \A c \in Callers : caller[c].id \in Nat
    BY DEF BaseInv, TypeOK, CallerStates
  <2> QED
    BY <1>2, <2>1, <2>2 DEF SilentInv
<1>3. CASE CtlStep /\ ~Signal
  <2>1. UNCHANGED <<gate, caller, done_m, complete_id>>
    BY <1>3 DEF CtlStep, Take, CtlExits, EnterGate, Park, ClearFirst, ClearRing, PrepareInput, Program,
       Release, Drained, DrainTimesOut, Publish, CtlRest, CtlLeaves, doneVars
  <2> QED
    BY <1>2, <2>1
<1>4. CASE (StopStep /\ ~CancelSignal) \/ StopBegins
  <2>1. UNCHANGED <<gate, caller, done_m, complete_id>>
    BY <1>4 DEF StopStep, StopBegins, Detach, Join, CancelPublish, StopRest, doneVars
  <2> QED
    BY <1>2, <2>1
<1>5. CASE Nudge \/ Capture \/ DemodStep \/ ReaderStep \/ UNCHANGED vars
  <2>1. UNCHANGED <<gate, caller, done_m, complete_id>>
    BY <1>5 DEF Nudge, AskRest, Capture, DemodStep, Purge, ReadBlock, EnterBlock, CheckBlock, EmitBlock,
       DemodExits, DemodRest, ReaderStep, ReadBegins, NoteGeneration, LookAtGate, Copy, Leave, GateAgain,
       CompareAgain, Consume, ReadRest, doneVars, vars
  <2> QED
    BY <1>2, <2>1
<1> QED
  BY <1>1, <1>3, <1>4, <1>5, SilentCaller DEF Next, CtlStep, StopStep

(* A tune call that returned TIMEOUT is followed by silence until its      *)
(* retune completes, even from the read that had looked at the gate before *)
(* the call closed it.                                                     *)
THEOREM SilentAfterTimeout == Spec => TimedOutStaysSilent
<1> DEFINE Inv == ParkedInv /\ FreshInv /\ SilentInv
<1>1. Init => Inv
  BY InitBase, InitPark, InitFresh, InitSilent DEF ParkedInv
<1>2. Inv /\ [Next]_vars => Inv'
  BY BaseStep, ParkStep, FreshStep, SilentStep DEF ParkedInv
<1>3. Inv /\ [Next]_vars =>
        [Handover => \A c \in Callers : caller[c].answer = "timeout" => caller[c].id <= complete_id]_reader
  <2> SUFFICES ASSUME Inv, [Next]_vars, Handover, NEW c \in Callers, caller[c].answer = "timeout"
               PROVE  caller[c].id <= complete_id
    OBVIOUS
  <2>1. Committed
    BY HandoverStep DEF ParkedInv, Committed
  <2> QED
    BY <2>1 DEF SilentInv, ParkedInv, BaseInv, TypeOK, CallerStates
<1> QED
  BY <1>1, <1>2, <1>3, PTL DEF Spec, TimedOutStaysSilent

-----------------------------------------------------------------------------
(* Where a tagged call is and what its owner was told.                     *)

LEMMA InitAnswer == Init => AnswerInv
<1> SUFFICES ASSUME Init PROVE AnswerInv
  OBVIOUS
<1>1. OrderInv
  BY DEF Init, OrderInv, NoWork
<1> QED
  BY <1>1 DEF Init, AnswerInv, OwnerTold

LEMMA OrderStep == BaseInv /\ OrderInv /\ [Next]_vars => OrderInv'
<1> SUFFICES ASSUME BaseInv, OrderInv, [Next]_vars PROVE OrderInv'
  OBVIOUS
<1>0. /\ calls \in Nat /\ queued \in Nat /\ ctl.work \in Nat /\ stop.call \in Nat /\ complete_id \in Nat
      /\ ctl.work <= calls
  BY DEF BaseInv, TypeOK, CtlStates, StopStates, CountInv
<1>1. ASSUME NEW isTagged \in BOOLEAN, Queue(isTagged), UNCHANGED <<ctl, stop, slots, complete_id>>
      PROVE  OrderInv'
  <2>1. tagged' \subseteq 1 .. calls'
    BY <1>0, <1>1 DEF Queue, OrderInv
  <2> QED
    BY <1>0, <1>1, <2>1 DEF Queue, OrderInv
<1>2. ASSUME UNCHANGED <<tagged, calls, queued, slots, complete_id, stop>>, ctl'.work \in {0, ctl.work}
      PROVE  OrderInv'
  BY <1>0, <1>2 DEF OrderInv
<1>3. ASSUME NEW result \in Results, SignalComplete(result), UNCHANGED <<setup, tagged, calls, queued>>,
             ctl'.work \in {0, ctl.work}, stop'.call \in {0, stop.call}, complete_id < request_id, UNCHANGED hw
      PROVE  OrderInv'
  <2>1. complete_id' = complete_id + 1 /\ slots \in [0 .. Slots - 1 -> SlotStates]
    BY <1>3 DEF SignalComplete, BaseInv, TypeOK
  <2>2. \A i \in DOMAIN slots' : slots'[i].id <= complete_id'
    BY <1>0, <1>3, <2>1 DEF SignalComplete, OrderInv, SlotStates
  <2> QED
    BY <1>0, <1>3, <2>2 DEF OrderInv
<1>4. CASE \E c \in Callers : CallerStep(c)
  <2>1. CASE \E c \in Callers, isTagged \in BOOLEAN : Tune(c, isTagged)
    BY <1>1, <2>1 DEF Tune, AskRest, doneVars
  <2>2. CASE \E c \in Callers : CallerWaits(c)
    <3>1. UNCHANGED <<tagged, calls, queued, slots, complete_id, stop, ctl>>
      BY <2>2 DEF CallerWaits, WaitAnswered, WaitStopped, WaitTimesOut, Disown, GiveUp, CallerRest, slotVars
    <3> QED
      BY <1>2, <3>1
  <2> QED
    BY <1>4, <2>1, <2>2 DEF CallerStep, CallerWaits
<1>5. CASE Nudge
  BY <1>1, <1>5 DEF Nudge, AskRest, doneVars
<1>6. CASE CtlStep
  <2>1. CASE Take
    <3>1. ctl'.work = queued /\ queued' = 0 /\ ~exit /\ UNCHANGED <<tagged, calls, slots, complete_id, stop>>
      BY <2>1, CtlSteps DEF Take, CtlRest, doneVars
    <3>2. stop.call = 0
      BY <3>1 DEF BaseInv, CountInv
    <3> QED
      BY <3>1, <3>2 DEF OrderInv
  <2>2. CASE Signal
    <3>1. ctl'.work = 0 /\ UNCHANGED <<setup, tagged, calls, queued, stop, hw>> /\ ctl.pc = "signal"
      BY <2>2, CtlSteps DEF Signal, CtlRest
    <3>2. SignalComplete(ctl.result) /\ ctl.result \in Results /\ complete_id < request_id
      BY <1>0, <2>2, <3>1 DEF Signal, BaseInv, TypeOK, CtlStates, CountInv, RequestsAccounted, One, Working
    <3> QED
      BY <1>3, <3>1, <3>2
  <2>3. CASE \E moved \in BOOLEAN, result \in Results : Program(moved, result)
    BY <1>2, <2>3, ProgramGoes DEF Program, CtlRest, CtlLeaves, doneVars
  <2>4. CASE CtlMoves \/ CtlExits \/ Publish
    <3>1. UNCHANGED <<tagged, calls, queued, slots, complete_id, stop>>
      BY <2>4 DEF CtlMoves, EnterGate, Park, ClearFirst, ClearRing, PrepareInput, Release, Drained,
         DrainTimesOut, CtlExits, Publish, CtlRest, CtlLeaves, doneVars
    <3>2. ctl'.work = ctl.work
      BY <2>4, CtlSteps DEF CtlMoves, CtlGoes
    <3> QED
      BY <1>2, <3>1, <3>2
  <2> QED
    BY <1>6, <2>1, <2>2, <2>3, <2>4 DEF CtlStep, CtlMoves
<1>7. CASE StopBegins \/ StopStep
  <2>0. stop \in StopStates
    BY DEF BaseInv, TypeOK
  <2>1. CASE Detach
    <3>1. stop'.call = queued /\ queued' = 0 /\ UNCHANGED <<tagged, calls, slots, complete_id, ctl>>
      BY <2>1 DEF Detach, StopRest, doneVars
    <3> QED
      BY <1>0, <3>1 DEF OrderInv
  <2>2. CASE CancelSignal
    <3>1. /\ stop'.call = 0 /\ UNCHANGED <<setup, tagged, calls, queued, ctl, hw>> /\ SignalComplete("FAILED")
          /\ stop.pc = "signal"
      BY <2>0, <2>2 DEF CancelSignal, StopRest, StopStates
    <3>2. complete_id < request_id
      BY <1>0, <3>1 DEF BaseInv, TypeOK, CountInv, RequestsAccounted, One
    <3> QED
      BY <1>3, <3>1, <3>2
  <2>3. CASE StopBegins \/ Join \/ CancelPublish
    <3>1. stop'.call = stop.call /\ UNCHANGED <<tagged, calls, queued, slots, complete_id, ctl>>
      BY <2>0, <2>3 DEF StopBegins, Join, CancelPublish, StopRest, StopStates, doneVars
    <3> QED
      BY <1>0, <3>1 DEF OrderInv
  <2> QED
    BY <1>7, <2>1, <2>2, <2>3 DEF StopStep
<1>8. CASE Capture \/ DemodStep \/ ReaderStep \/ UNCHANGED vars
  <2>1. UNCHANGED <<tagged, calls, queued, slots, complete_id, stop, ctl>>
    BY <1>8 DEF Capture, DemodStep, Purge, ReadBlock, EnterBlock, CheckBlock, EmitBlock,
       DemodExits, DemodRest, ReaderStep, ReadBegins, NoteGeneration, LookAtGate, Copy, Leave, GateAgain,
       CompareAgain, Consume, ReadRest, slotVars, doneVars, vars
  <2> QED
    BY <1>2, <2>1
<1> QED
  BY <1>4, <1>5, <1>6, <1>7, <1>8 DEF Next

(* A request that has completed belongs to a finished call.                *)
LEMMA PlacedDone ==
  ASSUME BaseInv, NEW k \in Calls, NEW n \in Nat, Placed(k, n), n <= complete_id
  PROVE  Finished(k, n)
<1>1. complete_id \in Nat /\ request_id \in Nat /\ queued \in Nat /\ stop.call \in Nat
  BY DEF BaseInv, TypeOK, StopStates
<1>2. queued # 0 \/ stop.call # 0 => request_id > complete_id
  BY <1>1 DEF BaseInv, TypeOK, CtlStates, CountInv, RequestsAccounted, One
<1> QED
  BY <1>1, <1>2 DEF Placed, AtController, InSlot, AtStop

(* A step that leaves ids, places and what was published alone.            *)
LEMMA PlacedKept ==
  ASSUME NEW k \in Calls, NEW n \in Nat, Placed(k, n),
         UNCHANGED <<queued, request_id, complete_id, slots, setup, published>>,
         ctl'.work = ctl.work, stop'.call = stop.call,
         ctl'.pc = "signal" => ctl.pc = "signal" /\ ctl'.result = ctl.result,
         stop'.pc = "signal" => stop.pc = "signal"
  PROVE  Placed(k, n)'
<1>1. CASE AtController(k, n)
  BY <1>1 DEF AtController, Placed
<1>2. CASE InSlot(k, n)
  BY <1>2 DEF InSlot, Placed
<1>3. CASE AtStop(k, n)
  BY <1>3 DEF AtStop, Placed
<1>4. CASE Finished(k, n)
  BY <1>4 DEF Finished, Placed, Slot, Slots
<1> QED
  BY <1>1, <1>2, <1>3, <1>4 DEF Placed

LEMMA PlacedQueue ==
  ASSUME BaseInv, OrderInv, NEW k \in tagged, NEW n \in Nat, Placed(k, n), NEW isTagged \in BOOLEAN,
         Queue(isTagged), UNCHANGED <<setup, doneVars, ctl, stop, published>>
  PROVE  Placed(k, n)' /\ UNCHANGED published
<1>1. k \in 1 .. calls /\ calls \in Nat /\ queued' = calls + 1
  BY DEF Queue, OrderInv, BaseInv, TypeOK
<1>2. ~InSlot(k, n) /\ stop.call = 0
  BY <1>1 DEF InSlot, Queue, MayQueue, BaseInv, CountInv
<1>3. CASE AtController(k, n)
  BY <1>3 DEF AtController, Placed, doneVars
<1>4. CASE Finished(k, n)
  BY <1>1, <1>4 DEF Finished, Placed, Slot, Slots, doneVars
<1> QED
  BY <1>1, <1>2, <1>3, <1>4 DEF Placed, AtStop

(* A completion of call j: in order, and into a slot no later result needs. *)
LEMMA PlacedSignal ==
  ASSUME BaseInv, OrderInv, NEW k \in Calls, NEW n \in Nat, Placed(k, n), NEW j \in Calls,
         NEW result \in Results, SignalComplete(result), UNCHANGED <<setup, published, queued, request_id>>,
         k = j => n = complete_id + 1 /\ published[k] = result,
         {queued, ctl.work, stop.call} \ {0, j} = {queued', ctl'.work, stop'.call} \ {0},
         j \notin {queued', ctl'.work, stop'.call},
         AtController(k, n) => k = j,
         AtStop(k, n) /\ k # j => AtStop(k, n)'
  PROVE  Placed(k, n)'
<1>0. complete_id \in Nat /\ Slots \in Nat \ {0} /\ slots \in [0 .. Slots - 1 -> SlotStates] /\ Slots' = Slots
  BY SlotsPositive DEF BaseInv, TypeOK, Slots
<1>1. /\ complete_id' = complete_id + 1
      /\ slots' = [slots EXCEPT ![(complete_id + 1) % Slots] = [id |-> complete_id + 1, result |-> result]]
  BY DEF SignalComplete
<1>2. (complete_id + 1) % Slots \in 0 .. Slots - 1 /\ n % Slots \in 0 .. Slots - 1
  BY <1>0
<1>3. CASE k = j
  <2>1. Slot(n)'.result = result
    BY <1>0, <1>1, <1>2, <1>3 DEF Slot
  <2> QED
    BY <1>0, <1>1, <1>3, <2>1 DEF Placed, Finished
<1>4. CASE k # j /\ Finished(k, n)
  <2>1. Slot(n)'.id = n => Slot(n)' = Slot(n)
    BY <1>0, <1>1, <1>2, <1>4 DEF Slot, Finished
  <2>2. k \notin {queued', ctl'.work, stop'.call}
    <3>1. k # 0 /\ k \notin {queued, ctl.work, stop.call} \ {0, j}
      BY <1>4 DEF Finished
    <3> QED
      BY <3>1
  <2>3. Finished(k, n)'
    BY <1>0, <1>1, <1>4, <2>1, <2>2 DEF Finished
  <2> QED
    BY <2>3 DEF Placed
<1>5. CASE k # j /\ InSlot(k, n)
  BY <1>5 DEF Placed, InSlot
<1> QED
  BY <1>3, <1>4, <1>5 DEF Placed

LEMMA PlacedCtl ==
  ASSUME BaseInv, OrderInv, NEW k \in tagged, NEW n \in Nat, Placed(k, n), CtlStep
  PROVE  Placed(k, n)' /\ (n <= complete_id => published'[k] = published[k])
<1>0. /\ k \in Calls /\ complete_id \in Nat /\ request_id \in Nat /\ queued \in Nat /\ ctl \in CtlStates
      /\ stop.call \in Nat
  BY DEF BaseInv, TypeOK, StopStates
<1>1. CASE Take
  <2>1. /\ ctl'.pc = "enter" /\ ctl'.work = queued /\ queued' = 0 /\ ~exit /\ ctl.pc = "idle"
        /\ UNCHANGED <<request_id, complete_id, slots, setup, published, stop>>
    BY <1>1, CtlSteps DEF Take, CtlRest, doneVars
  <2>2. stop.call = 0 /\ ctl.work = 0
    BY <1>0, <2>1 DEF BaseInv, CountInv, Working, CtlStates
  <2>3. CASE InSlot(k, n)
    <3>1. n = complete_id + 1
      BY <1>0, <2>2, <2>3 DEF InSlot, BaseInv, CountInv, RequestsAccounted, One
    <3> QED
      BY <2>1, <2>3, <3>1 DEF InSlot, AtController, Placed
  <2>4. CASE Finished(k, n)
    BY <1>0, <2>1, <2>2, <2>4 DEF Finished, Placed, Slot, Slots
  <2> QED
    BY <1>0, <2>1, <2>2, <2>3, <2>4 DEF Placed, AtController, AtStop
<1>2. CASE Publish
  <2>1. /\ ctl'.pc = "signal" /\ ctl'.work = ctl.work /\ ctl'.result = ctl.result /\ ctl.pc = "publish"
        /\ UNCHANGED <<request_id, complete_id, slots, setup, stop, queued>>
        /\ PublishCompletion(ctl.work, ctl.result)
    BY <1>2, CtlSteps DEF Publish, CtlRest, CtlGoes, doneVars
  <2>2. k # ctl.work => published'[k] = published[k]
    BY <1>0, <2>1 DEF PublishCompletion, BaseInv, TypeOK
  <2>3. k = ctl.work => published'[k] = ctl.result
    BY <1>0, <2>1 DEF PublishCompletion, BaseInv, TypeOK
  <2>4. stop.pc # "signal"
    BY <2>1 DEF BaseInv, CountInv
  <2>5. n <= complete_id => k # ctl.work
    BY <1>0, PlacedDone DEF Finished
  <2>6. CASE AtController(k, n)
    BY <2>1, <2>2, <2>3, <2>5, <2>6 DEF AtController, Placed
  <2>7. CASE InSlot(k, n) \/ AtStop(k, n)
    BY <2>1, <2>2, <2>4, <2>5, <2>7 DEF InSlot, AtStop, Placed
  <2>8. CASE Finished(k, n)
    BY <2>1, <2>2, <2>8 DEF Finished, Placed, Slot, Slots
  <2> QED
    BY <2>2, <2>5, <2>6, <2>7, <2>8 DEF Placed
<1>3. CASE Signal
  <2> DEFINE j == ctl.work
  <2>1. /\ ctl'.work = 0 /\ ctl.pc = "signal" /\ UNCHANGED <<setup, queued, request_id, stop, published>>
        /\ SignalComplete(ctl.result) /\ ctl.result \in Results
    BY <1>0, <1>3, CtlSteps DEF Signal, CtlRest, CtlStates
  <2>2. j \in Calls
    BY <1>0, <2>1 DEF BaseInv, CountInv, Working, CtlStates
  <2>3. j # queued /\ j # stop.call
    BY <1>0, <2>2 DEF OrderInv
  <2>4. AtController(k, n) => k = j
    BY DEF AtController
  <2>5. k = j => AtController(k, n)
    BY <2>3 DEF Placed, InSlot, AtStop, Finished
  <2>6. k = j => n = complete_id + 1 /\ published[k] = ctl.result
    BY <2>1, <2>5 DEF AtController
  <2>7. AtStop(k, n) => AtStop(k, n)'
    BY <2>1 DEF AtStop
  <2>8. /\ {queued, ctl.work, stop.call} \ {0, j} = {queued', ctl'.work, stop'.call} \ {0}
        /\ j \notin {queued', ctl'.work, stop'.call}
    BY <2>1, <2>2, <2>3
  <2> HIDE DEF j
  <2>9. Placed(k, n)'
    BY <1>0, <2>1, <2>2, <2>4, <2>6, <2>7, <2>8, PlacedSignal
  <2> QED
    BY <2>1, <2>9
<1>4. CASE \E moved \in BOOLEAN, result \in Results : Program(moved, result)
  <2>1. /\ ctl'.pc = "release" /\ ctl'.work = ctl.work
        /\ UNCHANGED <<queued, request_id, complete_id, slots, setup, published, stop>>
    BY <1>4, ProgramGoes DEF Program, CtlRest, CtlLeaves, doneVars
  <2> QED
    BY <1>0, <2>1, PlacedKept
<1>5. CASE CtlMoves \/ CtlExits
  <2>1. UNCHANGED <<queued, request_id, complete_id, slots, setup, published, stop>>
    BY <1>5 DEF CtlMoves, EnterGate, Park, ClearFirst, ClearRing, PrepareInput, Release, Drained,
       DrainTimesOut, CtlExits, CtlRest, CtlLeaves, doneVars
  <2>2. ctl'.work = ctl.work /\ ctl'.pc # "signal"
    BY <1>5, CtlSteps DEF CtlMoves, CtlGoes
  <2> QED
    BY <1>0, <2>1, <2>2, PlacedKept
<1> QED
  BY <1>1, <1>2, <1>3, <1>4, <1>5 DEF CtlStep, CtlMoves

LEMMA PlacedStop ==
  ASSUME BaseInv, OrderInv, NEW k \in tagged, NEW n \in Nat, Placed(k, n), StopBegins \/ StopStep
  PROVE  Placed(k, n)' /\ (n <= complete_id => published'[k] = published[k])
<1>0. /\ k \in Calls /\ complete_id \in Nat /\ request_id \in Nat /\ queued \in Nat /\ stop \in StopStates
  BY DEF BaseInv, TypeOK
<1>1. UNCHANGED <<setup, tagged, request_id, ctl>>
  BY DEF StopBegins, StopStep, Detach, Join, CancelPublish, CancelSignal, StopRest
<1>2. CASE StopBegins \/ Join
  <2>1. stop'.call = stop.call /\ stop'.pc # "signal" /\ UNCHANGED <<queued, complete_id, slots, published>>
    BY <1>0, <1>2 DEF StopBegins, Join, StopStates, doneVars
  <2> QED
    BY <1>0, <1>1, <2>1, PlacedKept
<1>3. CASE Detach
  <2>1. /\ stop'.call = queued /\ stop'.pc = "join" /\ queued' = 0 /\ UNCHANGED <<complete_id, slots, published>>
        /\ stop.pc = "detach"
    BY <1>3 DEF Detach, doneVars
  <2>2. stop.call = 0
    BY <2>1 DEF BaseInv, CountInv
  <2>3. CASE AtController(k, n)
    BY <1>1, <2>1, <2>3 DEF AtController, Placed
  <2>4. CASE InSlot(k, n)
    BY <1>1, <2>1, <2>4 DEF InSlot, AtStop, Placed
  <2>5. CASE Finished(k, n)
    BY <1>0, <1>1, <2>1, <2>5 DEF Finished, Placed, Slot, Slots
  <2> QED
    BY <1>0, <2>1, <2>2, <2>3, <2>4, <2>5 DEF Placed, AtStop
<1>4. CASE CancelPublish
  <2>1. /\ stop'.call = stop.call /\ stop'.pc = "signal" /\ UNCHANGED <<queued, complete_id, slots>>
        /\ stop.pc = "cancel" /\ PublishCompletion(stop.call, "FAILED")
    BY <1>0, <1>4 DEF CancelPublish, StopStates, doneVars
  <2>2. k # stop.call => published'[k] = published[k]
    BY <1>0, <2>1 DEF PublishCompletion, BaseInv, TypeOK
  <2>3. k = stop.call => published'[k] = "FAILED"
    BY <1>0, <2>1 DEF PublishCompletion, BaseInv, TypeOK
  <2>4. ctl.work = 0
    BY <2>1 DEF BaseInv, CountInv, Working
  <2>5. n <= complete_id => k # stop.call
    BY <1>0, PlacedDone DEF Finished
  <2>6. CASE InSlot(k, n) \/ AtStop(k, n)
    BY <1>1, <2>1, <2>2, <2>3, <2>5, <2>6 DEF InSlot, AtStop, Placed
  <2>7. CASE Finished(k, n)
    BY <1>1, <2>1, <2>2, <2>7 DEF Finished, Placed, Slot, Slots
  <2> QED
    BY <1>0, <2>2, <2>4, <2>5, <2>6, <2>7 DEF Placed, AtController
<1>5. CASE CancelSignal
  <2> DEFINE j == stop.call
  <2>1. /\ stop'.call = 0 /\ stop.pc = "signal" /\ UNCHANGED <<queued, published>> /\ SignalComplete("FAILED")
    BY <1>0, <1>5 DEF CancelSignal, StopStates
  <2>2. j \in Calls /\ ctl.work = 0 /\ queued = 0 /\ request_id = complete_id + 1
    BY <1>0, <2>1 DEF BaseInv, CountInv, RequestsAccounted, One, Working, StopStates
  <2>4. AtController(k, n) => k = j
    BY <1>0, <2>2 DEF AtController
  <2>5. k = j => AtStop(k, n)
    BY <1>0, <2>2 DEF Placed, InSlot, AtController, Finished
  <2>6. k = j => n = complete_id + 1 /\ published[k] = "FAILED"
    BY <2>1, <2>2, <2>5 DEF AtStop
  <2>7. AtStop(k, n) => k = j
    BY DEF AtStop
  <2>8. /\ {queued, ctl.work, stop.call} \ {0, j} = {queued', ctl'.work, stop'.call} \ {0}
        /\ j \notin {queued', ctl'.work, stop'.call}
    BY <1>1, <2>1, <2>2
  <2> HIDE DEF j
  <2>9. Placed(k, n)'
    BY <1>0, <1>1, <2>1, <2>2, <2>4, <2>6, <2>7, <2>8, PlacedSignal
  <2> QED
    BY <2>1, <2>9
<1> QED
  BY <1>2, <1>3, <1>4, <1>5 DEF StopStep

(* What a step must keep of every tagged call.                             *)
KeepsPlaces ==
    \A k \in tagged, n \in Nat :
      Placed(k, n) => Placed(k, n)' /\ (n <= complete_id => published'[k] = published[k])

LEMMA OwnerKept ==
  ASSUME BaseInv, AnswerInv, NEW c \in Callers, KeepsPlaces, caller'[c] = caller[c],
         caller[c].call \in tagged' => caller[c].call \in tagged,
         complete_id' \in {complete_id, complete_id + 1}
  PROVE  OwnerTold(c)'
<1> SUFFICES ASSUME (caller[c].call \in tagged)'
             PROVE  (/\ Placed(caller[c].call, caller[c].id)
                     /\ caller[c].answer \in Results =>
                          caller[c].id <= complete_id /\ published[caller[c].call] = caller[c].answer)'
  BY DEF OwnerTold
<1>1. caller[c].id \in Nat /\ complete_id \in Nat
  BY DEF BaseInv, TypeOK, CallerStates
<1>2. /\ Placed(caller[c].call, caller[c].id)
      /\ caller[c].answer \in Results =>
           caller[c].id <= complete_id /\ published[caller[c].call] = caller[c].answer
  BY DEF AnswerInv, OwnerTold
<1>3. PICK k \in tagged, n \in Nat : k = caller[c].call /\ n = caller[c].id
  BY <1>1
<1>4. Placed(k, n)
  BY <1>2, <1>3
<1>5. Placed(k, n)' /\ (n <= complete_id => published'[k] = published[k])
  BY <1>4 DEF KeepsPlaces
<1>6. Placed(caller[c].call, caller[c].id)'
  BY <1>3, <1>5 DEF Placed, AtController, InSlot, AtStop, Finished, Slot
<1>7. caller[c].id <= complete_id => caller[c].id <= complete_id'
  BY <1>1
<1> QED
  BY <1>2, <1>3, <1>5, <1>6, <1>7

(* Asking: a call that carries a token is not replaced.                    *)
LEMMA AnswerAsk ==
  ASSUME BaseInv, AnswerInv, [Next]_vars, Nudge \/ \E c \in Callers, isTagged \in BOOLEAN : Tune(c, isTagged)
  PROVE  AnswerInv'
<1>1. OrderInv'
  BY OrderStep DEF AnswerInv
<1>2. PICK isTagged \in BOOLEAN : Queue(isTagged) /\ AskRest
  BY DEF Nudge, Tune
<1>3. /\ UNCHANGED <<setup, doneVars, complete_id, ctl, stop, published>>
      /\ calls' = calls + 1 /\ tagged' \subseteq tagged \cup {calls + 1} /\ queued' = calls + 1
  BY <1>2 DEF AskRest, Queue, doneVars
<1>4. KeepsPlaces
  BY <1>2, <1>3, PlacedQueue DEF KeepsPlaces, AnswerInv
<1>5. /\ calls \in Nat /\ caller \in [Callers -> CallerStates]
      /\ \A c \in Callers : caller[c].call \in Nat /\ caller[c].call <= calls
  BY DEF BaseInv, TypeOK, CallerStates, AnswerInv
<1>6. ASSUME NEW c \in Callers, caller'[c] = caller[c]
      PROVE  OwnerTold(c)' /\ (caller[c].call <= calls)'
  <2>1. caller[c].call \in tagged' => caller[c].call \in tagged
    BY <1>3, <1>5
  <2>2. OwnerTold(c)'
    BY <1>3, <1>4, <1>6, <2>1, OwnerKept
  <2> QED
    BY <1>3, <1>5, <1>6, <2>2
<1>7. CASE Nudge
  <2>1. \A c \in Callers : caller'[c] = caller[c]
    BY <1>7 DEF Nudge
  <2> QED
    BY <1>1, <1>6, <2>1 DEF AnswerInv
<1>8. CASE \E c \in Callers, isT \in BOOLEAN : Tune(c, isT)
  <2>1. PICK c \in Callers, isT \in BOOLEAN : Tune(c, isT)
    BY <1>8
  <2>2. /\ \A d \in Callers : d # c => caller'[d] = caller[d]
        /\ caller'[c] = [pc |-> "wait", call |-> calls', id |-> request_id', answer |-> "none"]
    BY <1>5, <2>1 DEF Tune
  <2>3. caller'[c].call = queued' /\ caller'[c].id = request_id' /\ caller'[c].answer \notin Results
    BY <1>3, <2>2
  <2>4. Placed(caller[c].call, caller[c].id)'
    BY <2>3 DEF Placed, InSlot
  <2>5. OwnerTold(c)' /\ (caller[c].call <= calls)'
    BY <1>3, <1>5, <2>3, <2>4 DEF OwnerTold
  <2> QED
    BY <1>1, <1>6, <2>2, <2>5 DEF AnswerInv
<1> QED
  BY <1>7, <1>8

(* Waiting: the slot of a completed request holds what its owner was told, *)
(* unless it has been reused.                                              *)
LEMMA AnswerWait ==
  ASSUME BaseInv, AnswerInv, [Next]_vars, NEW c \in Callers, CallerWaits(c)
  PROVE  AnswerInv'
<1>1. OrderInv'
  BY OrderStep DEF AnswerInv
<1>2. UNCHANGED <<setup, calls, tagged, queued, request_id, complete_id, slots, ctl, stop, published>>
  BY DEF CallerWaits, WaitAnswered, WaitStopped, WaitTimesOut, Disown, GiveUp, CallerRest, slotVars
<1>3. KeepsPlaces
  BY <1>2, PlacedKept DEF KeepsPlaces, BaseInv, TypeOK
<1>4. /\ caller \in [Callers -> CallerStates] /\ tagged \subseteq Calls
      /\ caller[c].id \in Nat /\ complete_id \in Nat /\ caller[c].call <= calls
  BY DEF BaseInv, TypeOK, CallerStates, AnswerInv
<1>5. /\ \A d \in Callers : d # c => caller'[d] = caller[d]
      /\ caller'[c].call = caller[c].call /\ caller'[c].id = caller[c].id
      /\ \/ caller'[c].answer \in {caller[c].answer, "stopped", "timeout", "missing"}
         \/ caller[c].id <= complete_id /\ Slot(caller[c].id).id = caller[c].id
            /\ caller'[c].answer = Slot(caller[c].id).result
  <2>1. CASE WaitAnswered(c)
    <3> DEFINE a == IF Slot(caller[c].id).id = caller[c].id THEN Slot(caller[c].id).result ELSE "missing"
    <3>1. caller' = [caller EXCEPT ![c].pc = "idle", ![c].answer = a] /\ caller[c].id <= complete_id
      BY <1>4, <2>1 DEF WaitAnswered
    <3>2. a = "missing" \/ (Slot(caller[c].id).id = caller[c].id /\ a = Slot(caller[c].id).result)
      OBVIOUS
    <3> HIDE DEF a
    <3>3. /\ \A d \in Callers : d # c => caller'[d] = caller[d]
          /\ caller'[c].call = caller[c].call /\ caller'[c].id = caller[c].id /\ caller'[c].answer = a
      BY <1>4, <3>1 DEF CallerStates
    <3> QED
      BY <3>1, <3>2, <3>3
  <2>2. CASE WaitStopped(c) \/ GiveUp(c)
    BY <1>4, <2>2 DEF WaitStopped, GiveUp, CallerStates
  <2>3. CASE WaitTimesOut(c) \/ Disown(c)
    <3>1. \E p \in {"disown", "settle"} : caller' = [caller EXCEPT ![c].pc = p]
      BY <2>3 DEF WaitTimesOut, Disown
    <3> QED
      BY <1>4, <3>1 DEF CallerStates
  <2> QED
    BY <2>1, <2>2, <2>3 DEF CallerWaits
<1>6. \A d \in Callers : d # c => OwnerTold(d)'
  BY <1>2, <1>3, <1>5, OwnerKept
<1>7. ASSUME caller[c].call \in tagged
      PROVE  /\ Placed(caller[c].call, caller[c].id)'
             /\ caller'[c].answer \in Results =>
                  caller[c].id <= complete_id /\ published[caller[c].call] = caller'[c].answer
  <2>1. PICK k \in tagged, n \in Nat : k = caller[c].call /\ n = caller[c].id
    BY <1>4, <1>7
  <2>2. /\ Placed(k, n)
        /\ caller[c].answer \in Results => n <= complete_id /\ published[k] = caller[c].answer
    BY <1>7, <2>1 DEF AnswerInv, OwnerTold
  <2>3. Placed(k, n)'
    BY <2>2, <1>3 DEF KeepsPlaces
  <2>4. Placed(caller[c].call, caller[c].id)'
    BY <1>5, <2>1, <2>3 DEF Placed, AtController, InSlot, AtStop, Finished, Slot
  <2>5. n <= complete_id /\ Slot(n).id = n => Slot(n).result = published[k]
    BY <1>4, <2>2, PlacedDone DEF Finished
  <2> QED
    BY <1>5, <2>1, <2>2, <2>4, <2>5
<1>8. OwnerTold(c)'
  BY <1>2, <1>5, <1>7 DEF OwnerTold
<1>9. \A d \in Callers : (caller[d].call <= calls)'
  BY <1>2, <1>5 DEF AnswerInv
<1> QED
  BY <1>1, <1>6, <1>8, <1>9 DEF AnswerInv

LEMMA AnswerStep == BaseInv /\ AnswerInv /\ [Next]_vars => AnswerInv'
<1> SUFFICES ASSUME BaseInv, AnswerInv, [Next]_vars PROVE AnswerInv'
  OBVIOUS
<1>1. ASSUME UNCHANGED <<caller, tagged, calls>>, complete_id' \in {complete_id, complete_id + 1}, KeepsPlaces
      PROVE  AnswerInv'
  <2>1. \A c \in Callers : OwnerTold(c)'
    BY <1>1, OwnerKept
  <2> QED
    BY <1>1, <2>1, OrderStep DEF AnswerInv
<1>2. CASE \E c \in Callers : CallerStep(c)
  BY <1>2, AnswerAsk, AnswerWait DEF CallerStep, CallerWaits
<1>3. CASE Nudge
  BY <1>3, AnswerAsk
<1>4. CASE CtlStep
  <2>1. UNCHANGED <<caller, tagged, calls>> /\ complete_id' \in {complete_id, complete_id + 1}
    BY <1>4 DEF CtlStep, Take, CtlExits, EnterGate, Park, ClearFirst, ClearRing, PrepareInput, Program,
       Release, Drained, DrainTimesOut, Publish, Signal, SignalComplete, CtlRest, CtlLeaves, doneVars
  <2>2. KeepsPlaces
    BY <1>4, PlacedCtl DEF KeepsPlaces, AnswerInv
  <2> QED
    BY <1>1, <2>1, <2>2
<1>5. CASE StopBegins \/ StopStep
  <2>1. UNCHANGED <<caller, tagged, calls>> /\ complete_id' \in {complete_id, complete_id + 1}
    BY <1>5 DEF StopBegins, StopStep, Detach, Join, CancelPublish, CancelSignal, SignalComplete, StopRest,
       doneVars
  <2>2. KeepsPlaces
    BY <1>5, PlacedStop DEF KeepsPlaces, AnswerInv
  <2> QED
    BY <1>1, <2>1, <2>2
<1>6. CASE Capture \/ DemodStep \/ ReaderStep \/ UNCHANGED vars
  <2>1. UNCHANGED <<caller, tagged, calls, queued, request_id, complete_id, slots, setup, published, ctl, stop>>
    BY <1>6 DEF Capture, DemodStep, Purge, ReadBlock, EnterBlock, CheckBlock, EmitBlock,
       DemodExits, DemodRest, ReaderStep, ReadBegins, NoteGeneration, LookAtGate, Copy, Leave, GateAgain,
       CompareAgain, Consume, ReadRest, slotVars, doneVars, vars
  <2>2. KeepsPlaces
    BY <2>1, PlacedKept DEF KeepsPlaces, BaseInv, TypeOK
  <2> QED
    BY <1>1, <2>1, <2>2
<1> QED
  BY <1>2, <1>3, <1>4, <1>5, <1>6 DEF Next

(* The waiting caller and the owner of the token hear the same result, the *)
(* owner first: through replaced, timed out and cancelled retunes, and     *)
(* result slots that later completions reuse.                              *)
THEOREM OneAnswer == Spec => []AnsweredAsPublished
<1>1. Init => BaseInv /\ AnswerInv
  BY InitBase, InitAnswer
<1>2. (BaseInv /\ AnswerInv) /\ [Next]_vars => (BaseInv /\ AnswerInv)'
  BY BaseStep, AnswerStep
<1>3. AnswerInv => AnsweredAsPublished
  BY DEF AnswerInv, OwnerTold, AnsweredAsPublished
<1> QED
  BY <1>1, <1>2, <1>3, PTL DEF Spec
=============================================================================
