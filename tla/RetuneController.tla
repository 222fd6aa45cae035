-------------------------- MODULE RetuneController --------------------------
(***************************************************************************)
(* The live SDR's retune pipeline (src/src/io/radio/rtl_sdr_fm.cpp).       *)
(*                                                                         *)
(* Callers leave a retune in a single slot and wait for the controller     *)
(* thread, which parks the demodulator, moves the hardware, purges both    *)
(* rings, answers the request's owner and then the waiting caller.  A      *)
(* caller that gives up closes the decoder's reads until the controller    *)
(* has caught up.  soft_stop() may end the stream at any point.            *)
(*                                                                         *)
(* Samples are known by the hardware setting they were captured under, and *)
(* a ring by the set of settings whose samples it holds.  hop_m, ready_m   *)
(* and the completion lock cover single steps, except that a caller who    *)
(* times out keeps the completion lock while it waits for the reader.      *)
(* Atomics are taken as sequentially consistent.                           *)
(***************************************************************************)
EXTENDS Integers, FiniteSets

CONSTANTS
    Callers,     \* threads that call dsd_rtl_stream_tune()
    Decoder,     \* the one among them that also reads the samples
    MaxCalls,    \* bound: tunes asked for in a run
    Setups       \* what a run may begin with, [callers, asks, slots, stop]: who calls,
                 \* how retunes are asked for, kRetuneCompletionResultSlots, and (a
                 \* bound) whether soft_stop() may come

ASSUME CallersAssumption == Decoder \in Callers /\ "free" \notin Callers
ASSUME MaxCallsAssumption == MaxCalls \in Nat
ASSUME SetupsAssumption ==
    Setups \subseteq [callers: SUBSET Callers, asks: SUBSET {"tagged", "plain", "port"},
                      slots: Nat \ {0}, stop: BOOLEAN]

(* A tune call is known by its number, which stands for its target; the    *)
(* tagged ones carry a token of the tune request ledger.                   *)
Calls == 1 .. MaxCalls
Results == {"OK", "FAILED"}

VARIABLES
    setup,                    \* what the run began with
    calls, tagged,            \* tunes asked for so far, and which carry a token
    accepting, queued,        \* manual_retunes_accepting; the slot's call, 0 when none is pending
    request_id, complete_id,  \* retune_request_id, retune_complete_id
    slots,                    \* retune_complete_result_ids and retune_complete_results
    gate,                     \* timeout_gate_request_id
    done_m,                   \* who keeps retune_done_m over a step, or "free"
    generation,               \* g_rtl_output_generation
    reading,                  \* live_output_read_active
    in_progress, busy,        \* retune_in_progress, demod_processing_active
    hold, purge,              \* capture_reconfigure_hold, g_ring_purge_pending
    hw,                       \* the hardware setting, counted
    input, output,            \* the settings whose samples the two rings hold
    exit,                     \* should_exit
    caller,                   \* each caller: where it is, its call, its request, its answer
    ctl, demod, reader, stop, \* the controller, demodulator and reading threads, and soft_stop()
    published,                \* history: what each token's owner was told
    applied,                  \* history: the setting at the last completion
    told                      \* history: the newest of those a caller has returned with

slotVars == <<calls, tagged, accepting, queued, request_id>>
doneVars == <<complete_id, slots, gate, done_m, applied>>
demodVars == <<busy, demod, input, hold, purge>>
vars == <<setup, slotVars, doneVars, generation, reading, in_progress, demodVars, hw, output, exit,
          caller, ctl, reader, stop, published, told>>

Slots == setup.slots

-----------------------------------------------------------------------------
(* Asking for a retune.                                                    *)

(* Mutant: a newer tune replaces a tagged one that is still pending.       *)
MayQueueOverTagged == accepting

(* schedule_manual_retune_on_controller(): a pending retune with a token   *)
(* of its own is not replaced; the refused call ends as DEFERRED without a *)
(* trace, as it does while the tuner belongs to a search or a replay runs. *)
MayQueue == accepting /\ (queued # 0 => queued \notin tagged)

(* Mutant: a retune that replaces a pending one takes an id of its own.    *)
QueueNumbersAll(isTagged) ==
    /\ MayQueue
    /\ calls < MaxCalls
    /\ calls' = calls + 1
    /\ tagged' = IF isTagged THEN tagged \cup {calls + 1} ELSE tagged
    /\ request_id' = request_id + 1
    /\ queued' = calls + 1
    /\ UNCHANGED accepting

(* An untagged pending retune is overwritten under the same request id, so *)
(* that ids count the retunes that are carried out.                        *)
Queue(isTagged) ==
    /\ MayQueue
    /\ calls < MaxCalls
    /\ calls' = calls + 1
    /\ tagged' = IF isTagged THEN tagged \cup {calls + 1} ELSE tagged
    /\ request_id' = IF queued = 0 THEN request_id + 1 ELSE request_id
    /\ queued' = calls + 1
    /\ UNCHANGED accepting

AskRest == UNCHANGED <<setup, doneVars, generation, reading, in_progress, demodVars, hw, output, exit,
                       ctl, reader, stop, published, told>>

(* rtl_stream_tune_impl(), up to its wait.                                 *)
Tune(c, isTagged) ==
    /\ c \in setup.callers /\ (IF isTagged THEN "tagged" ELSE "plain") \in setup.asks
    /\ caller[c].pc = "idle"
    /\ c = Decoder => reader.pc = "idle"
    /\ Queue(isTagged)
    /\ caller' = [caller EXCEPT ![c] = [pc |-> "wait", call |-> calls', id |-> request_id',
                                        answer |-> "none"]]
    /\ AskRest

(* The UDP control port asks and does not wait.                            *)
Nudge == "port" \in setup.asks /\ Queue(FALSE) /\ UNCHANGED caller /\ AskRest

-----------------------------------------------------------------------------
(* rtl_stream_tune_wait_for_completion()                                   *)

Waits(c) == caller[c].pc = "wait" /\ done_m = "free"

Slot(id) == slots[id % Slots]

CallerRest == UNCHANGED <<setup, slotVars, complete_id, slots, applied, in_progress, demodVars, hw, output,
                          exit, ctl, reader, stop, published, reading>>

(* The completion's result, unless later completions have reused its slot. *)
WaitAnswered(c) ==
    /\ Waits(c)
    /\ complete_id >= caller[c].id
    /\ caller' = [caller EXCEPT ![c].pc = "idle",
                    ![c].answer = IF Slot(caller[c].id).id = caller[c].id
                                    THEN Slot(caller[c].id).result ELSE "missing"]
    /\ told' = applied
    /\ UNCHANGED <<gate, done_m, generation>>
    /\ CallerRest

WaitStopped(c) ==
    /\ Waits(c)
    /\ complete_id < caller[c].id
    /\ exit
    /\ caller' = [caller EXCEPT ![c].pc = "idle", ![c].answer = "stopped"]
    /\ UNCHANGED <<gate, done_m, generation, told>>
    /\ CallerRest

(* controller_gate_tune_timeout(): the read gate is closed, or kept on a   *)
(* newer request; the generation disowns a copy already made; then the     *)
(* caller waits for the reader to leave the ring, the lock still held.     *)
WaitTimesOut(c) ==
    LET advances == gate = 0 \/ caller[c].id > gate IN
    /\ Waits(c)
    /\ complete_id < caller[c].id
    /\ ~exit
    /\ gate' = IF advances THEN caller[c].id ELSE gate
    /\ done_m' = c
    /\ caller' = [caller EXCEPT ![c].pc = IF advances THEN "disown" ELSE "settle"]
    /\ UNCHANGED <<generation, told>>
    /\ CallerRest

Disown(c) ==
    /\ caller[c].pc = "disown"
    /\ generation' = generation + 1
    /\ caller' = [caller EXCEPT ![c].pc = "settle"]
    /\ UNCHANGED <<gate, done_m, told>>
    /\ CallerRest

GiveUp(c) ==
    /\ caller[c].pc = "settle"
    /\ ~reading
    /\ done_m' = "free"
    /\ caller' = [caller EXCEPT ![c].pc = "idle", ![c].answer = "timeout"]
    /\ UNCHANGED <<gate, generation, told>>
    /\ CallerRest

-----------------------------------------------------------------------------
(* The controller thread: controller_thread_retune_loop().                 *)

CtlRest == UNCHANGED <<setup, calls, tagged, accepting, request_id, reading, exit, caller, reader, stop, told>>

CtlLeaves == UNCHANGED <<queued, doneVars, published>>

(* controller_wait_for_retune_work()                                       *)
Take ==
    /\ ctl.pc = "idle"
    /\ ~exit
    /\ queued # 0
    /\ ctl' = [ctl EXCEPT !.pc = "enter", !.work = queued]
    /\ queued' = 0
    /\ UNCHANGED <<doneVars, published, generation, in_progress, demodVars, hw, output>>
    /\ CtlRest

CtlExits ==
    /\ ctl.pc = "idle"
    /\ exit
    /\ ctl' = [ctl EXCEPT !.pc = "gone"]
    /\ UNCHANGED <<generation, in_progress, demodVars, hw, output>>
    /\ CtlLeaves /\ CtlRest

(* controller_enter_reconfigure_gate(): flag, wait for the demodulator,    *)
(* clear the output ring.  The wait is given up when the stream stops.     *)
EnterGate ==
    /\ ctl.pc = "enter"
    /\ in_progress' = TRUE
    /\ ctl' = [ctl EXCEPT !.pc = "park"]
    /\ UNCHANGED <<generation, demodVars, hw, output>>
    /\ CtlLeaves /\ CtlRest

(* Mutant: the controller does not wait for the block being demodulated.   *)
ParkAtOnce ==
    /\ ctl.pc = "park"
    /\ ctl' = [ctl EXCEPT !.pc = "clear"]
    /\ UNCHANGED <<generation, in_progress, demodVars, hw, output>>
    /\ CtlLeaves /\ CtlRest

Park ==
    /\ ctl.pc = "park"
    /\ ~busy \/ exit
    /\ ctl' = [ctl EXCEPT !.pc = "clear"]
    /\ UNCHANGED <<generation, in_progress, demodVars, hw, output>>
    /\ CtlLeaves /\ CtlRest

(* rtl_stream_clear_output_ring(): a generation before the ring is emptied *)
(* and one with it, under the lock every reader's copy takes.              *)
ClearFirst(now, then) ==
    /\ ctl.pc = now
    /\ generation' = generation + 1
    /\ ctl' = [ctl EXCEPT !.pc = then]
    /\ UNCHANGED <<in_progress, demodVars, hw, output>>
    /\ CtlLeaves /\ CtlRest

ClearRing(now, then) ==
    /\ ctl.pc = now
    /\ output' = {}
    /\ generation' = generation + 1
    /\ ctl' = [ctl EXCEPT !.pc = then]
    /\ UNCHANGED <<in_progress, demodVars, hw>>
    /\ CtlLeaves /\ CtlRest

(* controller_prepare_reconfigure_input()                                  *)
PrepareInput ==
    /\ ctl.pc = "prepare"
    /\ hold' = TRUE
    /\ purge' = TRUE
    /\ ctl' = [ctl EXCEPT !.pc = "program"]
    /\ UNCHANGED <<generation, in_progress, busy, demod, input, hw, output>>
    /\ CtlLeaves /\ CtlRest

(* controller_apply_reconfigure(): the hardware may refuse and keep its    *)
(* setting, or move; a move is finalized with a second purge and succeeds  *)
(* unless the landing is refused for its analog width.                     *)
Program(moved, result) ==
    /\ ctl.pc = "program"
    /\ ~moved => result = "FAILED"
    /\ hw' = IF moved THEN hw + 1 ELSE hw
    /\ purge' = (purge \/ moved)
    /\ ctl' = [ctl EXCEPT !.pc = "release", !.moved = moved, !.result = result]
    /\ UNCHANGED <<generation, in_progress, busy, demod, input, hold, output>>
    /\ CtlLeaves /\ CtlRest

(* rtl_device_end_capture_reconfigure(), controller_end_reconfigure()      *)
Release ==
    /\ ctl.pc = "release"
    /\ hold' = FALSE
    /\ in_progress' = FALSE
    /\ ctl' = [ctl EXCEPT !.pc = IF ctl.moved THEN "drain" ELSE "publish"]
    /\ UNCHANGED <<generation, purge, busy, demod, input, hw, output>>
    /\ CtlLeaves /\ CtlRest

(* drain_output_on_retune(): the ring ran empty in time, else it is        *)
(* cleared.                                                                *)
Drained == output = {} /\ ClearFirst("drain", "publish")
DrainTimesOut == output # {} /\ ClearFirst("drain", "drain2")

(* controller_finish_manual_retune(): the token's owner first, then the    *)
(* waiting callers.                                                        *)
PublishCompletion(call, result) ==
    published' = IF call \in tagged THEN [published EXCEPT ![call] = result] ELSE published

Publish ==
    /\ ctl.pc = "publish"
    /\ PublishCompletion(ctl.work, ctl.result)
    /\ ctl' = [ctl EXCEPT !.pc = "signal"]
    /\ UNCHANGED <<queued, doneVars, generation, in_progress, demodVars, hw, output>>
    /\ CtlRest

Opens(id) == gate # 0 /\ id >= gate

(* controller_signal_manual_retune_complete()                              *)
SignalComplete(result) ==
    LET id == complete_id + 1 IN
    /\ done_m = "free"
    /\ complete_id' = id
    /\ slots' = [slots EXCEPT ![id % Slots] = [id |-> id, result |-> result]]
    /\ gate' = IF Opens(id) THEN 0 ELSE gate
    /\ applied' = hw
    /\ UNCHANGED done_m

NoWork == [pc |-> "idle", work |-> 0, moved |-> FALSE, result |-> "OK"]

Signal ==
    /\ ctl.pc = "signal"
    /\ SignalComplete(ctl.result)
    /\ ctl' = NoWork
    /\ UNCHANGED <<queued, published, generation, in_progress, demodVars, hw, output>>
    /\ CtlRest

-----------------------------------------------------------------------------
(* The device callback and the demodulator thread.                         *)

DemodRest == UNCHANGED <<setup, slotVars, doneVars, generation, reading, in_progress, hold, hw, exit,
                         caller, ctl, reader, stop, published, told>>

(* The driver's callback; it drops what arrives during a reconfiguration,  *)
(* and the mute that follows outlasts the samples of the old setting.      *)
Capture ==
    /\ ~hold
    /\ ~exit
    /\ input' = input \cup {hw}
    /\ UNCHANGED <<busy, demod, purge, output>>
    /\ DemodRest

(* demod_should_pause_before_read(): a purge is served before any read.    *)
Purge ==
    /\ demod.pc = "idle"
    /\ ~exit
    /\ purge
    /\ purge' = FALSE
    /\ input' = {}
    /\ UNCHANGED <<busy, demod, output>>
    /\ DemodRest

(* demod_read_input_block(): the oldest samples, up to some setting's.     *)
ReadBlock ==
    /\ demod.pc = "idle"
    /\ ~exit
    /\ ~purge
    /\ ~in_progress
    /\ \E newest \in input :
         /\ demod' = [pc |-> "enter", block |-> {s \in input : s <= newest}]
         /\ input' = {s \in input : s >= newest}
    /\ UNCHANGED <<busy, purge, output>>
    /\ DemodRest

Idle == [pc |-> "idle", block |-> {}]

(* demod_enter_processing_block(): announce, then look at the flag.        *)
EnterBlock ==
    /\ demod.pc = "enter"
    /\ busy' = TRUE
    /\ demod' = [demod EXCEPT !.pc = "check"]
    /\ UNCHANGED <<input, purge, output>>
    /\ DemodRest

(* Mutant: a block read before the purge is not given up.                  *)
CheckIgnoresPurge ==
    /\ demod.pc = "check"
    /\ busy' = ~in_progress
    /\ demod' = IF in_progress THEN Idle ELSE [demod EXCEPT !.pc = "emit"]
    /\ UNCHANGED <<input, purge, output>>
    /\ DemodRest

(* demod_prepare_iteration_input(): the block is given up if a retune has  *)
(* begun or asked for a purge.  Its several looks at the flag are one:     *)
(* once busy is seen, a retune waits.                                      *)
CheckBlock ==
    /\ demod.pc = "check"
    /\ busy' = ~(in_progress \/ purge)
    /\ demod' = IF in_progress \/ purge THEN Idle ELSE [demod EXCEPT !.pc = "emit"]
    /\ UNCHANGED <<input, purge, output>>
    /\ DemodRest

(* demod_emit_output_block(), demod_leave_processing_block()               *)
EmitBlock ==
    /\ demod.pc = "emit"
    /\ output' = IF in_progress THEN output ELSE output \cup demod.block
    /\ busy' = FALSE
    /\ demod' = Idle
    /\ UNCHANGED <<input, purge>>
    /\ DemodRest

DemodExits ==
    /\ demod.pc = "idle"
    /\ exit
    /\ demod' = [demod EXCEPT !.pc = "gone"]
    /\ UNCHANGED <<busy, input, purge, output>>
    /\ DemodRest

-----------------------------------------------------------------------------
(* The decoder's read: rtl_stream_read_live_available().                   *)

ReadRest == UNCHANGED <<setup, slotVars, doneVars, generation, in_progress, demodVars, hw, exit,
                        caller, ctl, stop, published, told>>

NoRead == [pc |-> "idle", gen |-> 0, got |-> {}]

(* The reader counts itself in; the gate it saw open may close meanwhile.  *)
ReadBegins ==
    /\ reader.pc = "idle"
    /\ caller[Decoder].pc = "idle"
    /\ ~exit
    /\ gate = 0
    /\ reading' = TRUE
    /\ reader' = [reader EXCEPT !.pc = "generation"]
    /\ UNCHANGED output
    /\ ReadRest

NoteGeneration ==
    /\ reader.pc = "generation"
    /\ reader' = [reader EXCEPT !.pc = "look", !.gen = generation]
    /\ UNCHANGED <<reading, output>>
    /\ ReadRest

LookAtGate ==
    /\ reader.pc = "look"
    /\ reader' = [reader EXCEPT !.pc = IF gate # 0 THEN "leave" ELSE "copy"]
    /\ UNCHANGED <<reading, output>>
    /\ ReadRest

(* ring_read_available(): the oldest samples, up to some setting's.        *)
Copy ==
    /\ reader.pc = "copy"
    /\ \/ /\ output = {}
          /\ reader' = [reader EXCEPT !.pc = "leave"]
          /\ UNCHANGED output
       \/ \E newest \in output :
            /\ reader' = [reader EXCEPT !.pc = "leave", !.got = {s \in output : s <= newest}]
            /\ output' = {s \in output : s >= newest}
    /\ UNCHANGED reading
    /\ ReadRest

Keep(ok) == IF ok THEN reader.got ELSE {}

(* The generation and the gate are compared, and the reader counts itself  *)
(* out.                                                                    *)
Leave ==
    /\ reader.pc = "leave"
    /\ reading' = FALSE
    /\ reader' = [reader EXCEPT !.pc = "gate", !.got = Keep(generation = reader.gen /\ gate = 0)]
    /\ UNCHANGED output
    /\ ReadRest

(* Once more after that: the gate, then the generation.                    *)
GateAgain ==
    /\ reader.pc = "gate"
    /\ reader' = [reader EXCEPT !.pc = "compare", !.got = Keep(gate = 0)]
    /\ UNCHANGED <<reading, output>>
    /\ ReadRest

HandsOver(samples) == IF samples = {} THEN NoRead ELSE [reader EXCEPT !.pc = "handed", !.got = samples]

(* Mutant: the samples are handed over without the last comparison.        *)
CompareNothing ==
    /\ reader.pc = "compare"
    /\ reader' = HandsOver(reader.got)
    /\ UNCHANGED <<reading, output>>
    /\ ReadRest

CompareAgain ==
    /\ reader.pc = "compare"
    /\ reader' = HandsOver(Keep(generation = reader.gen))
    /\ UNCHANGED <<reading, output>>
    /\ ReadRest

(* The decoder consumes the samples and reads or tunes next.               *)
Consume ==
    /\ reader.pc = "handed"
    /\ reader' = NoRead
    /\ UNCHANGED <<reading, output>>
    /\ ReadRest

-----------------------------------------------------------------------------
(* dsd_rtl_stream_soft_stop()                                              *)

StopRest == UNCHANGED <<setup, calls, tagged, request_id, reading, in_progress, demodVars, hw, output,
                        caller, ctl, reader, told>>

StopBegins ==
    /\ setup.stop
    /\ stop.pc = "running"
    /\ generation' = generation + 1
    /\ exit' = TRUE
    /\ stop' = [stop EXCEPT !.pc = "detach"]
    /\ UNCHANGED <<accepting, queued, doneVars, published>>
    /\ StopRest

(* Mutant: the retune still in the slot is dropped without an answer.      *)
DetachForgets ==
    /\ stop.pc = "detach"
    /\ accepting' = FALSE
    /\ queued' = 0
    /\ stop' = [pc |-> "join", call |-> 0, id |-> 0]
    /\ UNCHANGED <<doneVars, generation, exit, published>>
    /\ StopRest

(* controller_detach_queued_manual_retune()                                *)
Detach ==
    /\ stop.pc = "detach"
    /\ accepting' = FALSE
    /\ queued' = 0
    /\ stop' = [pc |-> "join", call |-> queued, id |-> IF queued = 0 THEN 0 ELSE request_id]
    /\ UNCHANGED <<doneVars, generation, exit, published>>
    /\ StopRest

Join ==
    /\ stop.pc = "join"
    /\ demod.pc = "gone"
    /\ ctl.pc = "gone"
    /\ stop' = [stop EXCEPT !.pc = IF stop.call = 0 THEN "stopped" ELSE "cancel"]
    /\ UNCHANGED <<accepting, queued, doneVars, generation, exit, published>>
    /\ StopRest

(* controller_finish_cancelled_manual_retune()                             *)
CancelPublish ==
    /\ stop.pc = "cancel"
    /\ PublishCompletion(stop.call, "FAILED")
    /\ stop' = [stop EXCEPT !.pc = "signal"]
    /\ UNCHANGED <<accepting, queued, doneVars, generation, exit>>
    /\ StopRest

CancelSignal ==
    /\ stop.pc = "signal"
    /\ SignalComplete("FAILED")
    /\ stop' = [stop EXCEPT !.pc = "stopped", !.call = 0]
    /\ UNCHANGED <<accepting, queued, generation, exit, published>>
    /\ StopRest

-----------------------------------------------------------------------------
Init ==
    /\ setup \in Setups
    /\ calls = 0 /\ tagged = {} /\ accepting = TRUE /\ queued = 0
    /\ request_id = 0 /\ complete_id = 0
    /\ slots = [i \in 0 .. Slots - 1 |-> [id |-> 0, result |-> "OK"]]
    /\ gate = 0 /\ done_m = "free" /\ generation = 1 /\ reading = FALSE
    /\ in_progress = FALSE /\ busy = FALSE /\ hold = FALSE /\ purge = FALSE
    /\ hw = 0 /\ input = {} /\ output = {} /\ exit = FALSE
    /\ caller = [c \in Callers |-> [pc |-> "idle", call |-> 0, id |-> 0, answer |-> "none"]]
    /\ ctl = NoWork
    /\ demod = Idle
    /\ reader = NoRead
    /\ stop = [pc |-> "running", call |-> 0, id |-> 0]
    /\ published = [k \in Calls |-> "none"]
    /\ applied = 0 /\ told = 0

CallerStep(c) ==
    \/ WaitAnswered(c) \/ WaitStopped(c) \/ WaitTimesOut(c) \/ Disown(c) \/ GiveUp(c)
    \/ \E isTagged \in BOOLEAN : Tune(c, isTagged)

CtlStep ==
    \/ Take \/ CtlExits \/ EnterGate \/ Park \/ ClearFirst("clear", "clear2")
    \/ ClearRing("clear2", "prepare") \/ PrepareInput
    \/ \E moved \in BOOLEAN, result \in Results : Program(moved, result)
    \/ Release \/ Drained \/ DrainTimesOut \/ ClearRing("drain2", "publish") \/ Publish \/ Signal

DemodStep ==
    \/ Purge \/ ReadBlock \/ EnterBlock \/ CheckBlock \/ EmitBlock \/ DemodExits

ReaderStep ==
    \/ ReadBegins \/ NoteGeneration \/ LookAtGate \/ Copy \/ Leave \/ GateAgain \/ CompareAgain
    \/ Consume

StopStep == Detach \/ Join \/ CancelPublish \/ CancelSignal

Next ==
    \/ \E c \in Callers : CallerStep(c)
    \/ Nudge \/ Capture \/ StopBegins
    \/ CtlStep \/ DemodStep \/ ReaderStep \/ StopStep

Spec == Init /\ [][Next]_vars

(* Every thread keeps running and finishes what it began; the device keeps *)
(* delivering.  Nothing forces a caller to ask, to time out before it is   *)
(* answered, or the stream to stop.                                        *)
Fairness ==
    /\ WF_vars(CtlStep) /\ WF_vars(DemodStep) /\ WF_vars(ReaderStep) /\ WF_vars(StopStep)
    /\ \A c \in Callers :
         WF_vars(WaitAnswered(c) \/ WaitStopped(c)) /\ WF_vars(Disown(c) \/ GiveUp(c))

FairSpec == Spec /\ Fairness

-----------------------------------------------------------------------------
(* Properties.                                                             *)

Settings == 0 .. MaxCalls

SlotStates == [id: 0 .. MaxCalls, result: Results]
CallerStates ==
    [pc: {"idle", "wait", "disown", "settle"}, call: 0 .. MaxCalls, id: 0 .. MaxCalls,
     answer: {"none", "missing", "stopped", "timeout"} \cup Results]
CtlStates ==
    [pc: {"idle", "enter", "park", "clear", "clear2", "prepare", "program", "release", "drain",
          "drain2", "publish", "signal", "gone"},
     work: 0 .. MaxCalls, moved: BOOLEAN, result: Results]
DemodStates == [pc: {"idle", "enter", "check", "emit", "gone"}, block: SUBSET Settings]
ReaderStates ==
    [pc: {"idle", "generation", "look", "copy", "leave", "gate", "compare", "handed"}, gen: Nat,
     got: SUBSET Settings]
StopStates ==
    [pc: {"running", "detach", "join", "cancel", "signal", "stopped"}, call: 0 .. MaxCalls,
     id: 0 .. MaxCalls]

(* Every variable keeps its type; request and completion ids stay within   *)
(* the number of calls, and the generation within its wrap-free range.     *)
TypeOK ==
    /\ setup \in Setups /\ calls \in 0 .. MaxCalls /\ tagged \subseteq Calls
    /\ accepting \in BOOLEAN /\ queued \in 0 .. MaxCalls
    /\ request_id \in 0 .. MaxCalls /\ complete_id \in 0 .. MaxCalls
    /\ slots \in [0 .. Slots - 1 -> SlotStates]
    /\ gate \in 0 .. MaxCalls /\ done_m \in Callers \cup {"free"}
    /\ generation \in Nat /\ reading \in BOOLEAN
    /\ in_progress \in BOOLEAN /\ busy \in BOOLEAN /\ hold \in BOOLEAN /\ purge \in BOOLEAN
    /\ hw \in Settings /\ input \subseteq Settings /\ output \subseteq Settings /\ exit \in BOOLEAN
    /\ caller \in [Callers -> CallerStates] /\ ctl \in CtlStates /\ demod \in DemodStates
    /\ reader \in ReaderStates /\ stop \in StopStates
    /\ published \in [Calls -> {"none"} \cup Results]
    /\ applied \in Settings /\ told \in Settings

(* Every request id is accounted for: completed, with the controller, in   *)
(* the slot, or detached by soft_stop().  A caller waits on an id by this  *)
(* count alone, so one retune too many or too few would answer it with     *)
(* another's result or never.                                              *)
One(k) == IF k = 0 THEN 0 ELSE 1
RequestsAccounted == request_id = complete_id + One(ctl.work) + One(queued) + One(stop.call)

(* The retune that soft_stop() cancels is the next to complete: what       *)
(* controller_finish_cancelled_manual_retune() logs as an error otherwise. *)
CancelledInOrder == stop.pc \in {"cancel", "signal"} => stop.id = complete_id + 1

(* Every request of a caller has one number and one completion, in order,  *)
(* whatever was replaced, refused or cancelled on the way.                 *)
RequestsInOrder == TypeOK /\ RequestsAccounted /\ CancelledInOrder

(* A caller that came with a token returns with the result the token's     *)
(* owner was given, and not before it was given.                           *)
AnsweredAsPublished ==
    \A c \in Callers :
      caller[c].answer \in Results /\ caller[c].call \in tagged
        => published[caller[c].call] = caller[c].answer

(* While the controller rewrites the demodulator the demodulator is not    *)
(* inside a block, unless the stream is being stopped.                     *)
DemodParked ==
    ctl.pc \in {"clear", "clear2", "prepare", "program", "release"} /\ ~exit
      => demod.pc # "emit"

Handover == reader.pc # "handed" /\ reader'.pc = "handed"

(* The decoder is never handed samples of a setting older than the one a   *)
(* tune call has already returned with, through two rings, a block in the  *)
(* demodulator and a copy in the reader.                                   *)
HandoverIsFresh == [][Handover /\ ~exit => \A s \in reader'.got : s >= told]_reader

(* From the moment a tune call returns TIMEOUT until its retune completes, *)
(* no samples are handed over, not even by a read that was already under   *)
(* way.                                                                    *)
TimedOutStaysSilent ==
    [][Handover => \A c \in Callers : caller[c].answer = "timeout" => caller[c].id <= complete_id]_reader

(* Every retune that was accepted completes, at soft_stop() too.           *)
EveryRequestCompletes == \A n \in Calls : request_id >= n ~> complete_id >= n

(* A read gate closed by a timeout is opened again.                        *)
GateReopens == gate # 0 ~> gate = 0

(* No retune is the last one: what was accepted completes and the reader   *)
(* is let in again, with soft_stop() at any point.                         *)
RetunesEnd == EveryRequestCompletes /\ GateReopens
=============================================================================
