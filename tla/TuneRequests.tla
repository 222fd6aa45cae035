---------------------------- MODULE TuneRequests ----------------------------
(***************************************************************************)
(* The ledger of tune requests and the frame gate                          *)
(* (src/src/runtime/trunk_tuning_hooks.c).                                 *)
(*                                                                         *)
(* A tune is a transaction between an OWNER (a trunking state machine on   *)
(* the decoder thread or on the P25 watchdog thread), which stages decoder *)
(* state for the new frequency, and the BACKEND (the SDR controller        *)
(* thread), which moves the hardware and publishes the outcome.  A bounded *)
(* history of records, guarded by a spinlock, keeps the half-finished      *)
(* transactions.  The decoder reads two atomics without the lock, the      *)
(* count of unresolved requests and the generation of completed tunes, to  *)
(* decide whether a frame collected earlier may still be dispatched.       *)
(*                                                                         *)
(* A critical section updates the records in one step, which only lock     *)
(* holders can see, and leaves its writes to the two atomics in adv and    *)
(* delta; these are then applied one atomic operation at a time while the  *)
(* lock is held, because the lock-free readers can run between any two.    *)
(***************************************************************************)
EXTENDS Integers, FiniteSets

CONSTANTS
    Owners,        \* the threads that issue tunes
    Decoder,       \* the decoder thread, also the one that dispatches frames
    History,       \* DSD_TRUNK_TUNING_REQUEST_HISTORY: records retained
    MaxRequests    \* bound: requests issued in a run

ASSUME OwnersAssumption == Decoder \in Owners /\ "backend" \notin Owners /\ "free" \notin Owners
ASSUME HistoryAssumption == History \in Nat \ {0}
ASSUME MaxRequestsAssumption == MaxRequests \in Nat

Ids == 1 .. MaxRequests

(* The five results fall in three classes: OK, still PENDING, and the      *)
(* failures DEFERRED, FAILED and TIMEOUT, which this layer treats alike.   *)
Terminal == {"OK", "FAILED"}
Results == Terminal \cup {"PENDING"}

RequestStates == {"FREE", "PENDING", "FAILED_GATED", "FINISHED"}

(* completed_m_ns, a timestamp for the callers' timers, is left out.       *)
Record == [state: RequestStates, result: Results, inherited: BOOLEAN,
           backend_complete: BOOLEAN, owner_ready: BOOLEAN, disowned: BOOLEAN]

FreeRecord == [state |-> "FREE", result |-> "OK", inherited |-> FALSE,
               backend_complete |-> FALSE, owner_ready |-> FALSE, disowned |-> FALSE]

VARIABLES
    rec,           \* rec[id]: the record holding request id, FREE when none does
    next_request,  \* g_trunk_tuning_next_request
    generation,    \* g_trunk_tuning_generation
    count,         \* g_trunk_tuning_unresolved_count
    lock,          \* g_trunk_tuning_request_lock: its holder, or "free"
    adv, delta,    \* the holder's writes to generation and count still to come
    pc, cur, ret,  \* each owner's place in a tune, its request, the backend's return
    staged,        \* requests an owner still tracks after its tune call returned
    inflight,      \* requests accepted by the backend and not answered yet
    ownerActive,   \* engine_trunk_tuning_owner_active()
    frame,         \* the decoder's frame: its captured generation and the check's progress
    committed,     \* history: requests that completed successfully
    owed           \* history: failures whose gate nothing has lifted yet

ledgerVars == <<rec, generation, count, lock, adv, delta, committed, owed>>
ownerVars == <<pc, cur, ret, staged, inflight>>
vars == <<ledgerVars, next_request, ownerVars, ownerActive, frame>>

-----------------------------------------------------------------------------
(* Reading the records.                                                    *)

InState(r, st) == {i \in Ids : r[i].state = st}
Unresolved == InState(rec, "PENDING") \cup InState(rec, "FAILED_GATED")
Retained == Ids \ InState(rec, "FREE")

(* dsd_trunk_tuning_request_status(): the result is withheld while the     *)
(* request is pending, and a request no longer retained reads as failed.   *)
Status(id) ==
    CASE rec[id].state = "FREE" -> "FAILED"
      [] rec[id].state = "PENDING" -> "PENDING"
      [] OTHER -> rec[id].result

(* An owner inside request_begin() has not seen its request id yet.        *)
Opened == {i \in Ids : ~ \E o \in Owners : cur[o] = i /\ pc[o] = "submit" /\ lock = o}

-----------------------------------------------------------------------------
(* Critical sections: what each leaves in the records and in the atomics.  *)

LeaveAtomics == adv' = 0 /\ delta' = 0 /\ UNCHANGED <<generation, count, lock>>

Hold(t, a, d) == adv' = a /\ delta' = d /\ lock' = t /\ UNCHANGED <<generation, count>>

Mark(r, S, st) == [i \in Ids |-> IF i \in S THEN [r[i] EXCEPT !.state = st] ELSE r[i]]

(* dsd_trunk_tuning_retire_failed_requests_locked()                        *)
OlderFailed(r, id) == {i \in InState(r, "FAILED_GATED") : i < id}

(* dsd_trunk_tuning_finish_success_locked(): one generation, one decrement *)
(* for the request and one for each older failure it replaces.             *)
FinishSuccess(t, r, id) ==
    /\ rec' = Mark(r, {id} \cup OlderFailed(r, id), "FINISHED")
    /\ Hold(t, 1, -(1 + Cardinality(OlderFailed(r, id))))
    /\ committed' = committed \cup {id}
    /\ owed' = {e \in owed : e > id}

(* Mutant: the rollback ignores an inherited gate.                         *)
RolledBackDropsInheritedGate(t, r, id) ==
    /\ owed' = owed \ {id}
    /\ rec' = Mark(r, {id}, "FINISHED")
    /\ Hold(t, 0, -1)
    /\ UNCHANGED committed

(* dsd_trunk_tuning_finish_rolled_back_locked(): a gate inherited from an  *)
(* evicted failure outlives the request's own rollback.                    *)
FinishRolledBack(t, r, id) ==
    /\ owed' = owed \ {id}
    /\ UNCHANGED committed
    /\ IF r[id].inherited
         THEN rec' = Mark(r, {id}, "FAILED_GATED") /\ LeaveAtomics
         ELSE rec' = Mark(r, {id}, "FINISHED") /\ Hold(t, 0, -1)

GateFailure(r, id) ==
    /\ rec' = Mark(r, {id}, "FAILED_GATED")
    /\ owed' = owed \cup {id}
    /\ LeaveAtomics
    /\ UNCHANGED committed

OnlyRecords(r) == rec' = r /\ LeaveAtomics /\ UNCHANGED <<committed, owed>>

(* Mutant: a late failure closes the gate of a request already resolved.   *)
PublishRegates(t, id, result) ==
    LET r == [rec EXCEPT ![id].result = result, ![id].backend_complete = TRUE] IN
    /\ lock = "free"
    /\ IF rec[id].state = "FINISHED" /\ result # "OK"
         THEN /\ rec' = Mark(r, {id}, "FAILED_GATED")
              /\ Hold(t, 0, 1)
              /\ UNCHANGED <<committed, owed>>
       ELSE IF rec[id].state # "PENDING" THEN OnlyRecords(rec)
       ELSE IF result = "OK"
         THEN IF rec[id].owner_ready THEN FinishSuccess(t, r, id) ELSE OnlyRecords(r)
         ELSE IF rec[id].disowned THEN FinishRolledBack(t, r, id) ELSE GateFailure(r, id)

(* dsd_trunk_tuning_request_publish()                                      *)
Publish(t, id, result) ==
    LET r == [rec EXCEPT ![id].result = result, ![id].backend_complete = TRUE] IN
    /\ lock = "free"
    /\ IF rec[id].state # "PENDING" THEN OnlyRecords(rec)
       ELSE IF result = "OK"
         THEN IF rec[id].owner_ready THEN FinishSuccess(t, r, id) ELSE OnlyRecords(r)
         ELSE IF rec[id].disowned THEN FinishRolledBack(t, r, id) ELSE GateFailure(r, id)

(* Mutant: a completion that came before the owner was ready is forgotten. *)
MarkReadyOnly(t, id) ==
    /\ lock = "free"
    /\ OnlyRecords(IF rec[id].state = "PENDING" THEN [rec EXCEPT ![id].owner_ready = TRUE] ELSE rec)

(* dsd_trunk_tuning_request_mark_ready()                                   *)
MarkReady(t, id) ==
    LET r == [rec EXCEPT ![id].owner_ready = TRUE] IN
    /\ lock = "free"
    /\ IF rec[id].state # "PENDING" THEN OnlyRecords(rec)
       ELSE IF rec[id].backend_complete /\ rec[id].result = "OK"
         THEN FinishSuccess(t, r, id)
         ELSE OnlyRecords(r)

(* dsd_trunk_tuning_request_complete(): the owner's verdict.  Hardware and *)
(* decoder must agree; when they do not, the gate stays closed.            *)
Complete(t, id, result) ==
    LET r == [rec EXCEPT ![id].owner_ready = TRUE]
        first == [r EXCEPT ![id].result = result, ![id].backend_complete = TRUE]
        backendOk == rec[id].result = "OK"
        ownerOk == result = "OK" IN
    /\ lock = "free"
    /\ CASE rec[id].state \in {"FREE", "FINISHED"} -> OnlyRecords(rec)
         [] rec[id].state = "FAILED_GATED" ->
              IF ownerOk THEN OnlyRecords(r) ELSE FinishRolledBack(t, r, id)
         [] rec[id].state = "PENDING" /\ ~rec[id].backend_complete ->
              IF ownerOk THEN FinishSuccess(t, first, id) ELSE FinishRolledBack(t, first, id)
         [] rec[id].state = "PENDING" /\ rec[id].backend_complete ->
              IF backendOk /\ ownerOk THEN FinishSuccess(t, r, id)
              ELSE IF ~backendOk /\ ~ownerOk THEN FinishRolledBack(t, r, id)
              ELSE GateFailure(IF ownerOk THEN r ELSE [r EXCEPT ![id].result = result], id)

(* Mutant: letting go of a request already resolved publishes it again.    *)
DisownAgain(t, id) ==
    LET r == [rec EXCEPT ![id].disowned = TRUE, ![id].owner_ready = TRUE] IN
    /\ lock = "free"
    /\ CASE rec[id].state \in {"PENDING", "FINISHED"} ->
              IF rec[id].backend_complete /\ rec[id].result = "OK"
                THEN FinishSuccess(t, r, id) ELSE OnlyRecords(r)
         [] rec[id].state = "FAILED_GATED" -> FinishRolledBack(t, rec, id)
         [] OTHER -> OnlyRecords(rec)

(* dsd_trunk_tuning_request_disown()                                       *)
Disown(t, id) ==
    LET r == [rec EXCEPT ![id].disowned = TRUE, ![id].owner_ready = TRUE] IN
    /\ lock = "free"
    /\ CASE rec[id].state = "PENDING" ->
              IF rec[id].backend_complete /\ rec[id].result = "OK"
                THEN FinishSuccess(t, r, id) ELSE OnlyRecords(r)
         [] rec[id].state = "FAILED_GATED" -> FinishRolledBack(t, rec, id)
         [] OTHER -> OnlyRecords(rec)

(* The lock holder's atomic operations, in program order: the generation   *)
(* first, then the count, one unit at a time; the last releases the lock.  *)
ApplyAdvance ==
    /\ adv = 1
    /\ generation' = generation + 1
    /\ adv' = 0
    /\ lock' = IF delta = 0 THEN "free" ELSE lock
    /\ UNCHANGED <<rec, count, delta, committed, owed, next_request, ownerVars, ownerActive, frame>>

(* Mutant: the count may reopen the gate before the generation moves on.   *)
ApplyCountFirst ==
    LET unit == IF delta > 0 THEN 1 ELSE -1 IN
    /\ delta # 0
    /\ count' = count + unit
    /\ delta' = delta - unit
    /\ lock' = IF delta = unit /\ adv = 0 THEN "free" ELSE lock
    /\ UNCHANGED <<rec, generation, adv, committed, owed, next_request, ownerVars, ownerActive, frame>>

ApplyCount ==
    LET unit == IF delta > 0 THEN 1 ELSE -1 IN
    /\ adv = 0
    /\ delta # 0
    /\ count' = count + unit
    /\ delta' = delta - unit
    /\ lock' = IF delta = unit /\ adv = 0 THEN "free" ELSE lock
    /\ UNCHANGED <<rec, generation, adv, committed, owed, next_request, ownerVars, ownerActive, frame>>

-----------------------------------------------------------------------------
(* Owners.  The decoder thread issues tunes between frames, never during a *)
(* frame's check; other owners interleave freely.                          *)

Runs(o) == lock # o /\ (o = Decoder => frame.pc \in {"none", "captured"})

(* request_begin(), before the lock: the id is taken first.                *)
FetchId(o) ==
    /\ Runs(o)
    /\ pc[o] = "idle"
    /\ next_request < MaxRequests
    /\ next_request' = next_request + 1
    /\ cur' = [cur EXCEPT ![o] = next_request + 1]
    /\ pc' = [pc EXCEPT ![o] = "begin"]
    /\ UNCHANGED <<ledgerVars, ret, staged, inflight, ownerActive, frame>>

NewRecord(inherit) ==
    [FreeRecord EXCEPT !.state = "PENDING", !.result = "PENDING", !.inherited = inherit]

(* dsd_trunk_tuning_request_slot_locked(): the record given up for a new   *)
(* request, none when a slot is free, else the oldest finished one, else   *)
(* the oldest failure, whose closed gate the new record then inherits.     *)
Oldest(S) == {i \in S : \A j \in S : i <= j}

HasFreeSlot == Cardinality(Retained) < History

Victims ==
    IF HasFreeSlot THEN {{}}
    ELSE IF InState(rec, "FINISHED") # {} THEN {{v} : v \in Oldest(InState(rec, "FINISHED"))}
    ELSE {{v} : v \in Oldest(InState(rec, "FAILED_GATED"))}

(* Mutant: a request that inherits a gate is counted a second time.        *)
BeginCountsTwice(o) ==
    \E victim \in Victims :
      LET inherit == \E v \in victim : rec[v].state = "FAILED_GATED"
          kept == [i \in Ids |-> IF i \in victim THEN FreeRecord ELSE rec[i]] IN
      /\ Runs(o)
      /\ pc[o] = "begin"
      /\ lock = "free"
      /\ rec' = [kept EXCEPT ![cur[o]] = NewRecord(inherit)]
      /\ Hold(o, 0, 1)
      /\ pc' = [pc EXCEPT ![o] = "submit"]
      /\ UNCHANGED <<committed, owed, next_request, cur, ret, staged, inflight, ownerActive, frame>>

(* Two owners may begin in the other order than their ids.  A success      *)
(* lifts the gates of older ids only, so a failure whose gate an older     *)
(* request inherits is no longer owed to anybody.                          *)
Begin(o) ==
    \E victim \in Victims :
      LET inherit == \E v \in victim : rec[v].state = "FAILED_GATED"
          kept == [i \in Ids |-> IF i \in victim THEN FreeRecord ELSE rec[i]] IN
      /\ Runs(o)
      /\ pc[o] = "begin"
      /\ lock = "free"
      /\ rec' = [kept EXCEPT ![cur[o]] = NewRecord(inherit)]
      /\ IF inherit THEN LeaveAtomics ELSE Hold(o, 0, 1)
      /\ pc' = [pc EXCEPT ![o] = "submit"]
      /\ owed' = IF inherit /\ \E v \in victim : v > cur[o] THEN {e \in owed : kept[e].state # "FREE"} ELSE owed
      /\ UNCHANGED <<committed, next_request, cur, ret, staged, inflight, ownerActive, frame>>

(* Every record is in flight: request_begin() returns 0 and no tune is     *)
(* made; the id is spent.                                                  *)
BeginRefused(o) ==
    /\ Runs(o)
    /\ pc[o] = "begin"
    /\ lock = "free"
    /\ ~HasFreeSlot
    /\ \A i \in Retained : rec[i].state = "PENDING"
    /\ pc' = [pc EXCEPT ![o] = "idle"]
    /\ cur' = [cur EXCEPT ![o] = 0]
    /\ UNCHANGED <<ledgerVars, next_request, ret, staged, inflight, ownerActive, frame>>

(* A backend that answers in the call (rigctl), or refuses it: the owner   *)
(* completes with the returned result.                                     *)
SubmitDirect(o, result) ==
    /\ Runs(o)
    /\ pc[o] = "submit"
    /\ pc' = [pc EXCEPT ![o] = "return"]
    /\ ret' = [ret EXCEPT ![o] = result]
    /\ UNCHANGED <<ledgerVars, next_request, cur, staged, inflight, ownerActive, frame>>

(* dsd_engine_scan_tune_failed(): a rigctl leg may have moved before the   *)
(* SDR leg failed, so the scanner first publishes OK in the backend's name *)
(* and then completes with the failure.                                    *)
SubmitHalf(o) ==
    /\ Runs(o)
    /\ o = Decoder
    /\ pc[o] = "submit"
    /\ Publish(o, cur[o], "OK")
    /\ pc' = [pc EXCEPT ![o] = "return"]
    /\ ret' = [ret EXCEPT ![o] = "FAILED"]
    /\ UNCHANGED <<next_request, cur, staged, inflight, ownerActive, frame>>

(* The SDR controller accepts the tagged request and the caller waits.     *)
SubmitTagged(o) ==
    /\ Runs(o)
    /\ pc[o] = "submit"
    /\ pc' = [pc EXCEPT ![o] = "wait"]
    /\ inflight' = inflight \cup {cur[o]}
    /\ UNCHANGED <<ledgerVars, next_request, cur, ret, staged, ownerActive, frame>>

(* The wait ends with the controller's answer, or at its time limit with   *)
(* the request still the controller's.                                     *)
WaitEnds(o) ==
    /\ Runs(o)
    /\ pc[o] = "wait"
    /\ pc' = [pc EXCEPT ![o] = "return"]
    /\ UNCHANGED <<ledgerVars, next_request, cur, ret, staged, inflight, ownerActive, frame>>

(* dsd_trunk_tuning_note_result(), and its copies in engine.c and          *)
(* trunk_tuning.c.  A tune still in flight stays with its owner.           *)
NoteResult(o) ==
    /\ Runs(o)
    /\ pc[o] = "return"
    /\ \/ /\ ret[o] = "PENDING"
          /\ MarkReady(o, cur[o])
          /\ staged' = staged \cup {cur[o]}
       \/ /\ ret[o] # "PENDING"
          /\ Complete(o, cur[o], ret[o])
          /\ UNCHANGED staged
    /\ pc' = [pc EXCEPT ![o] = "idle"]
    /\ cur' = [cur EXCEPT ![o] = 0]
    /\ ret' = [ret EXCEPT ![o] = "PENDING"]
    /\ UNCHANGED <<next_request, inflight, ownerActive, frame>>

(* What an owner does with a tune it still tracks: it expires it at its    *)
(* deadline (nxdn_cc_hunt_resolve(), dmr_trunk_sm.c), rolls a failure back *)
(* and completes it (tetra_trunk_sm.c), drops an answered one, or disowns  *)
(* it.  The answer may arrive between its look at the status and the call. *)
Tracks(o, id) == Runs(o) /\ pc[o] = "idle" /\ id \in staged

OwnerRest == UNCHANGED <<next_request, pc, cur, ret, inflight, ownerActive, frame>>

Expire(o, id) == Tracks(o, id) /\ Publish(o, id, "FAILED") /\ UNCHANGED staged /\ OwnerRest

RollBack(o, id) ==
    /\ Tracks(o, id)
    /\ Status(id) = "FAILED"
    /\ Complete(o, id, "FAILED")
    /\ staged' = staged \ {id}
    /\ OwnerRest

Drop(o, id) ==
    /\ Tracks(o, id)
    /\ Status(id) # "PENDING"
    /\ staged' = staged \ {id}
    /\ UNCHANGED ledgerVars
    /\ OwnerRest

LetGo(o, id) == Tracks(o, id) /\ Disown(o, id) /\ staged' = staged \ {id} /\ OwnerRest

(* dsd_engine_rtl_tune_completion(), on the controller thread: published   *)
(* first, then signalled to the waiting caller.  The order in which the    *)
(* backend answers is not assumed.                                         *)
BackendCompletes(id, result) ==
    /\ id \in inflight
    /\ Publish("backend", id, result)
    /\ inflight' = inflight \ {id}
    /\ ret' = [o \in Owners |-> IF pc[o] = "wait" /\ cur[o] = id THEN result ELSE ret[o]]
    /\ UNCHANGED <<next_request, pc, cur, staged, ownerActive, frame>>

(* Mutant: the reset takes every record off the count, resolved or not.    *)
ResetSubtracts ==
    /\ Runs(Decoder)
    /\ pc[Decoder] = "idle"
    /\ lock = "free"
    /\ rec' = [i \in Ids |-> FreeRecord]
    /\ count' = count - Cardinality(Retained)
    /\ owed' = {}
    /\ UNCHANGED <<generation, lock, adv, delta, committed, next_request, ownerVars, ownerActive, frame>>

(* dsd_trunk_tuning_requests_reset(), by the decoder thread when the input *)
(* is replaced.                                                            *)
Reset ==
    /\ Runs(Decoder)
    /\ pc[Decoder] = "idle"
    /\ lock = "free"
    /\ rec' = [i \in Ids |-> FreeRecord]
    /\ count' = 0
    /\ owed' = {}
    /\ UNCHANGED <<generation, lock, adv, delta, committed, next_request, ownerVars, ownerActive, frame>>

(* Trunking, scanning or a search is switched on or off.                   *)
ToggleOwner ==
    /\ Runs(Decoder)
    /\ pc[Decoder] = "idle"
    /\ ownerActive' = ~ownerActive
    /\ UNCHANGED <<ledgerVars, next_request, ownerVars, frame>>

-----------------------------------------------------------------------------
(* The decoder's frame.  Its generation is captured before the sync        *)
(* search; live_scanner_dispatch_synced_frame_locked() checks it, retires  *)
(* failures nobody owns if the check fails, and checks it again.           *)

FrameRest == UNCHANGED <<ledgerVars, next_request, ownerVars, ownerActive>>

Frames == [pc: {"none", "captured", "count1", "gen1", "count2", "gen2", "inspect", "status",
                "retire", "admitted"},
           gen: Nat, pass: {1, 2}, clear: BOOLEAN, upto: 0 .. MaxRequests]

NoFrame == [pc |-> "none", gen |-> 0, pass |-> 1, clear |-> FALSE, upto |-> 0]

Capture ==
    /\ frame.pc = "none"
    /\ pc[Decoder] = "idle"
    /\ lock # Decoder
    /\ frame' = [frame EXCEPT !.pc = "captured", !.gen = generation]
    /\ FrameRest

CheckBegins ==
    /\ frame.pc = "captured"
    /\ pc[Decoder] = "idle"
    /\ lock # Decoder
    /\ frame' = [frame EXCEPT !.pc = "count1"]
    /\ FrameRest

AfterCheck(ok) ==
    IF frame.pass = 1
      THEN [frame EXCEPT !.pass = 2, !.pc = IF ok THEN "count1" ELSE "inspect"]
      ELSE IF ok THEN [frame EXCEPT !.pc = "admitted"] ELSE NoFrame

(* dsd_trunk_tuning_frame_is_current(): four atomic loads, any of which    *)
(* ends the check.  clear is history: whether at the second look at the    *)
(* count no opened request was unresolved and no tune had completed since  *)
(* the frame's generation was captured.                                    *)
ReadCount1 ==
    /\ frame.pc = "count1"
    /\ frame' = IF count # 0 THEN AfterCheck(FALSE) ELSE [frame EXCEPT !.pc = "gen1"]
    /\ FrameRest

ReadGeneration1 ==
    /\ frame.pc = "gen1"
    /\ frame' = IF frame.gen # generation THEN AfterCheck(FALSE) ELSE [frame EXCEPT !.pc = "count2"]
    /\ FrameRest

ReadCount2 ==
    /\ frame.pc = "count2"
    /\ frame' = IF count # 0 THEN AfterCheck(FALSE)
                ELSE [frame EXCEPT !.pc = "gen2",
                        !.clear = /\ Opened \cap Unresolved = {}
                                  /\ frame.gen = 1 + Cardinality(committed)]
    /\ FrameRest

ReadGeneration2 ==
    /\ frame.pc = "gen2"
    /\ frame' = AfterCheck(frame.gen = generation)
    /\ FrameRest

(* processFrame(), then the next sync search.                              *)
Dispatch == frame.pc = "admitted" /\ frame' = NoFrame /\ FrameRest

(* dsd_engine_retire_inactive_tune_failures(): the newest unresolved       *)
(* request, then its status, then the retirement, each with the lock of    *)
(* its own.                                                                *)
Inspect ==
    /\ frame.pc = "inspect"
    /\ \/ /\ ownerActive
          /\ frame' = [frame EXCEPT !.pc = "count1"]
       \/ /\ ~ownerActive
          /\ lock = "free"
          /\ Unresolved = {}
          /\ frame' = [frame EXCEPT !.pc = "count1"]
       \/ /\ ~ownerActive
          /\ lock = "free"
          /\ \E newest \in Unresolved :
               /\ \A i \in Unresolved : i <= newest
               /\ frame' = [frame EXCEPT !.pc = "status", !.upto = newest]
    /\ FrameRest

InspectStatus ==
    /\ frame.pc = "status"
    /\ lock = "free"
    /\ frame' = [frame EXCEPT !.pc = "retire",
                   !.upto = IF Status(frame.upto) = "PENDING" THEN @ - 1 ELSE @]
    /\ FrameRest

(* dsd_trunk_tuning_retire_failed_requests_through()                       *)
RetireThrough ==
    LET retired == {i \in InState(rec, "FAILED_GATED") : i <= frame.upto} IN
    /\ frame.pc = "retire"
    /\ frame' = [frame EXCEPT !.pc = "count1", !.upto = 0]
    /\ \/ /\ frame.upto = 0 \/ count = 0
          /\ UNCHANGED ledgerVars
       \/ /\ frame.upto # 0 /\ count # 0
          /\ lock = "free"
          /\ rec' = Mark(rec, retired, "FINISHED")
          /\ owed' = {e \in owed : e > frame.upto}
          /\ IF retired = {} THEN LeaveAtomics ELSE Hold(Decoder, 0, -Cardinality(retired))
          /\ UNCHANGED committed
    /\ UNCHANGED <<next_request, ownerVars, ownerActive>>

-----------------------------------------------------------------------------
Init ==
    /\ rec = [i \in Ids |-> FreeRecord]
    /\ next_request = 0
    /\ generation = 1
    /\ count = 0
    /\ lock = "free"
    /\ adv = 0
    /\ delta = 0
    /\ pc = [o \in Owners |-> "idle"]
    /\ cur = [o \in Owners |-> 0]
    /\ ret = [o \in Owners |-> "PENDING"]
    /\ staged = {}
    /\ inflight = {}
    /\ ownerActive \in BOOLEAN
    /\ frame = NoFrame
    /\ committed = {}
    /\ owed = {}

OwnerStep(o) ==
    \/ FetchId(o) \/ Begin(o) \/ BeginRefused(o)
    \/ \E result \in Terminal : SubmitDirect(o, result)
    \/ SubmitHalf(o) \/ SubmitTagged(o) \/ WaitEnds(o) \/ NoteResult(o)
    \/ \E id \in Ids : Expire(o, id) \/ RollBack(o, id) \/ Drop(o, id) \/ LetGo(o, id)

LockStep == ApplyAdvance \/ ApplyCount

FrameStep ==
    \/ Capture \/ CheckBegins \/ Dispatch
    \/ ReadCount1 \/ ReadGeneration1 \/ ReadCount2 \/ ReadGeneration2
    \/ Inspect \/ InspectStatus \/ RetireThrough

Next ==
    \/ \E o \in Owners : OwnerStep(o)
    \/ \E id \in Ids, result \in Terminal : BackendCompletes(id, result)
    \/ LockStep \/ FrameStep \/ Reset \/ ToggleOwner

Spec == Init /\ [][Next]_vars

(* The lock holder finishes its section, an owner its tune call, and the   *)
(* controller every request it accepted (it publishes on every path,       *)
(* cancellation at shutdown included); the decoder finishes a check it     *)
(* began.  Nothing forces a new tune, a deadline or a reset.               *)
Fairness ==
    /\ WF_vars(LockStep)
    /\ WF_vars(FrameStep)
    /\ \A o \in Owners :
         /\ WF_vars(Begin(o) \/ BeginRefused(o))
         /\ WF_vars(SubmitTagged(o) \/ \E result \in Terminal : SubmitDirect(o, result))
         /\ WF_vars(WaitEnds(o))
         /\ WF_vars(NoteResult(o))
    /\ \A id \in Ids : WF_vars(\E result \in Terminal : BackendCompletes(id, result))

FairSpec == Spec /\ Fairness

-----------------------------------------------------------------------------
(* Properties.                                                             *)

(* Every variable keeps its type; in particular the counter of unresolved  *)
(* requests never goes negative, which would close the gate for good.      *)
TypeOK ==
    /\ rec \in [Ids -> Record]
    /\ next_request \in 0 .. MaxRequests
    /\ generation \in Nat
    /\ count \in Nat
    /\ lock \in Owners \cup {"backend", "free"}
    /\ adv \in {0, 1}
    /\ delta \in Int
    /\ pc \in [Owners -> {"idle", "begin", "submit", "wait", "return"}]
    /\ cur \in [Owners -> 0 .. MaxRequests]
    /\ ret \in [Owners -> Results]
    /\ staged \subseteq Ids
    /\ inflight \subseteq Ids
    /\ ownerActive \in BOOLEAN
    /\ frame \in Frames
    /\ committed \subseteq Ids
    /\ owed \subseteq Ids

(* The unresolved counter, with the lock holder's outstanding writes, is   *)
(* the number of unresolved records: bounded-history eviction, inherited   *)
(* gates, rollbacks, retirements and resets all keep the two in step.      *)
CountMatchesLedger == count + delta = Cardinality(Unresolved)

(* The generation counts the completed tunes: each is published exactly    *)
(* once, whichever of owner and backend finishes second, and a duplicate,  *)
(* late or expired completion publishes nothing.                           *)
GenerationCountsCommits == generation + adv = 1 + Cardinality(committed)

(* A frame is dispatched only if, at one instant of the lock-free check,   *)
(* every tune whose request_begin() had returned was resolved and no tune  *)
(* had completed since the frame's generation was captured.                *)
DispatchedFrameIsCurrent == frame.pc = "admitted" => frame.clear

(* A failure that nothing has rolled back, retired or replaced by a        *)
(* successful tune, newer or heir to its gate, keeps the frame gate        *)
(* closed, even after the bounded history has evicted its record.          *)
UnrecoveredFailureKeepsGate == owed # {} => count > 0

(* A resolved request stays resolved until its record is given up: a late  *)
(* completion, expiry or rollback cannot put it back in flight.            *)
ResolvedStaysResolved ==
    [][\A id \in Ids : rec[id].state = "FINISHED" => rec'[id].state \in {"FINISHED", "FREE"}]_rec

(* Every request leaves the in-flight state, whichever of the owner's      *)
(* readiness and the backend's completion comes first.                     *)
InFlightSettles == \A id \in Ids : rec[id].state = "PENDING" ~> rec[id].state # "PENDING"

=============================================================================
