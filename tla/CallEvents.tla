----------------------------- MODULE CallEvents -----------------------------
(***************************************************************************)
(* One slot's canonical call (core/util/call_state.c) and the event layer  *)
(* that turns it into history rows and audible alerts                      *)
(* (core/util/dsd_events.c).                                               *)
(*                                                                         *)
(* Decoders observe and end calls; every observation that is not a         *)
(* continuation opens a new epoch.  A fade splits one transmission into    *)
(* several epochs, which the event layer must fold back into one row with  *)
(* one start and one end alert, while rows are pushed deeper by unrelated  *)
(* others, cleared by the operator and swapped by the trunk scanner.      *)
(*                                                                         *)
(* Everything below runs under the call-state lock, so each operation is   *)
(* one step, composed of functions from slot state to slot state named     *)
(* after the routines they stand for.  A row is abstracted to who it names *)
(* and to the epochs whose content it holds.  Left out: the row an option  *)
(* file stages directly before any call (promotes_current and the          *)
(* explicit-data row), rendering, log files and WAV rotation.              *)
(***************************************************************************)
EXTENDS Naturals, Sequences, FiniteSets, SequencesExt

CONSTANTS None,      \* no identity decoded
          Services   \* the services a behaviour may be of

(* A service: the identities of its voice and data calls, what the receive *)
(* policy may say of a call, whether the trunk scanner swaps contexts, the *)
(* rows a history keeps below the staged one (DSD_EVENT_HISTORY_LEN - 1),  *)
(* and two bounds: epochs observed, and notices, resets and hops.          *)
ASSUME ServicesAssumption ==
    \A s \in Services :
        /\ s.voice \cap s.data = {} /\ None \notin s.voice \cup s.data
        /\ s.verdicts \subseteq {"admit", "check", "reject"} /\ s.scanning \in BOOLEAN
        /\ s.epochs \in Nat \ {0} /\ s.rows \in Nat \ {0} /\ s.others \in Nat

Reasons == {"explicit", "loss", "terminator", "unverified"}

VARIABLES
    service,  \* the service this behaviour is of, which never changes
    slot,     \* the slot's call, event lifecycle, rows and alerts
    parked,   \* the call, lifecycle and staged row of the other scan target
    others,   \* notices of other calls, resets and hops, up to the bound
    shut,     \* has the engine flushed its alerts at shutdown?
    root,     \* history: the first epoch of the transmission each epoch is of
    shown,    \* history: epochs rendered under a name and not deleted since
    deleted,  \* history: epochs already over when the operator cleared history
    unnoted   \* history: epochs locked out whose notice reached no row

vars == <<service, slot, parked, others, shut, root, shown, deleted, unnoted>>
history == <<root, shown, deleted, unnoted>>

VoiceIds == service.voice
DataIds == service.data
Ids == VoiceIds \cup DataIds
Verdicts == service.verdicts
MaxEpochs == service.epochs
Epochs == 1 .. MaxEpochs
RowsKept == service.rows
MaxOthers == service.others

Recoverable(reason) == reason \in {"loss", "unverified"}
Terminator(reason) == reason \in {"terminator", "unverified"}
KindOf(who) == IF who \in DataIds THEN "data" ELSE "voice"

BlankRow == [kind |-> "blank", who |-> None, of |-> {}, detail |-> {}]
NoCall == [epoch |-> 0, phase |-> "none", who |-> None, kind |-> "voice",
           reason |-> "explicit", media |-> FALSE, verdict |-> "admit"]
NoEnv == [named |-> FALSE, media |-> FALSE, positive |-> FALSE]
NoNotice == [epoch |-> 0, who |-> None]
NewLife == [epoch |-> 0, reacq |-> 0, from |-> 0,
            cEpoch |-> 0, cSeq |-> 0, valid |-> FALSE, done |-> FALSE,
            endHeld |-> FALSE, endDue |-> 0, startHeld |-> FALSE,
            dropHeld |-> FALSE, dropDue |-> 0, env |-> NoEnv,
            notice |-> NoNotice]

(* The slot.  age is the time since the latest end in classes that the two *)
(* reacquisition gaps tell apart: 0 is inside both, 1 inside the longer    *)
(* only, 2 outside both.  alerts and reached are histories: what was       *)
(* heard, and the epochs whose rows were committed.                        *)
Init ==
    /\ service \in Services
    /\ slot = [call |-> NoCall, seq |-> 0, age |-> 2, life |-> NewLife,
               staged |-> BlankRow, rows |-> <<>>, pushes |-> 0, alerts |-> <<>>,
               reached |-> {}]
    /\ parked = [call |-> NoCall, life |-> NewLife, staged |-> BlankRow]
    /\ others = 0 /\ shut = FALSE
    /\ root = [e \in Epochs |-> e]
    /\ shown = {} /\ deleted = {} /\ unnoted = {}

(* dsd_call_state_end_reason_reacquire_gap_s(): 0.25 s after a terminator  *)
(* that failed verification, 0.5 s after a sync loss.                      *)
Gap(reason) == IF reason = "unverified" THEN 1 ELSE 2

-----------------------------------------------------------------------------
(* The alerts an operator hears, START and END of a transmission.          *)
Beep(s, what, epoch) == [s EXCEPT !.alerts = Append(@, <<what, epoch>>)]

BeepEnd(s, kind, epoch) == IF kind = "data" THEN s ELSE Beep(s, "END", epoch)

(* push_event_history(): row 0 is copied to row 1 and stays staged.        *)
Push(s, row) == [s EXCEPT !.rows = SubSeq(<<row>> \o @, 1,
                                          IF Len(@) < RowsKept THEN Len(@) + 1 ELSE RowsKept),
                          !.pushes = @ + 1]

(* Mutant: the committed row is always the newest one, whatever was        *)
(* pushed since.                                                           *)
CommittedIndexNewest(s) == IF s.life.valid THEN 1 ELSE 0

(* watchdog_event_committed_row_index().                                   *)
CommittedIndex(s) ==
    LET depth == 1 + s.pushes - s.life.cSeq
    IN  IF s.life.valid /\ s.pushes >= s.life.cSeq /\ depth <= RowsKept
        THEN depth ELSE 0

HasContent(row) == row.kind # "blank" \/ row.detail # {}

(* watchdog_event_voice_row_is_identityless().                             *)
Identityless(row) == row.kind = "voice" /\ row.who = None /\ row.detail = {}

(* watchdog_event_staged_epoch_vouches().                                  *)
Vouches(env) == env.named \/ (env.media /\ env.positive)

(* watchdog_event_staged_row_merges().                                     *)
MergesInto(s, index) ==
    /\ s.life.epoch # 0 /\ s.life.reacq = s.life.epoch
    /\ s.life.valid /\ s.life.cEpoch \in {s.life.from, s.life.epoch}
    /\ index # 0
    /\ s.staged.kind = "voice" /\ s.rows[index].kind = "voice"

(* watchdog_event_merge_staged_into(): identity fills in, detail adds up.  *)
Fold(kept, row) ==
    [kept EXCEPT !.who = IF @ = None THEN row.who ELSE @,
                 !.of = @ \cup row.of, !.detail = @ \cup row.detail]

(* watchdog_event_retire_staged_row().                                     *)
Retire(s, end, alert) ==
    LET t == [s EXCEPT !.staged = BlankRow]
    IN  IF alert /\ end = "final" THEN BeepEnd(t, s.staged.kind, s.life.epoch) ELSE t

Drops(s) == Identityless(s.staged) /\ ~Vouches(s.life.env)

(* watchdog_event_commit_staged_row(): drop a row nothing vouches for,     *)
(* fold it into the row of the transmission it resumes, or push it.        *)
Commit(s, end) ==
    LET index == CommittedIndex(s)
    IN  IF Drops(s) THEN Retire(s, end, FALSE)
        ELSE IF MergesInto(s, index)
        THEN Retire([s EXCEPT !.rows[index] = Fold(@, s.staged),
                              !.reached = @ \cup s.staged.of,
                              !.life.cEpoch = s.life.epoch], end, TRUE)
        ELSE Retire([Push(s, s.staged) EXCEPT !.reached = @ \cup s.staged.of,
                                              !.life.cSeq = s.pushes + 1,
                                              !.life.cEpoch = s.life.epoch,
                                              !.life.valid = TRUE], end, TRUE)

(* watchdog_event_flush_pending_end_alert().                               *)
Flush(s, force) ==
    IF s.life.endHeld /\ (force \/ s.age >= s.life.endDue)
    THEN Beep([s EXCEPT !.life.endHeld = FALSE, !.life.endDue = 0], "END", s.life.epoch)
    ELSE s

(* watchdog_event_call_is_authoritative().                                 *)
Authoritative(s) ==
    /\ s.call.epoch # 0
    /\ \/ s.call.phase = "active"
       \/ s.call.phase = "ended" /\ (s.life.epoch # s.call.epoch \/ ~s.life.done)

(* watchdog_event_admitted_start_alert(): the start a receive check        *)
(* withheld.                                                               *)
AdmittedStart(s) ==
    IF ~s.life.startHeld \/ s.call.verdict = "check" THEN s
    ELSE LET t == [s EXCEPT !.life.startHeld = FALSE]
         IN  IF s.call.phase = "active" /\ s.call.verdict # "reject"
             THEN Beep(t, "START", s.call.epoch) ELSE t

(* The START alert a newly opened epoch sounds, now or once admitted.      *)
StartAlert(s, reacquired) ==
    LET due == s.call.phase = "active" /\ s.call.kind # "data" /\ ~reacquired
        t == [s EXCEPT !.life.startHeld = due /\ s.call.verdict = "check"]
    IN  IF due /\ s.call.verdict = "admit" THEN Beep(t, "START", s.call.epoch) ELSE t

(* Mutant: a reacquired segment announces itself like a new call.          *)
OpenEpochAnnounces(s) ==
    IF s.life.epoch = s.call.epoch THEN AdmittedStart(s)
    ELSE LET t == IF HasContent(s.staged) THEN Commit(s, "final") ELSE s
             u == Flush(t, TRUE)
         IN  StartAlert([u EXCEPT !.life.epoch = s.call.epoch, !.life.done = FALSE,
                                  !.life.dropHeld = FALSE, !.life.dropDue = 0,
                                  !.life.env = NoEnv,
                                  !.life.notice = NoNotice], FALSE)

(* watchdog_event_history_authoritative(): the outgoing epoch's staged row *)
(* is resolved under its own lifecycle before the new epoch takes over.    *)
OpenEpoch(s) ==
    IF s.life.epoch = s.call.epoch THEN AdmittedStart(s)
    ELSE LET t == IF HasContent(s.staged) THEN Commit(s, "final") ELSE s
             reacquired == s.life.reacq = s.call.epoch
             u == IF reacquired THEN [t EXCEPT !.life.endHeld = FALSE, !.life.endDue = 0] ELSE Flush(t, TRUE)
         IN  StartAlert([u EXCEPT !.life.epoch = s.call.epoch, !.life.done = FALSE,
                                  !.life.dropHeld = FALSE, !.life.dropDue = 0,
                                  !.life.env = NoEnv,
                                  !.life.notice = NoNotice], reacquired)

(* watchdog_event_history_impl().                                          *)
HistoryStep(s) == IF Authoritative(s) THEN OpenEpoch(s) ELSE s

(* watchdog_event_drop_verdict_held(): a row that would be dropped waits   *)
(* as long as its end may still be explained.                              *)
HoldsDrop(s, deferred) ==
    /\ deferred /\ Drops(s)
    /\ ~s.life.dropHeld \/ s.age < s.life.dropDue

(* watchdog_event_finalize_ended().                                        *)
Finalize(s) ==
    LET deferred == Recoverable(s.call.reason) /\ s.call.kind # "data"
        t == Commit(s, IF deferred THEN "deferred" ELSE "final")
        u == IF deferred /\ ~Drops(s)
             THEN [t EXCEPT !.life.endHeld = TRUE, !.life.endDue = Gap(s.call.reason)]
             ELSE t
        over == [(IF HasContent(s.staged) THEN u ELSE s)
                   EXCEPT !.life.dropHeld = FALSE, !.life.dropDue = 0,
                          !.life.done = TRUE, !.staged = BlankRow]
    IN  IF s.call.phase # "ended" \/ s.life.epoch # s.call.epoch \/ s.life.done THEN s
        ELSE IF HasContent(s.staged) /\ HoldsDrop(s, deferred)
        THEN IF s.life.dropHeld THEN s
             ELSE [s EXCEPT !.life.dropHeld = TRUE, !.life.dropDue = Gap(s.call.reason)]
        ELSE over

(* The candidate row: the call as it stands, over its own staged detail.   *)
Rendered(s) ==
    [s EXCEPT !.staged = [kind |-> s.call.kind, who |-> s.call.who,
                          of |-> s.staged.of \cup {s.call.epoch},
                          detail |-> s.staged.detail],
              !.life.env = [named |-> s.call.who # None, media |-> s.call.media,
                            positive |-> s.call.phase = "ended" /\ Terminator(s.call.reason)]]

(* watchdog_event_current_impl().                                          *)
Render(s, finalize) ==
    LET t == IF s.call.verdict = "admit" THEN Rendered(s) ELSE s
    IN  IF ~Authoritative(s) \/ (s.call.phase = "ended" /\ s.life.epoch = s.call.epoch /\ s.life.done)
        THEN s
        ELSE IF finalize THEN Finalize(t) ELSE t

(* dsd_call_state_end_ex(): ends an active call, or tightens the reason of *)
(* one a recoverable end closed.                                           *)
End(s, reason) ==
    LET corroborates == reason = "unverified" /\ s.call.reason = "unverified"
        retracts == reason \in {"explicit", "terminator"} /\ Recoverable(s.call.reason)
    IN  IF s.call.phase = "active"
        THEN [s EXCEPT !.call.phase = "ended", !.call.reason = reason, !.age = 0]
        ELSE IF s.call.phase = "ended" /\ (retracts \/ corroborates)
        THEN [s EXCEPT !.call.reason = IF reason = "terminator" \/ corroborates
                                       THEN "terminator" ELSE "explicit"]
        ELSE s

(* dsd_call_state_refresh_receive(): a changed service ends the call, and  *)
(* otherwise the policy's verdict on it is taken again.                    *)
Refresh(s, verdict, changed) ==
    IF s.call.phase # "active" THEN s
    ELSE IF changed THEN End(s, "explicit")
    ELSE [s EXCEPT !.call.verdict = verdict]

Positively(s) ==
    /\ s.life.endHeld /\ s.call.phase = "ended" /\ s.call.epoch # 0
    /\ s.call.epoch = s.life.epoch /\ ~Recoverable(s.call.reason)

(* dsd_event_sync_slot().                                                  *)
Sync(s, verdict, changed) ==
    LET t == Render(HistoryStep(Refresh(s, verdict, changed)), TRUE)
    IN  Flush(t, Positively(t))

-----------------------------------------------------------------------------
(* The epochs a set of rows describes, and what an operation adds to what  *)
(* was shown under a name.                                                 *)
Describes(rows) == UNION {r.of : r \in rows}

Become(s) ==
    /\ slot' = s
    /\ shown' = shown \cup (IF s.staged.who = None THEN {} ELSE s.staged.of)

(* call_state_observation_changes_identity().                              *)
ChangesIdentity(call, who) ==
    \/ call.who # None /\ who # None /\ call.who # who
    \/ call.kind # KindOf(who)

Provisional(call) == call.phase = "active" /\ call.kind = "voice" /\ call.who = None

(* call_state_observation_begins_epoch().                                  *)
BeginsEpoch(call, who, begin) ==
    \/ call.phase # "active"
    \/ begin /\ ~(Provisional(call) /\ who \in VoiceIds)
    \/ ChangesIdentity(call, who)

(* call_state_reacquires_ended_epoch().                                    *)
Reacquires(s, who) ==
    /\ s.call.phase = "ended" /\ Recoverable(s.call.reason)
    /\ ~(s.call.reason = "unverified" /\ who # None)
    /\ s.call.who # None
    /\ ~ChangesIdentity(s.call, who)
    /\ s.age < Gap(s.call.reason)

(* The snapshot an observation leaves: a new one, seeded from the ended    *)
(* one when the transmission resumes, or the active one filled in.         *)
Observed(s, who, begins, resumes) ==
    LET fresh == [NoCall EXCEPT !.epoch = s.seq + 1,
                                !.who = IF resumes THEN s.call.who ELSE None,
                                !.kind = IF resumes THEN s.call.kind ELSE KindOf(who),
                                !.media = resumes /\ s.call.media]
        base == IF begins THEN fresh ELSE s.call
    IN  [base EXCEPT !.phase = "active", !.who = IF who = None THEN @ ELSE who]

(* dsd_call_state_observe(), called by a decoder before its next sync.     *)
Observe(who, begin, changed) ==
    LET s == slot
        begins == changed \/ BeginsEpoch(s.call, who, begin)
        resumes == begins /\ ~changed /\ Reacquires(s, who)
        life == [s.life EXCEPT !.done = FALSE, !.notice = NoNotice,
                               !.reacq = IF resumes THEN s.seq + 1 ELSE @,
                               !.from = IF resumes THEN s.call.epoch ELSE @]
    IN  /\ ~shut
        /\ begins => s.seq < MaxEpochs
        /\ begin => (who # None \/ s.call.phase # "active")
        /\ slot' = [s EXCEPT !.call = Observed(s, who, begins, resumes),
                             !.seq = IF begins THEN @ + 1 ELSE @,
                             !.life = IF begins THEN life ELSE @]
        /\ root' = IF resumes THEN [root EXCEPT ![s.seq + 1] = root[s.call.epoch]] ELSE root
        /\ UNCHANGED <<service, parked, others, shut, shown, deleted, unnoted>>

(* dsd_call_state_update_media(): a voice frame was decoded for the call.  *)
Media ==
    /\ ~shut /\ slot.call.phase = "active" /\ ~slot.call.media
    /\ slot' = [slot EXCEPT !.call.media = TRUE]
    /\ UNCHANGED <<service, parked, others, shut, history>>

(* The frame-sync pass.                                                    *)
SyncSlot(verdict, changed) ==
    /\ ~shut
    /\ Become(Sync(slot, verdict, changed))
    /\ UNCHANGED <<service, parked, others, shut, root, deleted, unnoted>>

(* A call end and the sync every end path runs when it changed anything    *)
(* (dsd_engine_end_calls() and the frame dispatcher).                      *)
EndCall(reason, verdict) ==
    /\ ~shut /\ End(slot, reason) # slot
    /\ Become(Sync(End(slot, reason), verdict, FALSE))
    /\ UNCHANGED <<service, parked, others, shut, root, deleted, unnoted>>

(* The decode clock moves on.                                              *)
Tick ==
    /\ ~shut /\ slot.age < 2
    /\ slot' = [slot EXCEPT !.age = @ + 1]
    /\ UNCHANGED <<service, parked, others, shut, history>>

Withheld(call) == call.verdict \in {"check", "reject"}

(* dsd_event_enrich_find_row(): 0 is the staged row, and RowsKept + 1      *)
(* stands for no row at all.                                               *)
EnrichRow(s, e) ==
    IF s.life.valid /\ s.life.cEpoch = e
    THEN IF CommittedIndex(s) # 0 THEN CommittedIndex(s) ELSE RowsKept + 1
    ELSE IF s.life.epoch # e \/ s.life.done THEN RowsKept + 1 ELSE 0

(* dsd_event_enrich_epoch(): a decoder names the epoch its alias, position *)
(* or text belongs to, at any time after it.                               *)
Enrich(e) ==
    LET index == EnrichRow(slot, e)
    IN  /\ ~shut /\ e = slot.call.epoch /\ ~Withheld(slot.call)
        /\ index <= RowsKept
        /\ slot' = IF index = 0 THEN [slot EXCEPT !.staged.detail = @ \cup {e}]
                                ELSE [slot EXCEPT !.rows[index].detail = @ \cup {e}]
        /\ UNCHANGED <<service, parked, others, shut, history>>

(* dsd_event_set_open_call_detail(): detail that names no call.            *)
OpenDetail ==
    /\ ~shut /\ slot.call.epoch # 0 /\ slot.call.phase = "active"
    /\ slot.life.epoch = slot.call.epoch /\ ~Withheld(slot.call)
    /\ slot' = [slot EXCEPT !.staged.detail = @ \cup {slot.call.epoch}]
    /\ UNCHANGED <<service, parked, others, shut, history>>

(* dsd_event_note_current_call(): opens the call's epoch first, then notes *)
(* and renders, without the sync's flush.                                  *)
NoteCall(verdict, changed) ==
    LET s == HistoryStep(Refresh(slot, verdict, changed))
        t == IF Authoritative(s) /\ ~Withheld(s.call)
             THEN [s EXCEPT !.staged.detail = @ \cup {s.call.epoch}] ELSE s
    IN  /\ ~shut
        /\ Become(Render(t, TRUE))
        /\ UNCHANGED <<service, parked, others, shut, root, deleted, unnoted>>

-----------------------------------------------------------------------------
(* dsd_event_emit_call_notice_impl() for the slot's own, just ended call:  *)
(* open, render without finalizing, note and commit.                       *)
CanonicalNotice(s) ==
    LET t == Render(OpenEpoch(s), FALSE)
        u == Commit([t EXCEPT !.staged.detail = @ \cup {s.call.epoch}], "final")
    IN  [u EXCEPT !.life.done = TRUE,
                  !.life.notice = [epoch |-> s.call.epoch, who |-> s.call.who]]

(* A P25 encryption lockout of the slot's active call: it is ended and, if *)
(* the receive policy allows it, noted once.                               *)
LockoutOwn(allowed) ==
    LET s == End(slot, "explicit")
        e == slot.call.epoch
        handled == s.life.notice = [epoch |-> e, who |-> s.call.who]
        t == IF allowed /\ ~handled THEN CanonicalNotice(s) ELSE s
    IN  /\ ~shut /\ slot.call.phase = "active" /\ slot.call.who \in VoiceIds
        /\ Become(t)
        /\ unnoted' = IF allowed /\ ~\E r \in Range(t.rows) : e \in r.detail
                      THEN unnoted \cup {e} ELSE unnoted
        /\ UNCHANGED <<service, parked, others, shut, root, deleted>>

(* A lockout of a grant the slot's call does not match: the notice is of a *)
(* synthetic call, numbered after the slot's, and leaves row 0 as it was.  *)
LockoutOther(who) ==
    LET call == slot.call
        mine == call.phase = "active" /\ call.who = who
        notice == [epoch |-> call.epoch + 1, who |-> who]
        row == [BlankRow EXCEPT !.kind = "voice", !.who = who]
    IN  /\ ~shut /\ ~mine /\ others < MaxOthers
        /\ slot.life.notice # notice
        /\ slot' = [Push(slot, row) EXCEPT !.life.notice = notice]
        /\ others' = others + 1
        /\ UNCHANGED <<service, parked, shut, history>>

(* A data or system notice pushes its own row and puts the staged one back *)
(* (dsd_event_emit_data_notice(), dsd_event_emit_system_notice()).         *)
Notice(kind) ==
    /\ ~shut /\ others < MaxOthers
    /\ slot' = Push(slot, [BlankRow EXCEPT !.kind = kind])
    /\ others' = others + 1
    /\ UNCHANGED <<service, parked, shut, history>>

(* dsd_call_state_invalidate_event_lifecycle().                            *)
Invalidate(life) ==
    [life EXCEPT !.cEpoch = 0, !.cSeq = 0, !.valid = FALSE, !.reacq = 0, !.from = 0,
                 !.endHeld = FALSE, !.endDue = 0, !.dropHeld = FALSE, !.dropDue = 0,
                 !.env = NoEnv]

(* Epochs the slot has finished with.                                      *)
Finished(s) ==
    {e \in 1 .. s.seq :
        e # s.call.epoch \/ (s.call.phase = "ended" /\ s.life.epoch = e /\ s.life.done)}

CutOff ==
    IF slot.call.epoch # 0 /\ slot.life.reacq = slot.call.epoch /\ slot.life.epoch # slot.call.epoch
    THEN [root EXCEPT ![slot.call.epoch] = slot.call.epoch]
    ELSE root

(* dsd_event_history_reset(): the operator clears the history.  A segment  *)
(* reacquired but not opened yet is forgotten to be one, so it counts, and *)
(* is announced, as a transmission of its own.                             *)
Reset ==
    /\ ~shut /\ others < MaxOthers /\ others' = others + 1
    /\ slot' = [slot EXCEPT !.rows = <<>>, !.staged = BlankRow, !.life = Invalidate(@)]
    /\ shown' = {}
    /\ deleted' = deleted \cup (Finished(slot) \ {parked.call.epoch, parked.life.epoch})
    /\ root' = CutOff
    /\ UNCHANGED <<service, parked, shut, unnoted>>

Settled == slot.call.phase # "active" /\ Sync(slot, slot.call.verdict, FALSE) = slot

(* trunk_scan_switch_to(): the scanner saves this target's calls and       *)
(* restores the next one's over the shared history.  A rotation waits for  *)
(* the target to have been idle over many sync passes, and a forced one    *)
(* releases the call, which syncs, so what is saved is settled.            *)
Hop ==
    LET call == [parked.call EXCEPT
                    !.reason = IF parked.call.phase = "ended" THEN "explicit" ELSE @]
    IN  /\ ~shut /\ service.scanning /\ Settled
        /\ others < MaxOthers /\ others' = others + 1
        /\ parked' = [call |-> slot.call, life |-> slot.life, staged |-> slot.staged]
        /\ slot' = [slot EXCEPT !.call = call, !.life = Invalidate(parked.life),
                                !.staged = parked.staged,
                                !.seq = IF @ < call.epoch THEN call.epoch ELSE @]
        /\ UNCHANGED <<service, shut, history>>

(* The engine's shutdown: calls end as lost, sync, and a held end alert is *)
(* heard (dsd_event_flush_pending_alerts()).                               *)
Shutdown ==
    /\ ~shut /\ shut' = TRUE
    /\ Become(Flush(Sync(End(slot, "loss"), slot.call.verdict, FALSE), TRUE))
    /\ UNCHANGED <<service, parked, others, root, deleted, unnoted>>

Next ==
    \/ \E who \in Ids \cup {None}, begin \in BOOLEAN, changed \in BOOLEAN :
          Observe(who, begin, changed)
    \/ Media \/ Tick \/ OpenDetail \/ Reset \/ Hop \/ Shutdown
    \/ \E v \in Verdicts, changed \in BOOLEAN : SyncSlot(v, changed) \/ NoteCall(v, changed)
    \/ \E reason \in Reasons, v \in Verdicts : EndCall(reason, v)
    \/ \E e \in Epochs : Enrich(e)
    \/ \E allowed \in BOOLEAN : LockoutOwn(allowed)
    \/ \E who \in VoiceIds : LockoutOther(who)
    \/ \E kind \in {"data", "system"} : Notice(kind)

Spec == Init /\ [][Next]_vars

-----------------------------------------------------------------------------
Row == [kind : {"blank", "voice", "data", "system"}, who : Ids \cup {None},
        of : SUBSET Epochs, detail : SUBSET Epochs]

(* The committed reference points at a row that was really pushed, rows    *)
(* stay within the ring, and every held deadline is one of the two gaps.   *)
TypeOK ==
    /\ service \in Services
    /\ slot.call.epoch \in 0 .. MaxEpochs /\ slot.seq \in 0 .. MaxEpochs
    /\ slot.call.epoch <= slot.seq /\ slot.life.epoch <= slot.seq
    /\ slot.call.who \in Ids \cup {None} /\ slot.call.reason \in Reasons
    /\ slot.age \in 0 .. 2
    /\ slot.life.cSeq <= slot.pushes
    /\ slot.life.endHeld => slot.life.endDue \in {1, 2}
    /\ slot.life.dropHeld => slot.life.dropDue \in {1, 2}
    /\ slot.rows \in Seq(Row) /\ Len(slot.rows) <= RowsKept /\ slot.staged \in Row
    /\ parked.staged \in Row
    /\ shown \subseteq Epochs /\ deleted \subseteq Epochs /\ unnoted \subseteq Epochs

AllRows == Range(slot.rows) \cup {slot.staged, parked.staged}
Roots(epochs) == {root[e] : e \in epochs}

(* A row, staged or in history, describes one transmission: everything it  *)
(* shows and every alias, position, text or note on it comes from epochs   *)
(* of the same one, however the call, its fades, its enrichment and the    *)
(* notices interleave (watchdog_event_staged_row_merges(),                 *)
(* dsd_event_enrich_find_row()).                                           *)
RowsUnmixed == \A r \in AllRows : Cardinality(Roots(r.of \cup r.detail)) <= 1

(* A voice transmission never has two rows in history, however often it    *)
(* fades and is reacquired and whatever was pushed in between              *)
(* (watchdog_event_commit_staged_row()).                                   *)
OneRowEach ==
    \A i, j \in 1 .. Len(slot.rows) :
        (i # j /\ slot.rows[i].kind = "voice" /\ slot.rows[j].kind = "voice")
            => Roots(slot.rows[i].of) \cap Roots(slot.rows[j].of) = {}

Sounded(what) == {i \in 1 .. Len(slot.alerts) : slot.alerts[i][1] = what}
RootAt(i) == root[slot.alerts[i][2]]

(* The operator hears at most one start and at most one end of each        *)
(* transmission, and never the end of one before its own start.            *)
AlertsPaired ==
    /\ \A what \in {"START", "END"} : \A i, j \in Sounded(what) :
          RootAt(i) = RootAt(j) => i = j
    /\ \A i \in Sounded("START"), j \in Sounded("END") :
          RootAt(i) = RootAt(j) => i < j

(* A call that was over when the operator cleared the history does not     *)
(* reappear in it.                                                         *)
DeletedStaysDeleted == \A r \in AllRows : r.of \cap deleted = {}

(* A call the operator was shown under its name is never lost: once it is  *)
(* no longer the slot's call nor anyone's staged row, it has reached the   *)
(* history, even when the next call was observed before any sync.          *)
NothingLost ==
    \A e \in shown \ slot.reached :
        \/ e \in Describes({slot.staged, parked.staged})
        \/ e = slot.call.epoch /\ ~(slot.life.epoch = e /\ slot.life.done)

(* A P25 lockout that ends the slot's call always reaches that call's row: *)
(* it is never mistaken for an earlier notice about a synthetic call that  *)
(* happened to be numbered like it.                                        *)
LockoutNoted == unnoted = {}

(* The history is a true account: rows are in their ring, each transmission*)
(* has one row of its own, what was shown or locked out is in it, and what *)
(* was deleted is not.                                                     *)
HistoryRight ==
    /\ TypeOK /\ RowsUnmixed /\ OneRowEach
    /\ NothingLost /\ LockoutNoted /\ DeletedStaysDeleted
=============================================================================
