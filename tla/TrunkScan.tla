------------------------------ MODULE TrunkScan ------------------------------
(***************************************************************************)
(* The trunk scanner: the coordinator of engine/trunk_scan.c that rotates  *)
(* one receiver over a list of targets, trunked systems (whose state       *)
(* machines follow calls to voice channels) and conventional channels.     *)
(*                                                                         *)
(* A handler runs to its end under the tick guard: each operator takes the *)
(* state so far and gives the states it may leave.  The backend answers a  *)
(* tune in the call or later; a tune accepted while another is out has     *)
(* that one answered first.  The state machines are abstracted to what the *)
(* coordinator sees of them: where they are and the tune they wait for     *)
(* (DmrTrunkSm has the DMR one whole).                                     *)
(*                                                                         *)
(* A period is "off", "run" or "over".  A call is a number; the same       *)
(* number may be live, in a target's snapshot and in the scratch snapshot. *)
(***************************************************************************)
EXTENDS Naturals, Sequences, SequencesExt

CONSTANTS
    Setups    \* the circumstances checked; a session has one of them

VARIABLES
    setup,   \* the circumstances of this session
    tg,      \* dsd_trunk_scan_target_runtime: the target list with its timers, requests and snapshots
    active,  \* the target on air
    hold,    \* the operator's hold
    live,    \* [call, tuned, air]: the open call row, trunk_is_tuned, what a conventional channel carries
    rx,      \* [t, at]: the target and carrier the receiver is really on
    job,     \* the tune the backend has yet to answer, or NoJob
    gated,   \* does an answered failure close the frame gate?
    ends,    \* history: how often the end of a call was recorded
    revived, \* history: calls that had ended when a retry in place restored them
    back     \* history: did the state machine return from a call in this step?

vars == <<setup, tg, active, hold, live, rx, job, gated, ends, revived, back>>

Kind == setup.kind        \* the target list: the kind of each, "dmr", "p25", "conv" or "nfm"
Capped == setup.capped    \* the targets with a visit limit
Calls == setup.calls      \* bound: calls told apart at a time
HeldCalls == setup.held   \* the calls of the talkgroup the operator holds
Refuse == setup.refuse    \* the targets whose tunes the backend may refuse
Late == setup.late        \* may a tune be answered after its call?
Prepare == setup.prepare  \* may a switch fail to prepare, for want of memory?
Acts == setup.acts        \* what the operator does: "hold", "advance", "avoid"

ASSUME ScanAssumption ==
    \A s \in Setups :
        /\ s.kind \in Seq({"dmr", "p25", "conv", "nfm"}) /\ Len(s.kind) > 0
        /\ s.capped \subseteq DOMAIN s.kind /\ s.refuse \subseteq DOMAIN s.kind /\ {s.late, s.prepare} \subseteq BOOLEAN
        /\ s.calls \subseteq Nat \ {0} /\ s.held \subseteq s.calls /\ s.acts \subseteq {"hold", "advance", "avoid"}

Targets == DOMAIN Kind
AnyTarget == UNION {DOMAIN s.kind : s \in Setups}
AnyCall == UNION {s.calls : s \in Setups}
Trunked(t) == Kind[t] \in {"dmr", "p25"}
NoJob == [t |-> 0]
Quiet == [call |-> 0, tuned |-> FALSE, air |-> "quiet"]

\* A target as trunk_scan_build_target_runtime() leaves it: idle is the dwell,
\* visit the cap, act the activity hold, retry the pause after a failed park;
\* tune is the coordinator's request and smtune the state machine's, same if
\* they are one; rearm and released are visit_rearm_pending, retry_released_park
Fresh == [avoided |-> FALSE, idle |-> "run", visit |-> "off", rearm |-> FALSE, act |-> FALSE, retry |-> "off",
          tune |-> "none", smtune |-> "none", same |-> FALSE, sm |-> "cc", released |-> FALSE, saved |-> 0]

-----------------------------------------------------------------------------
(* The state handed along; rc is what the C function returned, orig, save, *)
(* alt and tried are the locals of trunk_scan_advance()                    *)

Then(S, Op(_)) == UNION {Op(s) : s \in S}

Here == [tg |-> tg, active |-> active, hold |-> hold, live |-> live, rx |-> rx, job |-> job, gated |-> gated,
         ends |-> ends, revived |-> revived, back |-> FALSE, forced |-> FALSE, scratch |-> 0, rc |-> "ok", orig |-> active, save |-> TRUE, alt |-> FALSE,
         tried |-> FALSE]

Leaves(s) ==
    /\ setup' = setup /\ tg' = s.tg /\ active' = s.active /\ hold' = s.hold /\ live' = s.live
    /\ rx' = s.rx /\ job' = s.job /\ gated' = s.gated /\ ends' = s.ends /\ revived' = s.revived /\ back' = s.back

Rc(s, rc) == [s EXCEPT !.rc = rc]
Done(s) == Rc(s, "spent")
Open(s) == s.job = NoJob /\ ~s.gated

MaxEnds == 2    \* bound: ends of one call that are counted; a second is already one too many

\* The end of the open call is recorded and its row closed
CloseRow(s) ==
    [s EXCEPT !.live.call = 0,
              !.ends = [c \in Calls |-> IF c = s.live.call /\ s.ends[c] < MaxEnds THEN s.ends[c] + 1 ELSE s.ends[c]]]

\* dsd_engine_release_tuned_call_state()
EndCall(s) == [CloseRow(s) EXCEPT !.live.tuned = FALSE]

\* The backend answers: whoever waits for the request reads the result
Answered(s, ok) ==
    LET r == IF ok THEN "ok" ELSE "failed"
        j == s.job
    IN  [s EXCEPT !.job = NoJob, !.rx = IF ok THEN [t |-> j.t, at |-> j.at] ELSE @,
                  !.gated = IF j.dead THEN @ ELSE ~ok,
                  !.tg[j.t] = [@ EXCEPT !.tune = IF j.coord THEN r ELSE @, !.smtune = IF j.sm THEN r ELSE @]]

\* A tune through the hooks: rc is "refused", "ok" or "pending"
Tune(s, t, at, coord, sm) ==
    LET before == IF s.job = NoJob THEN {s} ELSE {Answered(s, TRUE), Answered(s, FALSE)}
    IN  (IF t \in Refuse THEN {Rc(s, "refused")} ELSE {})
          \cup {Rc([b EXCEPT !.rx = [t |-> t, at |-> at], !.gated = FALSE], "ok") : b \in before}
          \cup (IF Late
                THEN {Rc([b EXCEPT !.job = [t |-> t, at |-> at, coord |-> coord, sm |-> sm, dead |-> FALSE]], "pending")
                        : b \in before}
                ELSE {})

-----------------------------------------------------------------------------
(* The state machine of the target on air *)

\* A return to, or a probe of, the control channel: the machine waits for it
SmTuneCc(s) ==
    LET t == s.active
    IN  {IF n.rc = "refused" THEN s
         ELSE [n EXCEPT !.tg[t] = [@ EXCEPT !.sm = "cc", !.same = FALSE,
                                            !.smtune = IF n.rc = "ok" THEN "none" ELSE "pending"]]
            : n \in Tune(s, t, "cc", FALSE, TRUE)}

\* A call followed ends when its return is accepted
SmReturn(s) == {IF n.tg[s.active].sm = "cc" THEN [EndCall(n) EXCEPT !.back = TRUE] ELSE n : n \in SmTuneCc(s)}

\* The wait of dmr_cc_resolve_pending() and p25_sm_resolve_pending_cc_tune();
\* only the DMR machine gives up at a deadline
SmResolve(s) ==
    LET t == s.active
        lost(n) == Done([n EXCEPT !.tg[t] = [@ EXCEPT !.sm = "lost", !.smtune = "none"]])
    IN  CASE s.tg[t].smtune = "none" -> {Rc(s, "ok")}
          [] s.tg[t].smtune = "ok" -> {Rc([s EXCEPT !.tg[t].smtune = "none"], "ok")}
          [] s.tg[t].smtune = "failed" -> {lost(s)}
          [] OTHER ->
               {Done(s)}
                 \cup (IF Kind[t] # "dmr" THEN {}
                       ELSE {lost([s EXCEPT !.gated = TRUE, !.job.dead = TRUE, !.job.sm = FALSE, !.job.coord = FALSE,
                                            !.tg[t].tune = IF s.job.coord THEN "failed" ELSE @])})

\* One tick of the machine: it waits, returns from a call, misses its control
\* channel or hunts for it
SmTick(s) ==
    Then(SmResolve(s), LAMBDA n :
        {n} \cup (IF n.rc = "spent" THEN {}
                  ELSE CASE n.tg[n.active].sm = "tuned" -> SmReturn(n)
                         [] n.tg[n.active].sm = "cc" -> {[n EXCEPT !.tg[n.active].sm = "lost"]}
                         [] OTHER -> SmTuneCc(n)))

-----------------------------------------------------------------------------
(* Switching *)

\* trunk_scan_arm_visit()
ArmVisit(s, t) == [s EXCEPT !.tg[t] = [@ EXCEPT !.visit = "run", !.rearm = FALSE, !.released = FALSE]]

\* trunk_scan_release_active_carrier() and what the switch does after it
ReleaseCarrier(s) ==
    [EndCall(s) EXCEPT !.tg[s.active] = [@ EXCEPT !.sm = "cc", !.act = FALSE], !.scratch = 0, !.forced = FALSE]

\* The outgoing target's snapshot, idle after a forced release
SaveCurrent(s) ==
    LET n == IF s.forced THEN ReleaseCarrier(s) ELSE s
    IN  [n EXCEPT !.tg[s.active].saved = n.live.call]

\* The incoming target's state: its snapshot, no carrier, nothing anchored
Enter(s, next) ==
    [s EXCEPT !.active = next, !.live = [Quiet EXCEPT !.call = s.tg[next].saved],
              !.tg[next] = [@ EXCEPT !.visit = "off", !.idle = "run"]]

\* trunk_scan_arm_tune_completion() and dmr_sm_begin_cc_acquisition()
Parked(s, t) ==
    LET pend == s.rc = "pending"
        st(k) == IF pend THEN k ELSE "none"
        n == [s EXCEPT !.tg[t] = [@ EXCEPT !.tune = st("pending"), !.retry = "off", !.same = pend /\ Trunked(t),
                                           !.smtune = IF Trunked(t) THEN st("pending") ELSE @,
                                           !.sm = IF Trunked(t) THEN "cc" ELSE @]]
    IN  Rc(IF pend THEN n ELSE ArmVisit(n, t), "ok")

\* trunk_scan_switch_to(): rc is "ok", "failed" or "prepare"
SwitchTo(s, next, save) ==
    (IF Prepare THEN {Rc(s, "prepare")} ELSE {})
      \cup {IF n.rc = "refused" THEN Rc([n EXCEPT !.tg[next].retry = "run"], "failed") ELSE Parked(n, next)
              : n \in Tune(Enter(IF save THEN SaveCurrent(s) ELSE s, next), next, "cc", TRUE, Trunked(next))}

\* One turn of the loop of trunk_scan_advance(), for the target a turn names
Attempt(s, next) ==
    IF \/ s.rc = "moved"
       \/ next = s.orig /\ ~s.alt
       \/ s.tg[next].retry = "run"
       \/ s.tg[next].avoided /\ next # s.orig
    THEN {s}
    ELSE {CASE n.rc = "ok" -> Rc(n, "moved")
            [] n.rc = "prepare" -> n
            [] OTHER -> [n EXCEPT !.tried = TRUE, !.save = FALSE, !.alt = (s.alt \/ next # s.orig)]
              : n \in SwitchTo(s, next, s.save)}

(* Mutant: a failed round leaves what it tried last in place *)
RollbackNothing(s) ==
    Rc(IF s.rc = "moved" THEN s
       ELSE IF ~s.tried THEN [s EXCEPT !.tg[s.orig].idle = "run"]
       ELSE [s EXCEPT !.live = [Quiet EXCEPT !.call = s.scratch]],
       IF s.rc = "moved" THEN "moved" ELSE "stayed")

\* What a round that moved nowhere puts back
Rollback(s) ==
    Rc(IF s.rc = "moved" THEN s
       ELSE IF ~s.tried THEN [s EXCEPT !.active = s.orig, !.tg[s.orig].idle = "run"]
       ELSE [s EXCEPT !.active = s.orig, !.live = [Quiet EXCEPT !.call = s.scratch]],
       IF s.rc = "moved" THEN "moved" ELSE "stayed")

\* The order of a round: the others, then the target on air
Round(t) == [k \in 1..Len(Kind) |-> ((t - 1 + k) % Len(Kind)) + 1]

\* trunk_scan_advance(): rc is "moved" when a park was accepted
Advance(s) ==
    LET s0 == [s EXCEPT !.orig = s.active, !.scratch = s.live.call, !.save = TRUE, !.alt = FALSE, !.tried = FALSE]
        loop == FoldLeft(LAMBDA S, next : UNION {Attempt(x, next) : x \in S}, {Rc(s0, "ok")}, Round(s.active))
    IN  IF Len(Kind) < 2 THEN {Rc(s, "stayed")}
        ELSE {Rollback(x) : x \in loop}
               \cup (IF Prepare THEN {Rc([s EXCEPT !.tg[s.active].idle = "run"], "stayed")} ELSE {})

\* trunk_scan_retry_active_if_due(): the snapshot of the target's last
\* departure comes back, with the call that was open in it, ended since or not
RetryActive(s) ==
    LET t == s.active
        restored(n) == [n EXCEPT !.revived = @ \cup {c \in {n.live.call} \ {0} : n.ends[c] > 0}]
    IN  IF (Len(Kind) # 1 /\ ~s.hold /\ ~s.tg[t].released) \/ s.tg[t].retry # "over" THEN {s}
        ELSE {IF n.rc = "prepare" THEN [n EXCEPT !.tg[t].retry = "run"] ELSE restored(n) : n \in SwitchTo(s, t, FALSE)}

-----------------------------------------------------------------------------
(* Staying and leaving *)

(* Mutant: only the operator's hold suspends the limit *)
SuspendedByHold(s) == s.hold

\* trunk_scan_visit_suspended()
Suspended(s) ==
    \/ s.hold
    \/ s.live.call \in HeldCalls /\ (Trunked(s.active) => s.live.tuned)

\* trunk_scan_visit_alternate_is_eligible(), trunk_scan_rejection_has_alternate()
Alternate(s) == \E t \in Targets \ {s.active} : ~s.tg[t].avoided /\ s.tg[t].retry # "run"

(* Mutant: what is heard on the target starts its visit again *)
VisitCheckedBusy(s) ==
    LET t == s.active
        g == s.tg[t]
    IN  IF t \notin Capped \/ g.tune # "none" \/ g.visit = "off" THEN Rc(s, "no")
        ELSE IF Suspended(s) \/ ~Alternate(s) \/ s.live.call # 0
        THEN Rc([s EXCEPT !.tg[t] = [@ EXCEPT !.visit = "run", !.rearm = TRUE]], "no")
        ELSE IF g.rearm THEN Rc([s EXCEPT !.tg[t] = [@ EXCEPT !.visit = "run", !.rearm = FALSE]], "no")
        ELSE Rc(s, IF g.visit = "over" THEN "expired" ELSE "no")

\* trunk_scan_visit_expired(): a suspended visit starts over at the first check after it
VisitChecked(s) ==
    LET t == s.active
        g == s.tg[t]
    IN  IF t \notin Capped \/ g.tune # "none" \/ g.visit = "off" THEN Rc(s, "no")
        ELSE IF Suspended(s) \/ ~Alternate(s)
        THEN Rc([s EXCEPT !.tg[t] = [@ EXCEPT !.visit = "run", !.rearm = TRUE]], "no")
        ELSE IF g.rearm THEN Rc([s EXCEPT !.tg[t] = [@ EXCEPT !.visit = "run", !.rearm = FALSE]], "no")
        ELSE Rc(s, IF g.visit = "over" THEN "expired" ELSE "no")

\* trunk_scan_service_visit_limit() once the visit is over
Evict(s) ==
    LET t == s.active
        Back(n) ==
            IF n.forced THEN [n EXCEPT !.tg[t].visit = "run"]
            ELSE IF n.rc = "moved" THEN [EndCall(n) EXCEPT !.tg[t].released = (n.tg[t].tune # "none")]
            ELSE [EndCall(n) EXCEPT !.tg[t] = [@ EXCEPT !.released = TRUE, !.visit = "off", !.retry = "run"]]
    IN  {Done([(IF n.active = t THEN Back(n) ELSE n) EXCEPT !.forced = FALSE]) : n \in Advance([s EXCEPT !.forced = TRUE])}


\* trunk_scan_service_tone_rejection()
ToneRejection(s) ==
    LET freed == [s EXCEPT !.tg[s.active] = [@ EXCEPT !.act = FALSE, !.idle = "off"]]
    IN  IF \/ Kind[s.active] # "nfm" \/ s.hold \/ s.live.air \notin {"rejected", "rejected before"}
           \/ s.live.air = "rejected before" /\ ~Alternate(s)
        THEN {Rc(s, "ok")}
        ELSE {Done(n) : n \in IF Alternate(s) THEN Advance(freed) ELSE {freed}}

\* trunk_scan_service_release(): rc is "spent" when the tick is
ServiceRelease(s) ==
    LET t == s.active
        v == VisitChecked(s)
    IN  IF Kind[t] = "conv" /\ ~s.hold /\ ~s.tg[t].act /\ s.live.air = "rejected" /\ s.tg[t].visit # "off"
        THEN {Done(n) : n \in IF Alternate(s) THEN Advance(s) ELSE {s}}
        ELSE IF v.rc = "expired" THEN Evict(v)
        ELSE ToneRejection(v)

\* trunk_scan_active_stay_reason(), but for a tone check
Stays(s) ==
    LET g == s.tg[s.active]
    IN  g.tune # "none" \/ (IF Trunked(s.active) THEN g.smtune # "none" \/ s.live.tuned \/ g.sm = "tuned" ELSE g.act)

\* trunk_scan_service_hold() and the rest of the tick: the dwell
Dwell(s) ==
    LET t == s.active
        Idle(k) == [s EXCEPT !.tg[t].idle = k]
        checking == Kind[t] = "nfm" /\ s.live.air = "checking" /\ s.tg[t].tune = "none"
    IN  IF checking THEN {IF s.tg[t].idle = "off" /\ ~s.hold /\ ~s.tg[t].act THEN Idle("run") ELSE s}
        ELSE IF Stays(s) \/ s.hold THEN {Idle("off")}
        ELSE IF s.tg[t].idle = "off" THEN {Idle("run")}
        ELSE IF s.tg[t].idle = "over" THEN Advance(s)
        ELSE {s}

\* trunk_scan_reconcile_p25_retune_recovery() of a failed park: the machine
\* has yet to read the failure, waits for a tune of its own, or is back
Reconcile(s) ==
    LET t == s.active
        g == s.tg[t]
        fail == [s EXCEPT !.tg[t] = [@ EXCEPT !.tune = "none", !.retry = "run"]]
    IN  IF Kind[t] = "p25" /\ g.smtune # "none" /\ g.same THEN {Done(s)}
        ELSE IF Kind[t] = "p25" /\ g.smtune # "none"
        THEN {Done([s EXCEPT !.tg[t] = [@ EXCEPT !.tune = g.smtune, !.same = TRUE],
                             !.job = IF g.smtune = "pending" THEN [@ EXCEPT !.coord = TRUE] ELSE @])}
        ELSE IF Kind[t] = "p25" /\ g.sm # "lost"
        THEN {Rc(ArmVisit([s EXCEPT !.tg[t] = [@ EXCEPT !.tune = "none", !.retry = "off", !.idle = "off"]], t), "ok")}
        ELSE {Done(n) : n \in IF Len(Kind) > 1 /\ ~s.hold THEN Advance(fail) ELSE {fail}}

\* trunk_scan_resolve_pending_retune(): rc is "spent" when the tick is
ResolveRetune(s) ==
    LET t == s.active
    IN  CASE s.tg[t].tune = "none" -> {Rc(s, "ok")}
          [] s.tg[t].tune = "pending" -> {Done(s)}
          [] s.tg[t].tune = "failed" -> Reconcile(s)
          [] OTHER -> {Rc(ArmVisit([s EXCEPT !.tg[t] = [@ EXCEPT !.tune = "none", !.idle = "off"]], t), "ok")}

\* trunk_scan_refresh_activity(): an open carrier holds an analog target
Refresh(s) == IF Kind[s.active] = "nfm" /\ s.live.air = "open" THEN [s EXCEPT !.tg[s.active].act = TRUE] ELSE s

DmrTick(s) == IF Kind[s.active] = "dmr" THEN SmTick(s) ELSE {s}

\* trunk_scan_tick_targets_locked()
Ticked(s) ==
    LET resolved == Then(IF s.tg[s.active].tune # "none" /\ s.tg[s.active].smtune # "none" THEN DmrTick(s) ELSE {s},
                         ResolveRetune)
        parked == Then({n \in resolved : n.rc # "spent"}, RetryActive)
        heard == {Refresh(n) : n \in Then({n \in parked : ~n.tg[n.active].released}, DmrTick)}
        kept == Then(heard, ServiceRelease)
    IN  {n \in resolved : n.rc = "spent"} \cup {n \in parked : n.tg[n.active].released}
          \cup {n \in kept : n.rc = "spent"} \cup Then({n \in kept : n.rc # "spent"}, Dwell)

-----------------------------------------------------------------------------
(* The system *)

Blank == [tg |-> [t \in Targets |-> Fresh], active |-> 1, hold |-> FALSE, live |-> Quiet, rx |-> [t |-> 0, at |-> "cc"],
          job |-> NoJob, gated |-> FALSE, ends |-> [c \in Calls |-> 0], revived |-> {}, back |-> FALSE, forced |-> FALSE, scratch |-> 0, rc |-> "ok",
          orig |-> 1, save |-> TRUE, alt |-> FALSE, tried |-> FALSE]

\* dsd_engine_trunk_scan_init(): the first target, or the round after it
Started == Then({n \in SwitchTo(Blank, 1, FALSE) : n.rc # "prepare"},
                LAMBDA n : IF n.rc = "ok" THEN {n} ELSE Advance(n))

Init ==
    /\ setup \in Setups
    /\ \E s \in Started :
        /\ tg = s.tg /\ active = s.active /\ hold = s.hold /\ live = s.live
        /\ rx = s.rx /\ job = s.job /\ gated = s.gated /\ ends = s.ends /\ revived = s.revived /\ back = s.back

\* dsd_engine_trunk_scan_tick()
Tick == \E s \in Ticked(Here) : Leaves(s)

\* p25_sm_try_tick() and the watchdog tick the machine of a P25 target on air
P25Tick == Kind[active] = "p25" /\ \E s \in SmTick(Here) : Leaves(s)

\* a voice loop asks whether the visit is over; only the tick acts on it
VisitCheck == Leaves(VisitChecked(Here))

Answer(ok) == job # NoJob /\ Leaves(Answered(Here, ok))

OnTarget == Open(Here) /\ rx = [t |-> active, at |-> "cc"]
Unused(c) == live.call # c /\ \A t \in Targets : tg[t].saved # c
Opens(s, c) == [CloseRow(s) EXCEPT !.live.call = c, !.ends[c] = 0, !.revived = @ \ {c}]

\* A grant is followed to its voice channel
Grant(c) ==
    /\ c \in Calls /\ Trunked(active) /\ OnTarget /\ Unused(c) /\ tg[active].sm = "cc" /\ tg[active].smtune = "none"
    /\ \E n \in Tune(Here, active, "vc", FALSE, FALSE) :
          /\ n.rc # "refused"
          /\ Leaves([Opens(n, c) EXCEPT !.live.tuned = TRUE, !.tg[active].sm = "tuned"])

\* trunk_scan_conventional_activity() of a call the policy allows
Activity(c) ==
    /\ c \in Calls /\ Kind[active] = "conv" /\ OnTarget /\ (Unused(c) \/ live.call = c)
    /\ Leaves([(IF live.call = c THEN Here ELSE Opens(Here, c))
                  EXCEPT !.tg[active] = [@ EXCEPT !.act = TRUE, !.idle = "off"], !.live.air = "open"])

\* What the tone filter or the receive policy says of a conventional channel
Heard(a) ==
    /\ Kind[active] \in {"conv", "nfm"} /\ OnTarget /\ a # live.air
    /\ Kind[active] = "conv" => a \in {"quiet", "rejected"}
    /\ a = "rejected before" => live.air = "rejected"
    /\ live' = [live EXCEPT !.air = a] /\ back' = FALSE /\ UNCHANGED <<setup, tg, active, hold, rx, job, gated, ends, revived>>

\* The open call ends on the air
CallOver == live.call # 0 /\ Leaves(CloseRow(Here))

\* A period of a target runs out
Elapse(t, k) ==
    /\ t \in Targets /\ tg[t][k] = "run" /\ tg' = [tg EXCEPT ![t][k] = "over"]
    /\ back' = FALSE /\ UNCHANGED <<setup, active, hold, live, rx, job, gated, ends, revived>>

ActivityOver(t) ==
    /\ t \in Targets /\ tg[t].act /\ tg' = [tg EXCEPT ![t].act = FALSE]
    /\ back' = FALSE /\ UNCHANGED <<setup, active, hold, live, rx, job, gated, ends, revived>>

\* trunk_scan_control_hold_toggle()
HoldToggle ==
    /\ "hold" \in Acts /\ hold' = ~hold
    /\ tg' = [tg EXCEPT ![active] =
                 IF @.visit = "off" THEN [@ EXCEPT !.idle = "off"]
                 ELSE [@ EXCEPT !.idle = "off", !.visit = "run", !.rearm = FALSE]]
    /\ back' = FALSE /\ UNCHANGED <<setup, active, live, rx, job, gated, ends, revived>>

\* trunk_scan_control_avoid_clear()
AvoidClear ==
    LET cleared == [Here EXCEPT !.tg = [t \in Targets |-> [tg[t] EXCEPT !.avoided = FALSE]]]
    IN  /\ \E t \in Targets : tg[t].avoided
        /\ Leaves(IF ~Alternate(Here) /\ Alternate(cleared) /\ tg[active].visit # "off"
                  THEN [cleared EXCEPT !.tg[active] = [@ EXCEPT !.visit = "run", !.rearm = FALSE]] ELSE cleared)

\* trunk_scan_control_avoid_active(): never the last one that can be used
AvoidActive ==
    /\ "avoid" \in Acts /\ \E t, u \in Targets : t # u /\ ~tg[t].avoided /\ ~tg[u].avoided
    /\ \E n \in Advance([Here EXCEPT !.tg[active].avoided = TRUE]) : Leaves(n)

\* trunk_scan_control_advance()
OperatorAdvance == "advance" \in Acts /\ Len(Kind) > 1 /\ \E n \in Advance(Here) : Leaves(n)

Next ==
    \/ Tick \/ P25Tick \/ VisitCheck \/ CallOver
    \/ \E ok \in BOOLEAN : Answer(ok)
    \/ \E c \in AnyCall : Grant(c) \/ Activity(c)
    \/ \E a \in {"quiet", "open", "checking", "rejected", "rejected before"} : Heard(a)
    \/ \E t \in AnyTarget : ActivityOver(t) \/ \E k \in {"idle", "visit", "retry"} : Elapse(t, k)
    \/ HoldToggle \/ AvoidClear \/ AvoidActive \/ OperatorAdvance

Spec == Init /\ [][Next]_vars

\* Ticks come round, periods run out and the backend answers.  Asked for a
\* target again and again it takes it at last, and not only to fail it later.
Fairness ==
    /\ WF_vars(Tick) /\ WF_vars(P25Tick) /\ WF_vars(\E ok \in BOOLEAN : Answer(ok))
    /\ \A t \in AnyTarget :
          /\ \A k \in {"idle", "visit", "retry"} : WF_vars(Elapse(t, k))
          /\ SF_vars(Tick /\ rx'.t = t /\ rx.t # t)
          /\ SF_vars(Tick /\ active = t /\ tg[active].retry = "over" /\ tg'[active].retry = "off")
          /\ SF_vars(Answer(TRUE) /\ job.t = t)

FairSpec == Spec /\ Fairness

-----------------------------------------------------------------------------
Periods == {"off", "run", "over"}
Results == {"none", "pending", "ok", "failed"}

\* The state is of the shape the coordinator keeps, and a target on air with a
\* request out is the target the request is for (tune_pending, trunk_scan.c:2828).
TypeOK ==
    /\ tg \in [Targets -> [avoided : BOOLEAN, idle : Periods, visit : Periods, rearm : BOOLEAN, act : BOOLEAN,
                           retry : Periods, tune : Results, smtune : Results, same : BOOLEAN,
                           sm : {"cc", "tuned", "lost"}, released : BOOLEAN, saved : Calls \cup {0}]]
    /\ active \in Targets /\ hold \in BOOLEAN /\ gated \in BOOLEAN
    /\ live.call \in Calls \cup {0} /\ live.tuned \in BOOLEAN
    /\ rx.t \in Targets \cup {0} /\ rx.at \in {"cc", "vc"}
    /\ tg[active].tune = "pending" => job # NoJob /\ job.t = active

\* Frames that are decoded come from a carrier of the target whose state they
\* go into, once a park has landed: a switch, a rollback or a tune answered
\* late never leaves the gate open on another target's carrier.
DecodedOnTarget == Open(Here) => rx.t \in {0, active}

\* The end of a call is recorded once, whatever snapshots of it were saved,
\* restored and rolled back meanwhile (trunk_scan.c:2930).  Excluded is the
\* call that ends after a failed round, is open in the snapshot that round
\* saved, and comes back with it in a retry in place (trunk_scan.c:3085): its
\* end is recorded again.
CallEndsOnce == \A c \in Calls : ends[c] <= 1 \/ c \in revived

\* What the coordinator keeps for each target, and what it decodes into it.
ScanSound == TypeOK /\ DecodedOnTarget /\ CallEndsOnce

\* The receiver is on the voice channel of a call that an earlier tick found
\* followed (it stopped the dwell)
Following ==
    tg[active].sm = "tuned" /\ rx = [t |-> active, at |-> "vc"] /\ Open(Here) /\ live.call # 0 /\ live.tuned /\ tg[active].idle = "off"

\* No tick cuts a call that is followed, but for the state machine's own
\* return, a visit limit that is over and not suspended by a hold of the
\* operator or of the talkgroup, and the retry a target still owes for a park
\* that failed.
CallKept ==
    [][Tick /\ Following /\ ~back'
          => \/ active' = active /\ rx' = rx /\ live' = live
             \/ active \in Capped /\ tg[active].visit = "over" /\ ~tg[active].rearm /\ ~hold
                  /\ live.call \notin HeldCalls
             \/ tg[active].retry = "over"]_vars

\* With a cap on every target, and a target whose parks are taken, no call and
\* no failed park keeps the receiver from the others for good: each is parked on
\* again and again.
AllVisited == \A t \in AnyTarget : []<>(Targets = Refuse \/ (active = t /\ rx.t = t))

\* A receiver left on an abandoned voice channel, because every park of a
\* forced round failed, is brought back to a control channel.
ReleasedRecovers ==
    \A t \in AnyTarget : (active = t /\ tg[active].released) ~> (rx.at = "cc" \/ active # t \/ ~tg[active].released)

\* The scan goes round, and recovers from rounds in which every park failed.
ScanGoesRound == AllVisited /\ ReleasedRecovers
=============================================================================
