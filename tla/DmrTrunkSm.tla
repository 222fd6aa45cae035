----------------------------- MODULE DmrTrunkSm -----------------------------
(***************************************************************************)
(* Following DMR calls and keeping to the control channel: the state       *)
(* machine of protocol/dmr/dmr_trunk_sm.c, the messages that drive it      *)
(* (dmr_csbk.c, dmr_flco.c), and what the tuning ledger, the no-carrier    *)
(* pass and the operator do to it.                                         *)
(*                                                                         *)
(* A tune of the machine towards a control channel (a return, a probe, a   *)
(* settle tune) is tracked until it is answered or its deadline passes; a  *)
(* tune to a voice channel is not.  The backend answers in order; a        *)
(* failure closes the frame gate until a younger tune succeeds.  Bursts    *)
(* are decoded while the gate is open, and in a voice loop that was        *)
(* entered while it was.  The input is an SDR: the frequency the decoder   *)
(* reads as the tuner's is the one it asked for last.                      *)
(*                                                                         *)
(* A period is "off", "running" or "over"; validated content starts the    *)
(* listening periods that were stamped again.                              *)
(***************************************************************************)
EXTENDS Integers, Sequences, SequencesExt

CONSTANTS
    Freqs,       \* carriers; 0 is none
    Sites,       \* the circumstances checked; a session has one of them
    MaxLive      \* bound: tunes the backend has yet to answer; with 0 every tune is answered in its call

VARIABLES
    site,    \* the circumstances of this session
    m,       \* dmr_sm_ctx_t
    shared,  \* [alias, tuned, force, owner, rest]: trunk_cc_freq, trunk_is_tuned, trunk_sm_force_release,
             \* trunk_recovery_protocol, the rest channel announced
    rx,      \* [hw, center, live, failed]: the receiver, what the decoder reads as its frequency, what the
             \* backend has yet to do, and whether an answered failure closes the gate
    trunk,   \* trunk_enable
    loop,    \* is a voice loop decoding?
    events,  \* bound: events so far
    named,   \* history: the frequencies that were heard, or announced, as the system's own
    moved,   \* history: the operator moved the receiver, and has not been answered by a full window or a burst
    unseen   \* history: the receiver may have moved, or a tune been retired, without the machine being told:
             \* trunking was off, or the operator went to the control channel while another protocol owned the trunk

vars == <<site, m, shared, rx, trunk, loop, events, named, moved, unseen>>

Map == site.map            \* the channel map of the session, without the rows avoided
Messages == site.messages  \* the kinds of burst there are on the air
Loops == site.loops        \* does a voice loop go on decoding bursts across a tune?
Filter == site.filter      \* does the receive policy reject some carriers?
ColdStart == site.cold     \* does the session start without a control channel?
Acts == site.acts          \* what may happen between frames: the operator's moves, another owner, the switch of trunking
MaxEvents == site.events   \* bound: how often

ASSUME DmrAssumption ==
    /\ Freqs \subseteq Nat \ {0} /\ MaxLive \in Nat
    /\ \A s \in Sites :
          /\ s.map \in Seq(Freqs) /\ {s.loops, s.filter, s.cold} \subseteq BOOLEAN /\ s.events \in Nat
          /\ s.messages \subseteq {"cc", "grant", "status", "tscc", "clear", "xpt", "conplus", "voice"}
          /\ s.acts \subseteq {"move", "owner", "trunk"}

Timers == {"dl", "aw", "sw", "armed", "tune", "voice", "rc", "retry"}

\* dmr_sm_init_ctx(): dl is the tune's deadline, aw the probe's window, sw the
\* channel's, armed the startup window, retry the pause between probes
Blank ==
    [st |-> "idle", cc |-> 0, probe |-> 0, rxf |-> 0, cur |-> FALSE, acq |-> FALSE, conf |-> FALSE, req |-> "none",
     lost |-> FALSE, sup |-> FALSE, waited |-> FALSE, hunt |-> FALSE, park |-> 0, xpt |-> FALSE,
     vc |-> 0, follow |-> FALSE, talk |-> FALSE, idx |-> 1, t |-> [k \in Timers |-> "off"]]

InitCtx(alias) ==
    IF alias = 0 THEN Blank
    ELSE [Blank EXCEPT !.st = "cc", !.cc = alias, !.probe = alias, !.t["sw"] = "running"]

Init ==
    /\ site \in Sites
    /\ \E f \in Freqs :
          LET alias == IF ColdStart THEN 0 ELSE f
          IN  /\ m = InitCtx(alias)
              /\ shared = [alias |-> alias, tuned |-> FALSE, force |-> FALSE, owner |-> "none", rest |-> 0]
              /\ rx = [hw |-> f, center |-> f, live |-> <<>>, failed |-> FALSE]
              /\ named = {alias}
    /\ trunk = TRUE /\ loop = FALSE /\ events = 0 /\ moved = FALSE /\ unseen = FALSE

-----------------------------------------------------------------------------
(* A handler runs to its end on the decoder thread: each operator takes    *)
(* the state so far and gives the states it may leave.  go is what the C   *)
(* function returns.                                                       *)

Then(S, Op(_)) == UNION {Op(s) : s \in S}

Here == [m |-> m, a |-> shared, hw |-> rx.hw, center |-> rx.center, live |-> rx.live, failed |-> rx.failed,
         named |-> named, go |-> TRUE]

Leaves(s) ==
    /\ site' = site /\ m' = s.m /\ shared' = s.a /\ named' = s.named
    /\ rx' = [hw |-> s.hw, center |-> s.center, live |-> s.live, failed |-> s.failed]

Go(s) == [s EXCEPT !.go = TRUE]
Stop(s) == [s EXCEPT !.go = FALSE]

\* the ledger is what the backend has yet to do except the operator's moves:
\* is it empty, and is its newest request unresolved?
Settled(s) == ~s.failed /\ \A i \in DOMAIN s.live : s.live[i].tag = "move"
NewestPending(s) ==
    \E i \in DOMAIN s.live :
        s.live[i].tag \notin {"move", "dead"} /\ \A j \in DOMAIN s.live : j > i => s.live[j].tag = "move"

\* dsd_trunk_tuning_frame_is_current() of the machine's receiver attribution
RxCurrent(s) == s.m.cur /\ Settled(s)

Retag(live, from, to) == [i \in DOMAIN live |-> IF live[i].tag = from THEN [live[i] EXCEPT !.tag = to] ELSE live[i]]

\* the tracked request is let go of, not the tune
Loosen(s) == [s EXCEPT !.m.req = "none", !.live = Retag(@, "own", "loose")]

\* A tune through the hooks: refused, done in the call, or answered later.
\* A success starts a generation and retires the failures before it.
Tune(s, f, tag) ==
    {Stop(s)}
      \cup (IF s.live = <<>>
            THEN {Go([s EXCEPT !.hw = f, !.center = f, !.failed = FALSE, !.m.cur = FALSE,
                               !.m.req = IF tag = "own" THEN "ok" ELSE @])} ELSE {})
      \cup (IF Len(s.live) < MaxLive
            THEN LET t == IF tag = "own" THEN [Loosen(s) EXCEPT !.m.req = "pending"] ELSE s
                 IN  {Go([t EXCEPT !.center = f, !.live = Append(@, [f |-> f, tag |-> tag])])}
            ELSE {})

\* set_state()
SetState(s, st) ==
    IF s.m.st = st THEN s
    ELSE [s EXCEPT !.m.st = st, !.m.lost = FALSE,
                   !.m.t["armed"] = IF st = "idle" \/ s.m.hunt THEN @ ELSE "off"]

Start(s, k) == [s EXCEPT !.m.t[k] = "running"]

\* dsd_trunk_dmr_recovery_allowed(), with DMR the only protocol decoded
Allowed(s) == trunk /\ s.a.owner # "other"

\* dmr_cc_current_frequency(), dmr_cc_anchor()
Current(s) == IF s.m.rxf > 0 /\ s.m.cur THEN s.m.rxf ELSE s.center
Anchor(s) == IF s.m.cc > 0 THEN s.m.cc ELSE s.a.alias

-----------------------------------------------------------------------------
(* The tracked tune *)

\* dmr_cc_resolve_pending()
Resolve(s) ==
    LET gone == [s EXCEPT !.m.req = "none", !.live = Retag(@, "own", "dead")]
    IN  IF s.m.req = "none" THEN Go(s)
        ELSE IF s.m.req = "pending" /\ s.m.t["dl"] = "running" THEN Stop(s)
        ELSE IF s.m.req = "ok" THEN Go(Start([gone EXCEPT !.m.rxf = s.m.probe, !.m.cur = TRUE], "aw"))
        ELSE Stop(SetState(Start([gone EXCEPT !.m.acq = FALSE], "retry"), "hunting"))

\* dmr_sm_begin_cc_acquisition()
BeginAcquisition(s, f) ==
    Resolve([s EXCEPT !.m = [Blank EXCEPT !.xpt = s.m.xpt, !.cc = f, !.probe = f, !.acq = TRUE, !.req = s.m.req,
                                          !.st = "cc", !.t = [@ EXCEPT !["aw"] = "running", !["dl"] = "running",
                                                                       !["sw"] = "running"]]])

\* dmr_sm_return_to_cc(): go says whether it was accepted
ReturnToCc(s, f) ==
    {IF ~t.go THEN Stop(s)
     ELSE Go(BeginAcquisition([t EXCEPT !.a.alias = f, !.a.tuned = FALSE], f))
        : t \in IF trunk THEN Tune(s, f, "own") ELSE {Go([s EXCEPT !.m.req = "ok", !.m.cur = FALSE, !.failed = FALSE])}}

-----------------------------------------------------------------------------
(* Control heard *)

ColdClear(s) == [s EXCEPT !.m.hunt = FALSE, !.m.park = 0, !.m.t["armed"] = "off"]

\* dmr_cc_note_activity_ctx(): f is the frequency the message names, 0 none
NoteActivity(s, f) ==
    LET c == Current(s)
    IN  IF (f > 0 /\ f # c) \/ (s.m.acq /\ c # s.m.probe) THEN s
        ELSE SetState(Start([ColdClear(s) EXCEPT !.m.cc = c, !.m.probe = c, !.m.rxf = c, !.m.cur = TRUE, !.m.conf = TRUE,
                                                 !.m.acq = FALSE, !.m.t["retry"] = "off", !.a.alias = c,
                                                 !.a.owner = "dmr", !.named = @ \cup {s.hw}], "sw"), "cc")

\* dmr_sm_note_cc_activity(), dmr_cc_note_monitor_frequency()
NoteCc(s, f) ==
    LET r == Resolve(s)
    IN  IF s.a.tuned THEN s
        ELSE IF ~trunk
        THEN IF f \in {0, s.center} THEN [s EXCEPT !.a.alias = s.center, !.named = @ \cup {s.hw}] ELSE s
        ELSE IF r.go THEN NoteActivity(r, f) ELSE r

\* dmr_sm_note_cc_heartbeat()
Heartbeat(s) ==
    LET r == Resolve(s)
    IN  IF s.a.tuned \/ ~trunk THEN s
        ELSE IF r.go /\ r.m.conf /\ ~r.m.acq /\ r.m.rxf = r.m.cc /\ RxCurrent(r) THEN SetState(Start(r, "sw"), "cc")
        ELSE r

-----------------------------------------------------------------------------
(* Release *)

\* dmr_sm_clear_released_carrier()
ClearCarrier(s, returned, st) ==
    LET t == [s EXCEPT !.m.vc = 0, !.m.follow = FALSE, !.m.talk = FALSE, !.a.tuned = FALSE,
                       !.m.t = [k \in Timers |-> IF k \in {"tune", "voice", "rc"} THEN "off" ELSE @[k]]]
        u == IF returned THEN t ELSE [Loosen(t) EXCEPT !.m.acq = FALSE, !.m.conf = FALSE]
    IN  SetState(u, st)

\* dmr_sm_release_destination()
Destination(s) ==
    IF s.m.follow /\ s.a.rest > 0 THEN s.a.rest ELSE IF s.a.alias > 0 THEN s.a.alias ELSE s.m.cc

\* do_release(): a refused return leaves everything, the latch too
Release(s) ==
    LET unlatched == [s EXCEPT !.a.force = FALSE]
    IN  IF Destination(s) = 0 THEN {ClearCarrier(unlatched, FALSE, "hunting")}
        ELSE {IF t.go THEN ClearCarrier(t, TRUE, "cc") ELSE s : t \in ReturnToCc(unlatched, Destination(s))}

\* dmr_sm_abandon_carrier()
Abandon(s) == ClearCarrier([s EXCEPT !.a.force = FALSE], FALSE, "cc")

-----------------------------------------------------------------------------
(* The startup hunt, and settling the tuning layer *)

\* dmr_sm_hunt_eligible()
HuntEligible(s) ==
    ~s.m.xpt /\ trunk /\ ~s.a.tuned /\ Map # <<>> /\ (s.a.owner = "none" \/ (s.a.owner = "dmr" /\ ~s.m.conf))

\* dmr_sm_cold_start_park_now()
ParkNow(s, keep) ==
    LET t == ColdClear([Loosen(s) EXCEPT !.m.acq = FALSE, !.m.probe = 0, !.m.rxf = 0, !.m.t["retry"] = "off"])
    IN  SetState(IF keep THEN [t EXCEPT !.m.t["armed"] = s.m.t["armed"]] ELSE t, "idle")

\* dmr_sm_settle_step(): go once nothing gates frames
SettleStep(s) ==
    LET r == Resolve(s)
    IN  IF r.m.req # "none" THEN {Stop(r)}
        ELSE IF Settled(r) THEN {Go(r)}
        ELSE IF NewestPending(r) THEN {Stop(r)}
        ELSE {Stop(IF t.go THEN Start([t EXCEPT !.m.probe = r.center], "dl") ELSE r) : t \in Tune(r, r.center, "own")}

\* dmr_sm_cold_start_settle()
ColdSettle(s, keep) ==
    {IF t.go THEN Stop(ParkNow(t, keep)) ELSE t : t \in SettleStep([s EXCEPT !.m.park = IF keep THEN 1 ELSE 2])}

\* dmr_sm_cold_start_gate(): go while the hunt goes on probing
ColdGate(s, decision) ==
    LET tuned == s.m.st = "tuned" \/ s.a.tuned
    IN  IF s.a.owner = "other" \/ (s.a.owner = "dmr" /\ s.m.xpt)
        THEN {Stop(IF s.m.st = "tuned" THEN ColdClear(s) ELSE ParkNow(s, FALSE))}
        ELSE IF ~trunk THEN {Stop(ParkNow(s, FALSE))}
        ELSE IF tuned /\ ~HuntEligible(s) THEN {Stop(ColdClear(s))}
        ELSE IF ~HuntEligible(s) THEN ColdSettle(s, FALSE)
        ELSE IF s.m.park # 0 THEN ColdSettle(s, s.m.park = 1)
        ELSE IF decision /\ s.m.t["armed"] # "over" THEN ColdSettle(s, TRUE)
        ELSE {Go(s)}

\* dmr_sm_settle_after_move(): go once settled
SettleAfterMove(s) ==
    IF ~s.m.sup THEN {Go(s)}
    ELSE {IF ~t.go THEN [t EXCEPT !.m.waited = TRUE]
          ELSE SetState([t EXCEPT !.m.sup = FALSE, !.m.waited = FALSE, !.m.acq = FALSE, !.m.t["retry"] = "off",
                                  !.m.t["sw"] = IF t.m.waited THEN "running" ELSE t.m.t["sw"]], "cc")
          : t \in SettleStep(s)}

-----------------------------------------------------------------------------
(* The hunt for the control channel *)

InMap(f) == \E i \in DOMAIN Map : Map[i] = f

\* dmr_cc_next_mapped_candidate(): the next row that is not being probed; one
\* whose tune never completed is probed again
NextMapped(s) ==
    LET Row(k) == ((s.m.idx + k - 2) % Len(Map)) + 1
        other == {k \in 1 .. Len(Map) : Map[Row(k)] # s.m.probe}
        k == CHOOSE k \in other : \A j \in other : k <= j
    IN  IF other # {} THEN [f |-> Map[Row(k)], idx |-> (Row(k) % Len(Map)) + 1]
        ELSE [f |-> IF s.m.rxf # s.m.probe \/ ~RxCurrent(s) THEN s.m.probe ELSE 0, idx |-> s.m.idx]

\* dmr_cc_next_candidate(): without a map a neighbour that was announced, if any
Candidates(s) ==
    LET anchor == IF s.m.cc > 0 THEN s.m.cc ELSE IF s.m.hunt THEN 0 ELSE s.a.alias
        back == {[f |-> anchor, idx |-> s.m.idx]}
    IN  IF s.m.xpt THEN back
        ELSE IF s.m.probe # anchor /\ anchor > 0 /\ (Map = <<>> \/ InMap(anchor)) THEN back
        ELSE IF Map # <<>> THEN {NextMapped(s)}
        ELSE back \cup {[f |-> f, idx |-> s.m.idx] : f \in Freqs}

\* dmr_cc_window_open()
WindowOpen(s) == s.m.t[IF s.m.acq THEN "aw" ELSE "sw"] = "running"

\* a probe, of dmr_cc_hunt(): the return destination is put back
Probe(s, f) ==
    Then(Tune(s, f, "own"), LAMBDA t :
        IF ~t.go THEN {s}
        ELSE {Resolve(SetState(Start(Start([t EXCEPT !.m.probe = f, !.m.acq = TRUE], "aw"), "dl"), "cc"))})

HuntFrom(s) ==
    LET Chosen(c) ==
            LET t == Start([s EXCEPT !.m.lost = FALSE, !.m.idx = c.idx], "retry")
            IN  IF c.f = 0 THEN {t}
                ELSE IF c.f = t.m.rxf /\ RxCurrent(t)
                THEN {SetState(Start([t EXCEPT !.m.probe = c.f, !.m.acq = TRUE], "aw"), "cc")}
                ELSE Probe(t, c.f)
    IN  IF s.m.lost /\ WindowOpen(s) THEN {SetState(s, "cc")} ELSE Then(Candidates(s), Chosen)

\* dmr_cc_hunt()
Hunt(s) ==
    IF ~Allowed(s) \/ s.a.tuned \/ s.m.t["retry"] = "running" THEN {s}
    ELSE Then(IF s.m.hunt THEN ColdGate(s, TRUE) ELSE {Go(s)}, LAMBDA t : IF t.go THEN HuntFrom(t) ELSE {t})

-----------------------------------------------------------------------------
(* The tick *)

\* dmr_sm_tick_idle_cold_start()
TickIdle(s) ==
    IF ~HuntEligible(s) THEN {[s EXCEPT !.m.t["armed"] = "off"]}
    ELSE IF s.m.t["armed"] = "off" THEN {Start(s, "armed")}
    ELSE IF s.m.t["armed"] = "running" THEN {s}
    ELSE Hunt(SetState([s EXCEPT !.m.hunt = TRUE, !.m.t["retry"] = "off"], "hunting"))

\* tick_on_cc()
TickOnCc(s) ==
    IF ~s.m.acq /\ s.m.t["sw"] = "off" THEN Start(s, "sw")
    ELSE IF WindowOpen(s) THEN s
    ELSE IF s.m.xpt /\ s.m.rxf > 0 /\ s.m.rxf = Anchor(s) /\ RxCurrent(s)
    THEN Start([s EXCEPT !.m.acq = FALSE], "sw")
    ELSE [SetState(s, "hunting") EXCEPT !.m.lost = TRUE]

\* dmr_sm_receive_check(): go while the carrier is admitted
ReceiveCheck(s, admitted) ==
    LET quiet == [s EXCEPT !.m.talk = FALSE]
    IN  IF admitted THEN {Go([s EXCEPT !.m.t["rc"] = "off"])}
        ELSE IF s.m.t["rc"] = "off" THEN {Stop(Start(quiet, "rc"))}
        ELSE IF s.m.t["rc"] = "running" THEN {Stop(quiet)}
        ELSE {Stop(t) : t \in Release([quiet EXCEPT !.m.t["rc"] = "off"])}

(* Mutant: a call that never had voice is kept *)
TickTunedHangtime(s, admitted) ==
    LET Timed(t) == IF ~t.go \/ t.m.talk \/ t.m.t["voice"] # "over" THEN {t} ELSE Release(t)
    IN  IF s.a.force THEN Release(s) ELSE Then(ReceiveCheck(s, admitted), Timed)

\* tick_tuned(): the hangtime after voice, the grant timeout before it
TickTuned(s, admitted) ==
    LET Timed(t) ==
            IF ~t.go \/ t.m.talk THEN {t}
            ELSE IF t.m.t["voice"] = "over" \/ (t.m.t["voice"] = "off" /\ t.m.t["tune"] = "over") THEN Release(t)
            ELSE {t}
    IN  IF s.a.force THEN Release(s) ELSE Then(ReceiveCheck(s, admitted), Timed)

\* dmr_sm_tick_ready()
Ready(s) ==
    Then(IF s.m.hunt THEN ColdGate(s, FALSE) ELSE {Go(s)}, LAMBDA t :
        IF ~t.go THEN {t} ELSE Then(SettleAfterMove(t), LAMBDA u : IF u.go THEN {Resolve(u)} ELSE {u}))

\* dmr_sm_tick_ctx()
Ticked(s, admitted) ==
    LET Work(t) ==
            IF ~t.go THEN {t}
            ELSE CASE t.m.st = "idle" -> TickIdle(t)
                   [] t.m.st = "cc" -> IF t.a.tuned THEN ReceiveCheck(t, admitted) ELSE {TickOnCc(t)}
                   [] t.m.st = "tuned" -> TickTuned(t, admitted)
                   [] t.m.st = "hunting" -> Hunt(t)
    IN  IF Allowed(s) THEN Then(Ready(s), Work)
        ELSE IF s.m.hunt THEN ColdGate(s, FALSE) ELSE {[s EXCEPT !.m.t["armed"] = "off"]}

-----------------------------------------------------------------------------
(* What a burst carries *)

\* the rest of handle_grant(), and dmr_sm_note_status_follow()
Follow(s, f, status) ==
    SetState([Loosen(s) EXCEPT !.m.vc = f, !.m.follow = status, !.m.talk = FALSE, !.m.acq = FALSE,
                               !.m.sup = FALSE, !.a.tuned = TRUE,
                               !.m.t = [k \in Timers |-> IF k = "tune" THEN "running"
                                                          ELSE IF k = "voice" THEN "off" ELSE @[k]]], "tuned")

FollowAt(s, f, status) == {IF t.go THEN Follow(t, f, status) ELSE s : t \in Tune(s, f, "loose")}

\* handle_grant(): admitted by the receive policy, and on a channel that is trusted
Grant(s, f, admitted) ==
    LET t == [s EXCEPT !.a.owner = "dmr"]
        proven == IF t.m.acq /\ ~t.a.tuned /\ RxCurrent(t) THEN NoteActivity(t, t.m.probe) ELSE t
    IN  IF ~trunk \/ t.a.alias = 0 \/ t.m.req # "none" \/ ~admitted \/ (t.m.st = "tuned" /\ t.m.vc = f) THEN {t}
        ELSE FollowAt(proven, f, FALSE)

\* dmr_cspdu_pf0_c_bcast_try_switch_tscc()
SwitchTscc(s, f) ==
    IF ~trunk \/ s.a.tuned \/ s.a.alias \in {0, f} THEN {s} ELSE ReturnToCc([s EXCEPT !.named = @ \cup {f}], f)

\* dmr_sm_receiver_on()
ReceiverOn(s, f) == (s.m.req # "none" /\ s.m.probe = f) \/ Current(s) = f

\* a Capacity Plus status (dmr_cspdu_cap_plus_handle_3e()): the rest channel,
\* then a call to follow (g, 0 for none), then the return to the rest channel
Status(s, rest, g) ==
    LET noted == NoteCc([s EXCEPT !.a.rest = rest, !.named = @ \cup {rest}], rest)
        Called(t) == IF g = 0 \/ ~trunk \/ t.a.alias = 0 \/ (t.m.st = "tuned" /\ t.m.vc = g) THEN {t}
                     ELSE FollowAt(t, g, TRUE)
        Rested(t) == IF ~trunk THEN {t}
                     ELSE IF t.a.tuned THEN {[t EXCEPT !.a.alias = rest]}
                     ELSE IF ReceiverOn(t, rest) THEN {t} ELSE ReturnToCc(t, rest)
    IN  Then(Called(noted), Rested)

\* dmr_slco_tune_and_reset(): the alias is the new channel's, tuned or not
TuneAndReset(s, f) ==
    LET t == [s EXCEPT !.a.alias = f, !.named = @ \cup {f}]
    IN  {IF u.go THEN BeginAcquisition([u EXCEPT !.a.tuned = FALSE], f) ELSE t : u \in Tune(t, f, "own")}

\* dmr_sm_note_xpt_site(), and the hop to the free channel (f, 0 for none)
Xpt(s, f) ==
    LET known == [s EXCEPT !.m.xpt = TRUE, !.a.owner = "dmr"]
        t == IF s.a.tuned \/ s.m.st = "tuned" THEN known
             ELSE [known EXCEPT !.m.cc = Current(s), !.a.alias = Current(s), !.named = @ \cup {s.hw}]
    IN  IF f = 0 \/ ~trunk THEN {t} ELSE TuneAndReset(t, f)

\* dmr_cspdu_pf0_handle_p_clear(), handle_release()
Clear(s, force) ==
    LET t == [s EXCEPT !.a.force = @ \/ force]
    IN  IF ~trunk THEN {s}
        ELSE IF s.a.alias = 0 \/ ~s.a.tuned \/ s.m.st # "tuned" THEN {t}
        ELSE IF t.a.force THEN Release(t) ELSE {[t EXCEPT !.m.talk = FALSE]}

\* a channel of Connect Plus or XPT that the message tunes by itself
ConPlus(s, f) ==
    IF ~trunk \/ s.a.alias = 0 THEN {s}
    ELSE {IF t.go THEN [t EXCEPT !.a.tuned = TRUE] ELSE s : t \in Tune(s, f, "loose")}

\* accepted voice, or data of a followed call
Voice(s) ==
    IF s.m.st = "tuned" THEN [s EXCEPT !.m.talk = TRUE, !.m.t["voice"] = "running"] ELSE s

\* validated content: what was stamped runs again
Content(s) ==
    [s EXCEPT !.m.t = [k \in Timers |-> IF k \in {"aw", "sw", "armed"} /\ @[k] # "off" THEN "running" ELSE @[k]]]

\* dmr_cspdu(): a CSBK is a heartbeat first, and names the first control channel
Csbk(s) ==
    LET t == Heartbeat([s EXCEPT !.a.owner = "dmr"])
    IN  IF trunk /\ ~t.a.tuned /\ t.a.alias = 0 THEN [t EXCEPT !.a.alias = t.center, !.named = @ \cup {s.hw}] ELSE t

\* A burst of the carrier the operator is leaving, while the tuner is still on
\* its way, is left out (TetraTrunkSm has it).
Decode(kind, S) ==
    /\ kind \in Messages /\ (Settled(Here) \/ loop) /\ \A i \in DOMAIN rx.live : rx.live[i].tag # "move"
    /\ \E s \in S : Leaves(s)
    /\ loop' = (loop \/ (Loops /\ kind = "voice"))
    /\ moved' = FALSE /\ UNCHANGED <<trunk, events, unseen>>

Heard == Content(Here)

\* ALOHA, or a short LC of a control channel
ControlBurst == \E first \in {Heard, Csbk(Heard)} : Decode("cc", {NoteCc(first, 0)})
GrantBurst(f, admitted) == Decode("grant", Grant(Csbk(Heard), f, admitted))
TsccBurst(f) == Decode("tscc", SwitchTscc(Csbk(Heard), f))
StatusBurst(rest, g) == Decode("status", Status(Csbk(Heard), rest, g))
ClearBurst(force) == Decode("clear", Clear(Csbk(Heard), force))
XptBurst(f) == Decode("xpt", Xpt(Heard, f))
ConPlusBurst(f) == Decode("conplus", ConPlus(Csbk(Heard), f))
VoiceBurst == Decode("voice", {Voice(Heard)})

LoopEnds == loop /\ loop' = FALSE /\ UNCHANGED <<site, m, shared, rx, trunk, events, named, moved, unseen>>

-----------------------------------------------------------------------------
(* The clock, the backend and the operator *)

Tick(admitted) ==
    /\ admitted \/ Filter
    /\ \E s \in Ticked(Here, admitted) : Leaves(s)
    /\ UNCHANGED <<trunk, loop, events, moved, unseen>>

\* no_carrier_return_to_control_channel_if_needed(): a voice channel nobody
\* follows is left for the control channel
NoCarrier ==
    /\ ~loop /\ trunk /\ shared.tuned /\ shared.alias > 0
    /\ (Allowed(Here) => m.st # "tuned" /\ m.req = "none")
    /\ \E t \in Tune(Here, shared.alias, "own") :
          Leaves(IF ~t.go THEN Here
                 ELSE IF Allowed(t) THEN BeginAcquisition([t EXCEPT !.a.tuned = FALSE], t.a.alias)
                 ELSE Loosen([t EXCEPT !.a.tuned = FALSE]))
    /\ UNCHANGED <<trunk, loop, events, moved, unseen>>

\* a period passes; the bursts of a voice loop keep the listening periods open
Pass(k) ==
    /\ m.t[k] = "running" /\ (loop => k \notin {"aw", "sw", "armed"})
    /\ m' = [m EXCEPT !.t[k] = "over", !.talk = IF k = "voice" THEN FALSE ELSE @]
    /\ moved' = (moved /\ (k \notin {"sw", "armed"} \/ (m.sup /\ m.waited)))
    /\ UNCHANGED <<site, shared, rx, trunk, loop, events, named, unseen>>

\* the oldest of what the backend has to do takes effect, or fails
Answer(ok) ==
    /\ rx.live # <<>>
    /\ LET r == Head(rx.live)
       IN  /\ r.tag = "move" => ok
           /\ rx' = [rx EXCEPT !.hw = IF ok THEN r.f ELSE @, !.live = Tail(@),
                               !.failed = IF r.tag = "move" THEN @ ELSE ~ok \/ r.tag = "dead"]
           /\ m' = [m EXCEPT !.req = IF r.tag # "own" THEN @ ELSE IF ok THEN "ok" ELSE "failed",
                             !.cur = @ /\ ~(ok /\ r.tag \in {"own", "loose"})]
    /\ UNCHANGED <<site, shared, trunk, loop, events, named, moved, unseen>>

\* commands are applied between frames
Event(act) == ~loop /\ act \in Acts /\ events < MaxEvents /\ events' = events + 1

(* Mutant: what was tracked is still where the receiver is *)
NoteRetuneKeeps(s) ==
    IF s.m.st = "idle" THEN s
    ELSE LET u == IF s.m.st = "tuned" THEN Abandon(s) ELSE s
         IN  SetState(Start([u EXCEPT !.m.acq = FALSE, !.m.sup = TRUE, !.m.waited = FALSE], "sw"), "cc")

(* Mutant: the listening period is not started for the new carrier *)
NoteRetuneUntimed(s) ==
    IF s.m.hunt THEN [s EXCEPT !.m.park = 1, !.m.probe = 0, !.m.rxf = 0]
    ELSE IF s.m.st = "idle" THEN s
    ELSE LET t == IF s.m.st = "tuned" THEN Abandon(s) ELSE s
         IN  SetState([t EXCEPT !.m.rxf = 0, !.m.cur = FALSE, !.m.probe = 0, !.m.acq = FALSE, !.m.sup = TRUE,
                                !.m.waited = FALSE, !.m.t = [@ EXCEPT !["aw"] = "off", !["retry"] = "off"]], "cc")

\* dmr_sm_cold_start_note_retune()
NoteRetune(s) ==
    IF s.m.hunt THEN Start([s EXCEPT !.m.park = 1, !.m.probe = 0, !.m.rxf = 0], "armed")
    ELSE IF s.m.st = "idle" THEN IF s.m.t["armed"] = "off" THEN s ELSE Start(s, "armed")
    ELSE LET t == IF s.m.st = "tuned" THEN Abandon(s) ELSE s
         IN  SetState(Start([t EXCEPT !.m.rxf = 0, !.m.cur = FALSE, !.m.probe = 0, !.m.acq = FALSE, !.m.sup = TRUE,
                                      !.m.waited = FALSE, !.m.t = [@ EXCEPT !["aw"] = "off", !["retry"] = "off"]],
                            "sw"), "cc")

\* the operator moves the receiver: a manual tune or a channel cycle, or a
\* return to the control channel, which tells the machine that owns the trunk
Move(f, return) ==
    /\ Event("move") /\ (return => f = shared.alias)
    /\ \E s \in (IF rx.live = <<>> THEN {[Here EXCEPT !.hw = f, !.center = f]} ELSE {})
                  \cup (IF Len(rx.live) < MaxLive
                        THEN {[Here EXCEPT !.center = f, !.live = Append(@, [f |-> f, tag |-> "move"])]} ELSE {}) :
          Leaves(IF return /\ ~Allowed(s) THEN [s EXCEPT !.a.tuned = FALSE]
                 ELSE NoteRetune([s EXCEPT !.a.tuned = FALSE]))
    /\ moved' = ((return => Allowed(Here)) /\ (m.st # "idle" \/ m.t["armed"] # "off")
                 /\ ~(m.hunt /\ m.st = "tuned" /\ m.xpt))
    /\ unseen' = (unseen \/ (return /\ ~Allowed(Here))) /\ UNCHANGED <<trunk, loop>>

\* another protocol's control is validated
OtherOwner == Event("owner") /\ shared' = [shared EXCEPT !.owner = "other"] /\ UNCHANGED <<site, m, rx, trunk, loop, named, moved, unseen>>

\* apply_tuner_release(), and the switch of trunking
SetTrunk(on) ==
    /\ Event("trunk") /\ trunk # on /\ trunk' = on /\ unseen' = TRUE
    /\ shared' = IF on THEN shared ELSE [shared EXCEPT !.tuned = FALSE]
    /\ UNCHANGED <<site, m, rx, loop, named, moved>>

\* dsd_engine_retire_inactive_tune_failures(): with no owner
Retire ==
    /\ ~loop /\ ~trunk /\ ~Settled(Here) /\ ~NewestPending(Here)
    /\ rx' = [rx EXCEPT !.center = rx.hw, !.failed = FALSE, !.live = Retag(@, "dead", "move")]
    /\ UNCHANGED <<site, m, shared, trunk, loop, events, named, moved, unseen>>

Decoding ==
    \/ ControlBurst \/ VoiceBurst
    \/ \E f \in Freqs : TsccBurst(f) \/ ConPlusBurst(f)
    \/ \E f \in Freqs, admitted \in BOOLEAN : GrantBurst(f, admitted)
    \/ \E f \in Freqs, g \in Freqs \cup {0} : StatusBurst(f, g)
    \/ \E force \in BOOLEAN : ClearBurst(force)
    \/ \E f \in Freqs \cup {0} : XptBurst(f)

Operator ==
    \/ \E f \in Freqs, return \in BOOLEAN : Move(f, return)
    \/ OtherOwner
    \/ \E on \in BOOLEAN : SetTrunk(on)

Next ==
    \/ Decoding \/ LoopEnds
    \/ \E admitted \in BOOLEAN : Tick(admitted)
    \/ NoCarrier
    \/ \E k \in Timers : Pass(k)
    \/ \E ok \in BOOLEAN : Answer(ok)
    \/ Operator \/ Retire

Spec == Init /\ [][Next]_vars

\* a tick has a tune to f accepted
Asks(f) ==
    /\ Tick(TRUE) /\ rx'.center = f
    /\ Len(rx'.live) > Len(rx.live) \/ (rx'.live = <<>> /\ rx'.hw = f /\ m'.probe = f)

\* No period passes while the backend is as far behind as the bound allows.
Timely == \A k \in Timers : m.t[k] = "running" /\ m'.t[k] = "over" => Len(rx.live) < MaxLive

\* The decode loop ticks the machine and runs the no-carrier pass; time passes;
\* the backend answers every request.  A tuner that is asked for a carrier
\* again and again does not refuse it, or fail it or miss its deadline, for ever.
FairSpec ==
    /\ Init /\ [][Next /\ Timely]_vars
    /\ WF_vars(Tick(TRUE)) /\ WF_vars(\E ok \in BOOLEAN : Answer(ok)) /\ SF_vars(NoCarrier /\ ~shared'.tuned)
    /\ \A k \in Timers : WF_vars(Pass(k) /\ Timely)
    /\ \A f \in Freqs : SF_vars(Asks(f)) /\ SF_vars(Answer(TRUE) /\ Head(rx.live) = [f |-> f, tag |-> "own"])

-----------------------------------------------------------------------------
(* Properties *)

TypeOK ==
    /\ m.st \in {"idle", "cc", "tuned", "hunting"} /\ {m.cc, m.probe, m.rxf, m.vc} \subseteq Freqs \cup {0}
    /\ m.req \in {"none", "pending", "ok", "failed"} /\ m.park \in 0 .. 2
    /\ m.req = "pending" <=> \E i \in DOMAIN rx.live : rx.live[i].tag = "own"
    /\ shared.alias \in Freqs \cup {0} /\ {rx.hw, rx.center} \subseteq Freqs

(* Off a voice channel, where the machine takes the receiver to be is      *)
(* where it is, once the backend has nothing left to do: whatever tunes    *)
(* were late, failed, given up at their deadline or overtaken by the       *)
(* operator.  (unseen is left out: across a tune that was retired with     *)
(* trunking off, and across an operator's return that only another         *)
(* protocol was told of, the code keeps its attribution.)                  *)
AttributionSound == ~unseen /\ m.rxf # 0 /\ m.cur /\ ~shared.tuned /\ rx.live = <<>> /\ ~rx.failed => rx.hw = m.rxf

(* The frequency a release returns to was heard, or announced, as the      *)
(* system's own: no probe and no settle tune leaves its own there.  (A     *)
(* voice loop that decodes across a tune is left out: it may take the      *)
(* frequency of a probe that failed for the one it hears; and unseen is,   *)
(* for a stale attribution names the wrong carrier.)                       *)
ReturnNamed == ~Loops /\ ~unseen /\ shared.alias # 0 => shared.alias \in named

(* What the machine says of the receiver, and of where it will return to.  *)
DmrSound == TypeOK /\ AttributionSound /\ ReturnNamed

(* Where the operator moved the receiver it stays for a full listening     *)
(* period: no tick, no answer to an older tune and no tune that settles    *)
(* the ledger takes it elsewhere.  (With trunking off nothing tunes; what  *)
(* the decoder reads as the frequency is corrected then.  moved leaves out *)
(* a call followed during the startup hunt on a site that since identified *)
(* itself as XPT: that branch of dmr_sm_cold_start_note_retune() does not  *)
(* abandon the call, the gate ends the hunt, and the call's release tunes  *)
(* away from where the operator went.)                                     *)
MoveKept == [][moved /\ moved' /\ trunk /\ events' = events => rx'.center = rx.center]_vars

(* A call that was followed is left once it is silent, or never spoke: a   *)
(* return that is refused is asked for again.                              *)
SilentCallLeft ==
    \A f \in Freqs : (m.st = "tuned" /\ m.vc = f /\ m.t["voice"] # "running")
                         ~> (m.st # "tuned" \/ m.vc # f \/ m.t["voice"] = "running")

(* The frame gate opens again and again: a tune that failed, the untracked *)
(* one of a call too, is replaced.                                         *)
GateOpens == []<>Settled(Here)

(* With nothing to hear, the hunt, of a cold start too, brings the         *)
(* receiver to every row of the channel map again and again.               *)
HuntVisits == \A f \in Freqs : []<>(Messages # {} \/ ~InMap(f) \/ rx.hw = f)

(* The machine is not stuck: on a call, behind a failed tune, or in a hunt.*)
DmrGoesOn == SilentCallLeft /\ GateOpens /\ HuntVisits
=============================================================================
