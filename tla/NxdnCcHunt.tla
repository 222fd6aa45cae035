---------------------------- MODULE NxdnCcHunt ----------------------------
(***************************************************************************)
(* The NXDN control channel hunt (protocol/nxdn/nxdn_cc_hunt.c).  NXDN has *)
(* no trunking state machine; when the control side yields no validated    *)
(* content for a grace period, the hunt walks the channel map, a row at a  *)
(* time, until a CAC names the control channel.  It shares the tuner with  *)
(* the calls followed, with their returns, and with the operator, and only *)
(* a tune that succeeds lifts the gate a failed one left on every frame.   *)
(*                                                                         *)
(* The ledger of TuneRequests appears here as the sequence of requests     *)
(* that are unresolved, or that someone still asks about, oldest first;    *)
(* the backend answers them in that order.  Times are ages, and time left, *)
(* in units a little longer than a decoder pass, up to the longest period  *)
(* they are compared with.                                                 *)
(***************************************************************************)
EXTENDS Integers, Sequences, SequencesExt, FiniteSets

CONSTANTS
    Freqs,        \* frequencies; 0 is none
    Airs,         \* the receptions a run may begin in: the rows of the map (lcn, each
                  \* a frequency or 0), the avoided ones, where CACs, Type-D SCCHs and
                  \* other validated content are heard, and whether the tuner is a
                  \* rigctl peer, which answers in the call
    Grace, Probe, Timeout,   \* NXDN_CC_HUNT_GRACE_S, _PROBE_S, _TUNE_TIMEOUT_S
    MaxOpen,      \* bound: requests in the ledger when another is left open
    MaxEvents     \* bound: operator, command and input events

ASSUME HuntAssumption ==
    /\ Freqs \subseteq Nat \ {0}
    /\ \A a \in Airs :
          /\ a.control \cup a.typeD \cup a.busy \subseteq Freqs
          /\ a.map \in Seq(Freqs \cup {0})
          /\ a.avoid \subseteq DOMAIN a.map /\ a.rigctl \in BOOLEAN
    /\ {Grace, Probe, Timeout, MaxOpen, MaxEvents} \subseteq Nat

Unarmed == -1

VARIABLES
    air,      \* the reception, which does not change
    h,        \* nxdn_cc_hunt_ctx
    ledger,   \* the tune requests
    receiver,       \* the frequency the receiver is on
    center,   \* rtlsdr_center_freq: what the decoder believes
    trunk,    \* trunk_enable
    tuned,    \* trunk_is_tuned: a granted call is followed
    owner,    \* trunk_recovery_protocol
    boundary, \* input_boundary
    lock,     \* age of nxdn_confirm_lock_m
    cc,       \* trunk_cc_freq
    due,      \* a frame was dispatched and the tick after it is to come
    events,   \* bound: events so far
    heard,    \* history: where control was heard, by the receiver
    landed,   \* history: age of the last tune of others, if it landed
    typeD     \* history: a Type-D site was proven last

world == <<receiver, center, trunk, tuned, owner, boundary, lock, cc>>
switches == <<trunk, boundary>>
records == <<heard, landed, typeD>>
huntVars == <<air, h, ledger, world, due, events, heard, landed, typeD>>

Oldest == Grace + 1

Map == air.map
Avoid == air.avoid
CcFreqs == air.control
TypeDFreqs == air.typeD
BusyFreqs == air.busy
Rigctl == air.rigctl

HuntInit ==
    /\ air \in Airs
    /\ h = [armed |-> Unarmed, retry |-> 0, deadline |-> 0, own |-> FALSE, foreign |-> FALSE,
            probe |-> 0, rx |-> 0, current |-> FALSE, attempt |-> 0, cc |-> 0,
            confirmed |-> FALSE, hunting |-> FALSE, park |-> 0, index |-> 1]
    /\ ledger = <<>>
    /\ receiver \in Freqs /\ center = receiver
    /\ trunk = TRUE /\ tuned = FALSE /\ owner = "unknown" /\ boundary = FALSE
    /\ lock = Oldest /\ cc = 0
    /\ due = FALSE /\ events = 0 /\ heard = {} /\ landed = Oldest /\ typeD = FALSE

-----------------------------------------------------------------------------
(* The tuning layer.  A request is pending, gated (failed, the gate closed *)
(* behind it), ok or failed; a move is one that no request stands for.  It *)
(* is live until the backend has answered it.                              *)

Unresolved(L) == {i \in DOMAIN L : L[i].state \in {"pending", "gated"}}
GateOpen == Unresolved(ledger) = {}
Live(L) == {i \in DOMAIN L : L[i].live}
Newest(L) == IF Unresolved(L) = {} THEN 0 ELSE CHOOSE i \in Unresolved(L) : \A j \in Unresolved(L) : j <= i

\* dsd_trunk_tuning_request_status() of the requests a mark is on
StatusOf(L, mark) ==
    LET S == {i \in DOMAIN L : mark \in L[i].marks}
    IN  IF S = {} THEN [state |-> "failed", age |-> 0]
        ELSE LET r == L[CHOOSE i \in S : TRUE]
             IN  [state |-> IF r.state = "gated" THEN "failed" ELSE r.state, age |-> r.age]

Unmark(L, mark) == [i \in DOMAIN L |-> [L[i] EXCEPT !.marks = @ \ {mark}]]

\* what nobody waits for or asks about is forgotten
Kept(L) == {i \in DOMAIN L : L[i].live \/ L[i].state \in {"pending", "gated"} \/ L[i].marks # {}}
Trim(L) ==
    LET nth(n) == CHOOSE i \in Kept(L) : Cardinality({j \in Kept(L) : j <= i}) = n
    IN  [n \in 1 .. Cardinality(Kept(L)) |-> L[nth(n)]]

\* a success retires the older failures and starts a tuning generation
Succeed(L, i) ==
    [j \in DOMAIN L |->
        IF j = i THEN [L[j] EXCEPT !.state = "ok", !.live = FALSE, !.age = 0]
        ELSE IF j < i /\ L[j].state = "gated" THEN [L[j] EXCEPT !.state = "failed"]
        ELSE L[j]]

Request(f, marks) == [state |-> "pending", live |-> TRUE, freq |-> f, marks |-> marks, age |-> 0]

\* dsd_trunk_tuning_hook_tune_to_cc() and its siblings: refused, answered in
\* the call, or accepted and answered later
RequestTune(s, f, marks) ==
    {[s EXCEPT !.result = "refused"]}
      \cup (IF Live(s.L) = {}
            THEN {[s EXCEPT !.result = "ok", !.receiver = f, !.center = f, !.h.current = FALSE,
                            !.L = LET L == Append(@, Request(f, marks)) IN Succeed(L, Len(L))]}
            ELSE {})
      \cup (IF ~Rigctl /\ Len(s.L) < MaxOpen
            THEN {[s EXCEPT !.result = "ok", !.center = f, !.L = Append(@, Request(f, marks))]}
            ELSE {})

-----------------------------------------------------------------------------
(* The hunt.  A tick runs to its end on the decoder thread: each operator  *)
(* takes the state so far and gives the states it may leave.               *)

\* what Op leaves, from each of the states in S
Then(S, Op(_)) == UNION {Op(s) : s \in S}

Here == [h |-> h, L |-> ledger, receiver |-> receiver, center |-> center, result |-> "none"]

\* nxdn_cc_hunt_tuner_frequency(): a rigctl query may fail
TunerFrequency(s) == IF Rigctl THEN {s.receiver, 0} ELSE {s.center}

\* nxdn_cc_hunt_tune(): the shared control channel keeps its value
HuntTune(s, f) ==
    {IF t.result = "ok"
     THEN [t EXCEPT !.h.attempt = f, !.h.probe = f, !.h.rx = 0, !.h.current = FALSE, !.h.own = TRUE,
                    !.h.deadline = Timeout]
     ELSE [t EXCEPT !.h.attempt = f] : t \in RequestTune(s, f, {"own"})}

\* nxdn_cc_hunt_resolve(): an unanswered request is failed at its deadline,
\* and its gate stays
Expire(L) ==
    [i \in DOMAIN L |-> IF "own" \in L[i].marks /\ L[i].state = "pending"
                        THEN [L[i] EXCEPT !.state = "gated"] ELSE L[i]]

Max0(n) == IF n > 0 THEN n ELSE 0

(* Mutant: a probe that completed attributes the receiver even when the    *)
(* operator has moved it since                                             *)
ResolveAttributes(s) ==
    LET now == StatusOf(s.L, "own")
        L == IF now.state = "pending" THEN Expire(s.L) ELSE s.L
    IN  IF ~s.h.own THEN [s EXCEPT !.result = "resolved"]
        ELSE IF now.state = "pending" /\ s.h.deadline > 0 THEN [s EXCEPT !.result = "waiting"]
        ELSE [s EXCEPT !.result = "resolved", !.h.own = FALSE, !.L = Unmark(L, "own"),
                       !.h.rx = IF now.state = "ok" THEN s.h.attempt ELSE @,
                       !.h.current = @ \/ now.state = "ok",
                       !.h.retry = IF now.state = "ok" /\ s.h.hunting THEN Max0(Probe - now.age) ELSE @]

Resolve(s) ==
    LET now == StatusOf(s.L, "own")
        L == IF now.state = "pending" THEN Expire(s.L) ELSE s.L
        lands == now.state = "ok" /\ s.h.probe > 0
    IN  IF ~s.h.own THEN [s EXCEPT !.result = "resolved"]
        ELSE IF now.state = "pending" /\ s.h.deadline > 0 THEN [s EXCEPT !.result = "waiting"]
        ELSE [s EXCEPT !.result = "resolved", !.h.own = FALSE, !.L = Unmark(L, "own"),
                       !.h.rx = IF lands THEN s.h.probe ELSE @,
                       !.h.current = @ \/ lands,
                       !.h.retry = IF lands /\ s.h.hunting THEN Max0(Probe - now.age) ELSE @]

\* nxdn_cc_hunt_may_run()
MayRun(g) ==
    /\ trunk /\ ~tuned /\ ~boundary
    /\ \E i \in DOMAIN Map : Map[i] > 0
    /\ owner \in {"unknown", "nxdn"}
    /\ owner = "nxdn" => g.confirmed

\* nxdn_cc_hunt_window_expired()
WindowExpired(g) == (IF lock < g.armed THEN lock ELSE g.armed) > Grace

\* nxdn_cc_hunt_follow_foreign_tune()
Followed(s) ==
    LET newest == Newest(s.L)
        inFlight == newest # 0 /\ "own" \notin s.L[newest].marks /\ s.L[newest].state = "pending"
        was == StatusOf(s.L, "foreign")
    IN  IF inFlight
        THEN [s EXCEPT !.result = "waiting", !.h.foreign = TRUE, !.h.armed = 0,
                       !.L = [Unmark(s.L, "foreign") EXCEPT ![newest].marks = @ \cup {"foreign"}]]
        ELSE [s EXCEPT !.result = "none", !.h.foreign = FALSE, !.L = Unmark(s.L, "foreign"),
                       !.h.armed = IF s.h.foreign /\ was.state = "ok" /\ was.age < @
                                   THEN was.age ELSE @]

\* nxdn_cc_hunt_park_now()
ParkNow(s, keep) ==
    [s EXCEPT !.h.armed = IF keep THEN @ ELSE Unarmed,
              !.h.hunting = FALSE, !.h.park = 0, !.h.own = FALSE, !.L = Unmark(s.L, "own"),
              !.h.probe = 0, !.h.attempt = 0, !.h.rx = 0, !.h.current = FALSE, !.h.retry = 0]

(* Mutant: a hunt parks behind a failed tune *)
SettleAnyhow(s, keep) ==
    {IF t.result = "waiting" THEN t ELSE ParkNow(t, keep)
       : t \in {Resolve([s EXCEPT !.h.park = IF keep THEN 1 ELSE 2])}}

\* nxdn_cc_hunt_settle(): a tune in flight is waited for, a failure replaced
Settle(s, keep) ==
    LET Replace(t) == Then(TunerFrequency(t) \ {0},
                           LAMBDA f : {IF u.result = "ok" THEN Resolve(u) ELSE u : u \in HuntTune(t, f)})
        Rest(t) == IF t.result = "waiting" THEN {t}
                   ELSE IF Newest(t.L) = 0 THEN {ParkNow(t, keep)}
                   ELSE IF t.L[Newest(t.L)].state = "pending" THEN {t}
                   ELSE Replace(t) \cup (IF 0 \in TunerFrequency(t) THEN {t} ELSE {})
    IN  Then({Resolve([s EXCEPT !.h.park = IF keep THEN 1 ELSE 2])}, Rest)

\* nxdn_cc_hunt_gate(): the states of a hunt that does not go on; none when it does
Stopped(s, decision) ==
    IF ~trunk \/ boundary THEN {ParkNow(s, FALSE)}
    ELSE IF ~MayRun(s.h) THEN Settle(s, FALSE)
    ELSE IF s.h.park # 0 THEN Settle(s, s.h.park = 1)
    ELSE IF decision /\ ~WindowExpired(s.h) THEN Settle(s, TRUE)
    ELSE {}

-----------------------------------------------------------------------------
(* The walk over the channel map *)

Wrapped(i) == IF i > Len(Map) THEN 1 ELSE i
Listed(i) == Map[i] > 0 /\ i \notin Avoid
\* the rows from the index on, once around
Round(index) == [n \in 1 .. Len(Map) |-> ((index - 2 + n) % Len(Map)) + 1]

\* nxdn_cc_hunt_next_mapped(): rows of the frequency probed last are passed,
\* and the rows of the same frequency that follow the one found
NextMapped(g) ==
    LET round == Round(Wrapped(g.index))
        found == {n \in DOMAIN round : Listed(round[n]) /\ Map[round[n]] # g.probe}
        row == round[CHOOSE n \in found : \A m \in found : n <= m]
        after == {i \in row + 1 .. Len(Map) : \E j \in row .. i : Map[j] # Map[row]} \cup {Len(Map) + 1}
        again == \E n \in DOMAIN round : Listed(round[n]) /\ Map[round[n]] = g.probe
    IN  IF found # {}
        THEN [freq |-> Map[row], index |-> CHOOSE i \in after : \A j \in after : i <= j]
        ELSE [freq |-> IF again THEN g.probe ELSE 0, index |-> round[Len(Map)] + 1]

(* Mutant: the anchor is revisited unless the receiver is on it *)
NextCandidateHoldsAnchor(g) ==
    IF /\ g.confirmed /\ g.cc > 0 /\ g.probe # g.cc
       /\ \E i \in DOMAIN Map : Map[i] = g.cc /\ i \notin Avoid
    THEN [freq |-> g.cc, index |-> g.index]
    ELSE NextMapped(g)

\* nxdn_cc_hunt_next_candidate(): every other attempt is at the control
\* channel that was confirmed
NextCandidate(g) ==
    IF /\ g.confirmed /\ g.cc > 0 /\ g.attempt # g.cc
       /\ \E i \in DOMAIN Map : Map[i] = g.cc /\ i \notin Avoid
    THEN [freq |-> g.cc, index |-> g.index]
    ELSE NextMapped(g)

\* nxdn_cc_hunt_probe()
ProbeFrom(s) ==
    LET stopped == Stopped(s, TRUE)
        Visit(next) ==
            LET t == [s EXCEPT !.h.retry = Probe, !.h.index = next.index]
            IN  IF next.freq = 0 THEN {t}
                ELSE IF next.freq = s.h.rx /\ next.freq = s.h.probe /\ Unresolved(s.L) = {} /\ s.h.current
                THEN {[t EXCEPT !.h.attempt = next.freq]}
                ELSE {IF u.result = "ok" THEN Resolve(u) ELSE u : u \in HuntTune(t, next.freq)}
    IN  IF s.h.retry > 0 THEN {s}
        ELSE IF stopped # {} THEN stopped
        ELSE Then({NextCandidate(s.h)}, Visit)

\* nxdn_cc_hunt_tick_locked()
Ticked(s) ==
    LET stopped == Stopped(s, FALSE)
        Hunt(t) == IF t.result = "waiting" THEN {t} ELSE ProbeFrom(t)
        Look(t) == IF t.result = "waiting" \/ ~WindowExpired(t.h) THEN {t}
                   ELSE ProbeFrom([t EXCEPT !.h.hunting = TRUE, !.h.retry = 0])
    IN  IF s.h.hunting
        THEN IF stopped # {} THEN stopped ELSE Then({Resolve(s)}, Hunt)
        ELSE IF ~MayRun(s.h) THEN {[s EXCEPT !.h.armed = Unarmed]}
        ELSE IF s.h.armed = Unarmed THEN {Followed([s EXCEPT !.h.armed = 0])}
        ELSE Then({Followed(s)}, Look)

Leaves(s) == h' = s.h /\ ledger' = Trim(s.L) /\ receiver' = s.receiver /\ center' = s.center

Tick ==
    /\ due' = FALSE
    /\ UNCHANGED <<air, switches, tuned, owner, lock, cc, events, records>>
    /\ \E s \in Then({Here}, Ticked) : Leaves(s)

-----------------------------------------------------------------------------
(* Frames.  One is dispatched while no tune is unresolved; the tick of its *)
(* pass follows before the next.                                           *)

Frame == GateOpen /\ ~due /\ ~boundary /\ due' = TRUE
Astray == Live(ledger) # {} \/ (~Rigctl /\ center # receiver)

\* nxdn_cc_hunt_attributed_frequency(): the states with the attribution made
Attributed(s) ==
    IF s.h.current THEN {s} ELSE {[s EXCEPT !.h.rx = f, !.h.current = TRUE] : f \in TunerFrequency(s)}

\* the effect of nxdn_cc_hunt_note_control()
Noted(s) ==
    {[t EXCEPT !.h.hunting = FALSE, !.h.park = 0, !.h.retry = 0, !.h.armed = 0, !.h.confirmed = TRUE,
               !.h.probe = IF t.h.rx > 0 THEN t.h.rx ELSE @,
               !.h.attempt = IF t.h.rx > 0 THEN t.h.rx ELSE @,
               !.h.cc = IF t.h.rx > 0 THEN t.h.rx ELSE @] : t \in Attributed(Resolve(s))}

Names(s) ==
    /\ cc' = IF s.h.rx > 0 THEN s.h.rx ELSE cc
    /\ heard' = heard \cup {receiver} \cup (IF Astray THEN {center} ELSE {})
    /\ owner' = "nxdn" /\ typeD' = FALSE /\ lock' = 0

\* nxdn_handle_cac()
Cac ==
    /\ Frame
    /\ trunk /\ ~tuned /\ receiver \in CcFreqs
    /\ \E s \in Noted(Here) : Leaves(s) /\ Names(s)
    /\ UNCHANGED <<air, switches, tuned, events, landed>>

\* a grant in a CAC: the call is followed with a tune of its own
Grant(f) ==
    /\ Frame
    /\ trunk /\ ~tuned /\ receiver \in CcFreqs
    /\ \E s \in Noted(Here) : \E t \in RequestTune(s, f, {}) :
          /\ Leaves(t) /\ Names(s)
          /\ tuned' = (t.result = "ok")
    /\ UNCHANGED <<air, switches, events, landed>>

\* nxdn_anchor_control_channel_from_current_tuner(): a site message
SiteMessage ==
    /\ Frame
    /\ trunk /\ ~tuned /\ receiver \in CcFreqs
    /\ \E f \in TunerFrequency(Here) :
          /\ cc' = IF f > 0 THEN f ELSE cc
          /\ h' = IF f > 0 THEN [h EXCEPT !.rx = f, !.current = TRUE] ELSE h
    /\ heard' = heard \cup {receiver} \cup (IF Astray THEN {center} ELSE {})
    /\ lock' = 0
    /\ UNCHANGED <<air, ledger, receiver, center, switches, tuned, owner, events, landed, typeD>>

\* a frame whose own CRCs confirm the transmission (nxdn_confirm_lock_m)
Content ==
    /\ Frame
    /\ receiver \in BusyFreqs \/ tuned
    /\ lock' = 0
    /\ UNCHANGED <<air, h, ledger, receiver, center, switches, tuned, owner, cc, events, records>>

\* nxdn_cc_hunt_note_type_d()
TypeD ==
    /\ Frame
    /\ trunk /\ receiver \in TypeDFreqs
    /\ LET s == Resolve(Here)
       IN  Leaves([s EXCEPT !.h.hunting = FALSE, !.h.park = 0, !.h.retry = 0, !.h.armed = Unarmed,
                            !.h.confirmed = FALSE, !.h.cc = 0])
    /\ owner' = "nxdn" /\ typeD' = TRUE /\ lock' = 0
    /\ UNCHANGED <<air, switches, tuned, cc, events, heard, landed>>

-----------------------------------------------------------------------------
(* The backend and the clock *)

\* the oldest request in the backend's hands takes effect, or fails
Answer(ok) ==
    /\ Live(ledger) # {}
    /\ LET i == CHOOSE n \in Live(ledger) : \A m \in Live(ledger) : n <= m
           r == ledger[i]
           counts == ok /\ r.state = "pending"
       IN  /\ receiver' = IF ok THEN r.freq ELSE receiver
           /\ ledger' = Trim(IF counts THEN Succeed(ledger, i)
                             ELSE [ledger EXCEPT ![i].live = FALSE,
                                                 ![i].state = CASE @ = "pending" -> "gated"
                                                                [] @ = "move" -> "failed"
                                                                [] OTHER -> @])
           /\ h' = IF counts THEN [h EXCEPT !.current = FALSE] ELSE h
           /\ landed' = IF "own" \in r.marks \/ r.state # "pending" THEN landed ELSE IF ok THEN 0 ELSE Oldest
    /\ UNCHANGED <<air, center, switches, tuned, owner, lock, cc, due, events, heard, typeD>>

Older(age) == IF age < Oldest THEN age + 1 ELSE age

Pass ==
    /\ h' = [h EXCEPT !.armed = IF @ = Unarmed THEN @ ELSE Older(@),
                      !.retry = Max0(@ - 1), !.deadline = Max0(@ - 1)]
    /\ ledger' = [i \in DOMAIN ledger |-> [ledger[i] EXCEPT !.age = IF ledger[i].state = "ok" THEN Older(@) ELSE @]]
    /\ lock' = Older(lock) /\ landed' = Older(landed)
    /\ UNCHANGED <<air, receiver, center, switches, tuned, owner, cc, due, events, heard, typeD>>

-----------------------------------------------------------------------------
(* Everyone else *)

\* dsd_engine_return_to_cc_request(): the followed call ended
Return ==
    /\ tuned /\ ~due
    /\ IF trunk /\ cc > 0
       THEN \E t \in RequestTune(Here, cc, {}) :
              /\ Leaves(t)
              /\ tuned' = (t.result # "ok")
              /\ landed' = IF t.receiver # receiver \/ Live(t.L) = {} THEN 0 ELSE landed
       ELSE tuned' = FALSE /\ UNCHANGED <<h, ledger, receiver, center, landed>>
    /\ UNCHANGED <<air, switches, owner, lock, cc, due, events, heard, typeD>>

Event == ~due /\ events < MaxEvents /\ events' = events + 1

\* nxdn_cc_hunt_note_retune()
NoteRetune(g) ==
    [g EXCEPT !.rx = 0, !.current = FALSE,
              !.armed = IF g.armed = Unarmed THEN @ ELSE 0,
              !.park = IF g.hunting THEN 1 ELSE @,
              !.probe = IF g.hunting THEN 0 ELSE @]

\* request_manual_tune(): the operator's tune has no request; it is done in
\* the call, or accepted and applied later
Move(f) ==
    /\ Event
    /\ \/ /\ Live(ledger) = {}
          /\ receiver' = f /\ UNCHANGED ledger
       \/ /\ ~Rigctl /\ Len(ledger) < MaxOpen
          /\ ledger' = Append(ledger, [Request(f, {}) EXCEPT !.state = "move"])
          /\ UNCHANGED receiver
    /\ center' = f /\ tuned' = FALSE
    /\ h' = NoteRetune(h)
    /\ UNCHANGED <<air, switches, owner, lock, cc, due, records>>

\* a new rigctl connection: the peer may be anywhere (nxdn_cc_hunt_forget_attribution())
Reconnect(f) ==
    /\ Event /\ Rigctl
    /\ receiver' = f
    /\ h' = [h EXCEPT !.rx = 0, !.current = FALSE]
    /\ UNCHANGED <<air, ledger, center, switches, tuned, owner, lock, cc, due, records>>

\* nxdn_cc_hunt_note_system_replaced()
SystemReplaced ==
    /\ Event
    /\ h' = [h EXCEPT !.confirmed = FALSE, !.cc = 0, !.index = 1]
    /\ owner' = IF owner = "nxdn" THEN "unknown" ELSE owner
    /\ typeD' = FALSE
    /\ UNCHANGED <<air, ledger, receiver, center, switches, tuned, lock, cc, due, heard, landed>>

SetTrunk(on) ==
    /\ Event
    /\ trunk # on /\ trunk' = on
    /\ UNCHANGED <<air, h, ledger, receiver, center, boundary, tuned, owner, lock, cc, due, records>>

\* dsd_engine_retire_inactive_tune_failures(): without an owner of tunes a
\* failure is retired, once the tuner frequency agrees with the radio's
RetireInactive ==
    /\ ~trunk /\ ~GateOpen
    /\ LET newest == Newest(ledger)
           through == IF ledger[newest].state = "pending" THEN newest - 1 ELSE newest
       IN  /\ ledger' = Trim([i \in DOMAIN ledger |->
                                IF i <= through /\ ledger[i].state = "gated"
                                THEN [ledger[i] EXCEPT !.state = "failed"] ELSE ledger[i]])
           /\ center' = IF ledger[newest].state = "pending" THEN center ELSE receiver
    /\ UNCHANGED <<air, h, receiver, switches, tuned, owner, lock, cc, due, events, records>>

\* dsd_engine_note_input_replaced()
InputReplaced ==
    /\ Event /\ ~boundary
    /\ boundary' = TRUE
    /\ ledger' = <<>> /\ center' = receiver
    /\ UNCHANGED <<air, h, receiver, trunk, tuned, owner, lock, cc, due, records>>

\* the carrier boundary of the new stream and dsd_engine_end_input_boundary(),
\* which ticks
InputBack ==
    /\ boundary /\ ~due
    /\ boundary' = FALSE /\ due' = TRUE
    /\ h' = NoteRetune(h) /\ tuned' = FALSE
    /\ UNCHANGED <<air, ledger, receiver, center, trunk, owner, lock, cc, events, records>>

HuntNext ==
    \/ Tick \/ Pass
    \/ Cac \/ SiteMessage \/ Content \/ TypeD
    \/ \E f \in Freqs : Grant(f)
    \/ Return
    \/ \E ok \in BOOLEAN : Answer(ok)
    \/ \E f \in Freqs : Move(f)
    \/ \E f \in Freqs : Reconnect(f)
    \/ SystemReplaced
    \/ \E on \in BOOLEAN : SetTrunk(on)
    \/ RetireInactive \/ InputReplaced \/ InputBack

HuntSpec == HuntInit /\ [][HuntNext]_huntVars

\* the decoder ticks and time passes; the backend answers what it accepted, a
\* call's end is noticed, and no tune is refused, and none fails, for ever
Accepts == Unresolved(ledger') = {} \/ Len(ledger') > Len(ledger)

HuntFairSpec ==
    /\ HuntSpec
    /\ WF_huntVars(Tick) /\ WF_huntVars(Pass)
    /\ WF_huntVars(InputBack)
    /\ SF_huntVars(Answer(TRUE)) /\ SF_huntVars(Tick /\ Accepts) /\ SF_huntVars(Return /\ ~tuned')

-----------------------------------------------------------------------------
(* Properties *)

HuntTypeOK ==
    /\ h.armed \in Unarmed .. Oldest /\ h.retry \in 0 .. Probe /\ h.deadline \in 0 .. Timeout
    /\ {h.probe, h.rx, h.attempt, h.cc} \subseteq Freqs \cup {0}
    /\ h.park \in 0 .. 2 /\ (h.park # 0 => h.hunting)
    /\ h.own => h.hunting
    /\ h.index \in 1 .. Len(Map) + 1
    /\ {receiver, center} \subseteq Freqs /\ cc \in Freqs \cup {0}
    /\ \A i \in DOMAIN ledger : ledger[i].state = "pending" => ledger[i].live

(* The control channel that calls return to, and the one the hunt comes    *)
(* back to, is a frequency on which control was heard: a probe, a failed   *)
(* or late tune, or an operator's move never puts another in its place.    *)
(* (What is heard while a request is live, or while the tuner's frequency  *)
(* is not the one it was last set to, is attributed to that one: the       *)
(* frame cannot be told from one of it.)                                   *)
ControlWasHeard == {cc, h.cc} \subseteq heard \cup {0}

(* A hunt that the tick ends leaves no tune unresolved behind it: a probe  *)
(* in flight is waited for and a failure replaced, because nothing else    *)
(* would open the gate again.                                              *)
ParksSettled ==
    [][h.hunting /\ ~h'.hunting /\ trunk /\ ~boundary /\ ~tuned' => Unresolved(ledger') = {}]_huntVars

(* A hunt begins a full grace period after the last validated content, and *)
(* after the last tune of others if that landed, whenever the decoder came *)
(* to look; a failed tune is replaced without that wait.                   *)
GraceHonoured ==
    [][~h.hunting /\ h'.hunting => lock > Grace /\ landed > Grace]_huntVars

(* After a Type-D site was proven nothing hunts, until a CAC or another    *)
(* system comes.                                                           *)
TypeDNeverHunted == typeD => ~h.hunting

(* Frames are dispatched again and again: whichever tune failed, and       *)
(* whoever made it, a hunt or a return replaces it until one succeeds.     *)
FramesReturn == [](trunk /\ ~GateOpen => <>(GateOpen \/ ~trunk))

(* A hunt that goes on sits on, or comes back to, every frequency of the   *)
(* map, also when the tuner refuses one, and when one is the anchor.       *)
HuntCoversMap ==
    \A f \in Freqs :
        <>[](h.hunting /\ h.park = 0 /\ \E i \in DOMAIN Map : Listed(i) /\ Map[i] = f)
            => []<>(f \in {h.attempt, h.probe})

(* What holds whenever the tick, a frame, a tune or the operator has done  *)
(* with the hunt (nxdn_cc_hunt.c).                                         *)
HuntSound == HuntTypeOK /\ ControlWasHeard /\ TypeDNeverHunted

(* When a hunt may begin, and when it may end.                             *)
HuntTimely == GraceHonoured /\ ParksSettled

(* A hunt gets somewhere, and so does the decoder behind it.               *)
HuntGoesOn == FramesReturn /\ HuntCoversMap
=============================================================================
