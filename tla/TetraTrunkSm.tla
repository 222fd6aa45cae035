--------------------------- MODULE TetraTrunkSm ---------------------------
(***************************************************************************)
(* Following TETRA calls: the trunking state machine                       *)
(* (protocol/tetra/tetra_trunk_sm.c), the call records and the allocation  *)
(* of traffic channels that drive it (tetra_calls.c), the evidence that    *)
(* the receiver is on the carrier it thinks (tetra_confirm.c) and the gate *)
(* that lets speech play as the followed call's (tetra_voice_gate.c).      *)
(*                                                                         *)
(* A tune the tuner takes longer over stays in flight: what it would put   *)
(* back if it fails is kept aside, while the rest of the burst, the clock  *)
(* and the operator go on.  The requests of the ledger that matter here    *)
(* are the machine's own, the ones it let go of, and the operator's moves, *)
(* which no request stands for; the backend answers in order.              *)
(*                                                                         *)
(* A channel is [f, s], a carrier and a timeslot; a call is its party, and *)
(* its identifier may be given to another.  A period is "off", "running"   *)
(* or "over".                                                              *)
(***************************************************************************)
EXTENDS Integers, Sequences

CONSTANTS
    Freqs,        \* carriers; 0 is none
    MainCarrier,  \* the carrier SYSINFO names
    Channels,     \* traffic channels
    Ids,          \* call identifiers
    Late,         \* may a tune be answered after the call that asked for it?
    Airs          \* what may be heard and done in a session, one of these

NoChannel == [f |-> 0, s |-> 0]
NoCall == [ch |-> NoChannel, id |-> 0]
Free == [party |-> 0, ch |-> NoChannel]
Off == [tuned |-> FALSE, vc |-> 0]   \* no voice channel is held

ASSUME TetraAssumption ==
    /\ Freqs \subseteq Nat \ {0} /\ MainCarrier \in Freqs /\ Channels \subseteq [f : Freqs, s : 1 .. 4]
    /\ Ids \subseteq Nat \ {0} /\ Late \in BOOLEAN
    /\ \A a \in Airs : a.parties \subseteq Nat \ {0} /\ a.cells \in BOOLEAN /\ a.events \in Nat

VARIABLES
    air,      \* what may be heard and done in this session
    sm,       \* tetra_sm_t, with the evidence (tetra_confirm_t) of the carrier
    calls,    \* the call records
    rx,       \* [hw, center, live]: the receiver, what the decoder believes, what the backend has yet to do
    shared,   \* [tuned, vc]: trunk_is_tuned, trunk_vc_freq
    cc,       \* trunk_cc_freq
    trunk,    \* trunk_enable
    burst,    \* [open, stale]
    events,   \* bound: events so far
    lease,    \* history: channel -> the call it was last allocated to, as far as heard
    misled,   \* history: a call was followed where the decoder only believed the receiver to be
    slipped   \* history: a channel that a tune in flight may put back was given to another
              \* call, and no record said whose it was

vars == <<air, sm, calls, rx, shared, cc, trunk, burst, events, lease, misled, slipped>>

Parties == air.parties   \* the calls
Cells == air.cells       \* may the cell that is heard change?
MaxEvents == air.events  \* bound: operator events and changes of cell
AnyParty == UNION {a.parties : a \in Airs}

Empty == [st |-> "idle", fol |-> NoCall, retired |-> FALSE, tune |-> "off", voice |-> "off", proven |-> FALSE]
NoPrev == [m |-> Empty, shared |-> Off, current |-> FALSE]

Init ==
    /\ air \in Airs
    /\ sm = [m |-> Empty, kind |-> "none", own |-> "none", prev |-> NoPrev, dl |-> FALSE]
    /\ calls = [i \in Ids |-> Free]
    /\ \E f \in Freqs : rx = [hw |-> f, center |-> f, live |-> <<>>]
    /\ shared = Off /\ cc = 0 /\ trunk = TRUE
    /\ burst = [open |-> FALSE, stale |-> FALSE]
    /\ events = 0 /\ lease = [c \in Channels |-> 0] /\ misled = FALSE /\ slipped = FALSE

-----------------------------------------------------------------------------
(* A handler runs to its end on the decoder thread: each operator takes    *)
(* the state so far and gives the states it may leave.                     *)

Then(S, Op(_)) == UNION {Op(s) : s \in S}

Here == [m |-> sm.m, kind |-> sm.kind, own |-> sm.own, prev |-> sm.prev, dl |-> sm.dl,
         calls |-> calls, hw |-> rx.hw, center |-> rx.center, live |-> rx.live,
         shared |-> shared, cc |-> cc, stale |-> burst.stale,
         lease |-> lease, misled |-> misled, slipped |-> slipped, ok |-> FALSE]

Leaves(s) ==
    /\ air' = air /\ sm' = [m |-> s.m, kind |-> s.kind, own |-> s.own, prev |-> s.prev, dl |-> s.dl]
    /\ calls' = s.calls /\ rx' = [hw |-> s.hw, center |-> s.center, live |-> s.live]
    /\ shared' = s.shared /\ cc' = s.cc /\ lease' = s.lease /\ misled' = s.misled /\ slipped' = s.slipped

\* dsd_trunk_tuning_hook_tune_to_freq() and _return_to_cc(): refused or
\* deferred, done in the call, or accepted and answered later
Tune(s, f) ==
    {[s EXCEPT !.ok = FALSE]}
      \cup (IF s.live = <<>> THEN {[s EXCEPT !.ok = TRUE, !.hw = f, !.center = f]} ELSE {})
      \cup (IF Late
            THEN {[s EXCEPT !.ok = TRUE, !.center = f, !.own = "pending", !.live = Append(@, [f |-> f, tag |-> "own"])]}
            ELSE {})

\* tetra_confirm_reset(), of tetra_forget_carrier(): also what a failed tune
\* would bring back of the evidence is void
ForgetCarrier(s) == [s EXCEPT !.dl = FALSE, !.m.proven = FALSE, !.stale = TRUE, !.prev.current = FALSE]

\* sm_rest_state()
Rest(s) == IF trunk /\ s.cc > 0 THEN "cc" ELSE "idle"

\* sm_unfollow(), and the state it rests in
Unfollow(s) == [s EXCEPT !.m.fol = NoCall, !.m.tune = "off", !.m.voice = "off", !.m.proven = FALSE]
Resting(s) == [s EXCEPT !.m.st = Rest(s)]

\* sm_capture()
Captured(s) == [m |-> s.m, shared |-> s.shared, current |-> TRUE]

\* tetra_sm_disown_pending(): the backend keeps what it has not answered
Disown(s) ==
    [s EXCEPT !.kind = "none", !.own = "none", !.prev = NoPrev,
              !.live = [i \in DOMAIN @ |-> IF @[i].tag = "own" THEN [@[i] EXCEPT !.tag = "disowned"] ELSE @[i]]]

-----------------------------------------------------------------------------
(* The tune in flight *)

\* sm_grant_tune_completed()
GrantCompleted(s) == ForgetCarrier([s EXCEPT !.shared.tuned = TRUE, !.m.tune = "running"])

\* sm_return_completed()
ReturnCompleted(s) == ForgetCarrier(Unfollow([s EXCEPT !.shared.tuned = FALSE]))

\* sm_restore()
Restore(s) ==
    [s EXCEPT !.m = [s.prev.m EXCEPT !.proven = IF s.prev.current THEN @ ELSE s.m.proven],
              !.shared = s.prev.shared]

\* sm_settle_pending()
Settle(s) ==
    LET t == [s EXCEPT !.kind = "none", !.own = "none", !.prev = NoPrev]
    IN  IF s.kind = "none" \/ s.own = "pending" THEN s
        ELSE IF s.own = "ok" THEN IF s.kind = "grant" THEN GrantCompleted(t) ELSE ReturnCompleted(t)
        ELSE [t EXCEPT !.m = Restore(s).m, !.shared = Restore(s).shared]

\* sm_release(): the states it leaves; the call is kept when the return is refused
Release(s) ==
    LET Staged(t) == [t EXCEPT !.kind = "return", !.prev = Captured(s), !.m.fol = NoCall,
                               !.shared = Off]
        Done(t) == ReturnCompleted([t EXCEPT !.shared.vc = 0])
    IN  IF ~trunk THEN {s}
        ELSE IF s.cc = 0 \/ s.m.fol.ch.f = s.cc
        THEN {Resting(Unfollow([s EXCEPT !.shared = Off]))}
        ELSE {IF ~t.ok THEN s
              ELSE Resting(IF t.own = "pending" THEN Staged(t) ELSE Done(t)) : t \in Tune(s, s.cc)}

-----------------------------------------------------------------------------
(* Grants.  A burst settles nothing: its entry did. *)

\* tetra_sm_receiver_freq()
ReceiverFreq(s) == IF s.kind # "none" THEN 0 ELSE IF s.m.st = "tuned" THEN s.m.fol.ch.f ELSE s.center

\* tetra_sm_followed_call_id()
FollowedId(s) == IF s.m.st = "tuned" /\ ~s.m.retired THEN s.m.fol.id ELSE 0

\* sm_follow()
Follow(s, ch, id) ==
    [s EXCEPT !.m = [st |-> "tuned", fol |-> [ch |-> ch, id |-> id], retired |-> FALSE,
                     tune |-> "off", voice |-> "off", proven |-> FALSE]]

\* sm_follow_here(), unless it is the call followed already (sm_same_call())
FollowHere(s, ch, id) ==
    IF s.m.st = "tuned" /\ ~s.m.retired /\ s.m.fol = [ch |-> ch, id |-> id] THEN s
    ELSE [Follow(s, ch, id) EXCEPT !.m.tune = "running", !.m.proven = TRUE,
                                   !.shared = IF s.m.st = "tuned" THEN @ ELSE [tuned |-> TRUE, vc |-> ch.f],
                                   !.misled = @ \/ s.hw # ch.f \/ s.live # <<>>]

\* sm_tune_grant()
TuneGrant(s, ch, id) ==
    LET Taken(t) == Follow([t EXCEPT !.shared = [tuned |-> TRUE, vc |-> ch.f]], ch, id)
    IN  {IF ~t.ok THEN s
         ELSE IF t.own = "pending" THEN [Taken(t) EXCEPT !.kind = "grant", !.prev = Captured(s)]
         ELSE GrantCompleted(Taken(t)) : t \in Tune(s, ch.f)}

\* tetra_sm_on_grant()
OnGrant(s, ch, id) ==
    IF s.kind # "none" \/ ~trunk \/ s.cc = 0 \/ ~s.dl THEN {s}
    ELSE IF ch.f = ReceiverFreq(s) THEN {FollowHere(s, ch, id)}
    ELSE TuneGrant(s, ch, id)

\* tetra_sm_on_release()
OnRelease(s, id) ==
    IF s.kind # "none" \/ s.m.st # "tuned" \/ s.m.fol.id # id THEN {s} ELSE Release(s)

(* Mutant: what a failing tune would put back keeps the call *)
RetireAllCurrent(s, ids) ==
    IF FollowedId(s) \in ids THEN [s EXCEPT !.m.retired = TRUE, !.m.proven = FALSE] ELSE s

\* tetra_sm_retire_call() of some calls: also in what a failing tune would put back
RetireAll(s, ids) ==
    LET t == IF FollowedId(s) \in ids THEN [s EXCEPT !.m.retired = TRUE, !.m.proven = FALSE] ELSE s
    IN  IF s.kind # "none" /\ s.prev.m.st = "tuned" /\ s.prev.m.fol.id \in ids
        THEN [t EXCEPT !.prev.m.retired = TRUE, !.prev.m.proven = FALSE] ELSE t

Retire(s, id) == RetireAll(s, {id})

\* tetra_sm_on_call_renamed()
Renamed(s, from, to) ==
    LET t == IF FollowedId(s) = from THEN [s EXCEPT !.m.fol.id = to] ELSE s
    IN  IF s.kind # "none" /\ s.prev.m.st = "tuned" /\ ~s.prev.m.retired /\ s.prev.m.fol.id = from
        THEN [t EXCEPT !.prev.m.fol.id = to] ELSE t

-----------------------------------------------------------------------------
(* Call records *)

\* the channels without those of some calls
Without(L, P) == [c \in Channels |-> IF L[c] \in P THEN 0 ELSE L[c]]

\* calls_drop() of some records, which age, are of another network or make room
Dropped(s, ids) ==
    LET gone == {i \in ids : s.calls[i] # Free}
    IN  RetireAll([s EXCEPT !.calls = [i \in Ids |-> IF i \in gone THEN Free ELSE @[i]],
                            !.lease = Without(@, {s.calls[i].party : i \in gone})], gone)

\* call_end()
Ended(s, i) ==
    LET t == [s EXCEPT !.calls[i] = Free, !.lease = Without(@, {s.calls[i].party})]
        After(u) == {Retire(u, i)}
    IN  Then(IF FollowedId(s) = i THEN OnRelease(t, i) ELSE {t}, After)

\* calls_take_channel(): does the follow lose its channel to i?
TakesFollowed(s, i, ch) ==
    FollowedId(s) # i /\ s.m.st = "tuned"
      /\ (s.m.fol.ch = ch \/ \E o \in Ids \ {i} : o = FollowedId(s) /\ s.calls[o].ch = ch)

\* call_lose_channel() of every other record that held it
Taken(s, i, ch) ==
    LET losers == {o \in Ids \ {i} : s.calls[o] # Free /\ s.calls[o].ch = ch}
        t == [s EXCEPT !.calls = [o \in Ids |-> IF o \in losers THEN [@[o] EXCEPT !.ch = NoChannel] ELSE @[o]]]
    IN  RetireAll(t, losers)

\* call_consider(): what the talkgroup policy says is "no", "yes" if nothing
\* is followed, or "over" the call followed; excluded is a call left for its encryption
Consider(s, i, ch, policy, excluded, takes) ==
    IF ~trunk \/ s.kind # "none" THEN {s}
    ELSE IF FollowedId(s) = i THEN IF excluded THEN {s} ELSE OnGrant(s, ch, i)
    ELSE IF policy = "no" \/ (s.m.st = "tuned" /\ ~takes /\ policy # "over") THEN {s}
    ELSE OnGrant(s, ch, i)

\* calls_leave_taken_channel()
LeaveTaken(s, i) ==
    IF s.m.st # "tuned" \/ FollowedId(s) = i THEN {s}
    ELSE LET id == s.m.fol.id IN Then(OnRelease(s, id), LAMBDA t : {Retire(t, id)})

\* is ch what a tune in flight may put back for a call whose record names no channel?
Slips(s, i, ch) ==
    /\ s.kind # "none" /\ s.prev.m.st = "tuned" /\ ~s.prev.m.retired
    /\ s.prev.m.fol.ch = ch /\ s.prev.m.fol.id # i /\ s.calls[s.prev.m.fol.id].ch = NoChannel

\* call_attach(): "go to the MCCH" is NoChannel
Attach(s, i, ch, follow, policy, excluded) ==
    LET p == s.calls[i].party
        on == [s EXCEPT !.calls[i].ch = ch, !.lease = [Without(@, {p}) EXCEPT ![ch] = p],
                        !.slipped = @ \/ Slips(s, i, ch)]
        off == [s EXCEPT !.calls[i].ch = NoChannel, !.lease = Without(@, {p})]
        takes == TakesFollowed(on, i, ch)
        Considered(t) == IF follow THEN Consider(t, i, ch, policy, excluded, takes) ELSE {t}
        Left(t) == IF takes THEN LeaveTaken(t, i) ELSE {t}
    IN  IF ch = NoChannel
        THEN Then(IF FollowedId(s) = i THEN OnRelease(off, i) ELSE {off}, LAMBDA t : {Retire(t, i)})
        ELSE Then(Considered(Taken(on, i, ch)), Left)

\* call_after_pdu(): the followed call is on this carrier, and may have to be
\* left for its encryption
AfterPdu(s, i, excluded) ==
    IF FollowedId(s) # i THEN {s}
    ELSE LET t == IF s.stale THEN s ELSE [s EXCEPT !.m.proven = TRUE]
         IN  IF excluded THEN OnRelease(t, i) ELSE {t}

-----------------------------------------------------------------------------
(* Bursts.  One is dispatched while no request is unresolved.  A block     *)
(* counts as evidence of the carrier after it was acted on.                *)

Settled == sm.own \notin {"pending", "failed"} /\ \A i \in DOMAIN rx.live : rx.live[i].tag # "disowned"

\* tetra_burst_enter(): a burst that was captured on a carrier that was left
\* is dropped whole
BurstEnter ==
    /\ ~burst.open /\ Settled
    /\ LET s == Settle([Here EXCEPT !.stale = FALSE])
       IN  Leaves(s) /\ burst' = [open |-> TRUE, stale |-> s.stale]
    /\ UNCHANGED <<trunk, events>>

BurstLeave ==
    /\ burst.open /\ burst' = [open |-> FALSE, stale |-> FALSE]
    /\ UNCHANGED <<air, sm, calls, rx, shared, cc, trunk, events, lease, misled, slipped>>

\* tetra_confirm_note_signalling()
Block(S) ==
    /\ burst.open /\ ~burst.stale
    /\ \E s \in S : /\ Leaves(IF s.stale THEN s ELSE [s EXCEPT !.dl = TRUE])
                    /\ burst' = [burst EXCEPT !.stale = s.stale]
    /\ UNCHANGED trunk

\* the allocation a PDU carries, if it does, and what the policy says of the call
Offers(C) == {<<>>} \cup (C \X {"no", "yes", "over"})

Allocated(s, i, offer, excluded) ==
    IF offer = <<>> THEN {s} ELSE Attach(s, i, offer[1], TRUE, offer[2], excluded)

\* a D-SETUP: it may reuse an identifier, and a full table gives up a record v
Setup(i, p, offer, v) ==
    LET Anew(t) == IF v = 0 \/ v = FollowedId(t) THEN {t} ELSE {Dropped(t, {v})}
        Named(t) == {[t EXCEPT !.calls[i].party = p]}
        After(t) == AfterPdu(t, i, FALSE)
        Alloc(t) == Allocated(t, i, offer, FALSE)
        known == calls[i].party = p
        first == IF known THEN {Here} ELSE Then(IF calls[i] = Free THEN {Here} ELSE Ended(Here, i), Anew)
    IN  /\ p \in Parties /\ v # i
        /\ \A j \in Ids \ {i} : calls[j].party # p
        /\ Block(Then(Then(Then(first, Named), After), Alloc))
        /\ UNCHANGED events

\* any other PDU of a call on record
CallPdu(i, offer, excluded) ==
    LET Alloc(t) == IF t.calls[i] = Free THEN {t} ELSE Allocated(t, i, offer, excluded)
    IN  calls[i] # Free /\ Block(Then(AfterPdu(Here, i, excluded), Alloc)) /\ UNCHANGED events

\* calls_attach_addressed(): an allocation without a call PDU never tunes
AddressedAllocation(i, ch) ==
    calls[i] # Free /\ Block(Attach(Here, i, ch, FALSE, "no", FALSE)) /\ UNCHANGED events

ReleasePdu(i) == calls[i] # Free /\ Block(Ended(Here, i)) /\ UNCHANGED events

\* call_rename() and call_follow_renamed(): a record that held the new
\* identifier is of a call whose release was not heard
Rename(i, j) ==
    LET Moved(t) == {Renamed([t EXCEPT !.calls[j] = t.calls[i], !.calls[i] = Free], i, j)}
        After(t) == AfterPdu(t, j, FALSE)
    IN  /\ calls[i] # Free /\ i # j
        /\ Block(Then(Then(IF calls[j] = Free THEN {Here} ELSE Ended(Here, j), Moved), After))
        /\ UNCHANGED events

\* apply_sysinfo(), tetra_sm_on_cc_sync()
Sysinfo ==
    LET s == [Here EXCEPT !.cc = MainCarrier]
    IN  /\ Block({IF s.kind = "none" /\ trunk /\ s.m.st = "idle" THEN [s EXCEPT !.m.st = "cc"] ELSE s})
        /\ UNCHANGED events

\* voice_followed(): does speech on the channel play as the followed call's?
Plays(s, ch) ==
    /\ trunk /\ s.m.st = "tuned" /\ s.kind = "none" /\ s.m.proven
    /\ s.m.fol.ch.s = ch.s
    /\ s.m.fol.id \in Ids /\ s.calls[s.m.fol.id] # Free => s.calls[s.m.fol.id].ch \in {NoChannel, ch}

\* a speech burst of the followed call (tetra_calls_on_speech(), tetra_sm_note_voice())
Speech(excluded) ==
    LET Voice(t) == {IF t.m.st = "tuned" /\ t.kind = "none" THEN [t EXCEPT !.m.voice = "running"] ELSE t}
    IN  /\ burst.open /\ ~burst.stale /\ Plays(Here, sm.m.fol.ch)
        /\ \E s \in Then(IF excluded THEN OnRelease(Here, sm.m.fol.id) ELSE {Here}, Voice) :
              Leaves(s) /\ burst' = [burst EXCEPT !.stale = s.stale]
        /\ UNCHANGED <<trunk, events>>

Event == events < MaxEvents /\ events' = events + 1

\* bsch_identity_change(): the first block of a burst is of another cell, of
\* this network or of another
OtherCell(network) ==
    LET cell == [Here EXCEPT !.m.proven = FALSE, !.cc = 0, !.lease = [c \in Channels |-> 0],
                             !.calls = [i \in Ids |-> [@[i] EXCEPT !.ch = NoChannel]]]
    IN  /\ Cells /\ Event /\ sm.kind = "none"
        /\ Block({IF network THEN Dropped(cell, Ids) ELSE cell})

-----------------------------------------------------------------------------
(* The clock and the backend *)

\* sm_tick_tuned()
TickTuned(s) ==
    IF ~s.shared.tuned THEN {Resting(Unfollow(s))}
    ELSE IF ~trunk THEN {[s EXCEPT !.m.retired = TRUE, !.m.proven = FALSE]}
    ELSE IF s.m.voice = "over" \/ (s.m.voice = "off" /\ s.m.tune = "over") THEN Release(s)
    ELSE {s}

\* sm_tick()
Ticked(s) ==
    IF s.kind # "none" THEN {s}
    ELSE IF s.m.st = "cc" /\ Rest(s) # "cc" THEN {[s EXCEPT !.m.st = "idle"]}
    ELSE IF s.m.st = "tuned" THEN TickTuned(s)
    ELSE {s}

\* tetra_sm_tick(): old are the records that were not heard from for long
Tick(old) ==
    LET Aged(s) == {Dropped(s, old \ {FollowedId(s)})}
    IN  /\ ~burst.open
        /\ \E s \in Then(Ticked(Settle(Here)), Aged) : Leaves(s)
        /\ UNCHANGED <<trunk, burst, events>>

\* no_carrier_clear_stale_follow_state_if_needed(), when nothing was heard for long
ClearStaleFollow(s) == IF trunk /\ s.shared.tuned /\ s.cc # 0 THEN s ELSE [s EXCEPT !.shared = Off]

\* a no-carrier pass: the owner of a return is ticked, the evidence forgotten
NoCarrier(long) ==
    LET owns == trunk /\ (sm.m.st = "tuned" \/ sm.kind # "none")
        Forgotten(s) == IF long THEN ClearStaleFollow(ForgetCarrier(s)) ELSE ForgetCarrier(s)
    IN  /\ ~burst.open
        /\ \E s \in (IF owns THEN Ticked(Settle(Here)) ELSE {Here}) : Leaves(Forgotten(s))
        /\ UNCHANGED <<trunk, burst, events>>

Late1(p) == IF p = "running" THEN "over" ELSE p
LateM(m) == [m EXCEPT !.tune = Late1(@), !.voice = Late1(@)]

\* the grant timeout, or the hangtime, passes
Pass ==
    /\ sm' = [sm EXCEPT !.m = LateM(@), !.prev.m = LateM(@)]
    /\ UNCHANGED <<air, calls, rx, shared, cc, trunk, burst, events, lease, misled, slipped>>

\* the oldest of what the backend has to do takes effect, or fails
Answer(ok) ==
    /\ rx.live # <<>>
    /\ rx' = [rx EXCEPT !.hw = IF ok THEN Head(rx.live).f ELSE @, !.live = Tail(@)]
    /\ sm' = IF Head(rx.live).tag = "own" THEN [sm EXCEPT !.own = IF ok THEN "ok" ELSE "failed"] ELSE sm
    /\ UNCHANGED <<air, calls, shared, cc, trunk, burst, events, lease, misled, slipped>>

-----------------------------------------------------------------------------
(* The operator *)

\* tetra_sm_on_external_cc_return(), if it has something to let go of
HandOver(s) ==
    IF s.m.st = "idle" /\ s.kind = "none" THEN s ELSE Resting(ForgetCarrier(Unfollow(Disown(s))))

\* tetra_sm_abandon_carrier() in a carrier boundary, and the evidence forgotten
Boundary(s) ==
    LET t == IF s.m.st = "tuned" \/ s.kind # "none" THEN Resting(Unfollow(Disown(s))) ELSE s
    IN  ForgetCarrier([t EXCEPT !.shared = Off])

\* io_control_set_freq(): accepted without a request, done at once or later
Moved(s, f) ==
    (IF s.live = <<>> THEN {[s EXCEPT !.hw = f, !.center = f]} ELSE {})
      \cup (IF Late THEN {[s EXCEPT !.center = f, !.live = Append(@, [f |-> f, tag |-> "move"])]} ELSE {})

\* the machines and the shared tuning state let go when the operator moves
Between == ~burst.open /\ Event /\ UNCHANGED <<trunk, burst>>

\* apply_manual_return_to_cc()
ReturnToCc ==
    /\ Between /\ trunk /\ cc > 0
    /\ \E s \in Moved(Here, cc) : Leaves(HandOver([s EXCEPT !.shared = Off]))

\* apply_manual_channel_cycle()
ChannelCycle(f) ==
    /\ Between
    /\ \E s \in Moved(Here, f) :
          LET t == [s EXCEPT !.shared.tuned = FALSE] IN Leaves(HandOver(IF trunk THEN t ELSE Boundary(t)))

\* a tune to a frequency of the operator's own (dsd_engine_carrier_boundary())
ManualTune(f) ==
    Between /\ \E s \in Moved(Here, f) : Leaves(Boundary(s))

\* apply_tuner_release(), and the switch of trunking alone
SetTrunk(on, release) ==
    /\ ~burst.open /\ Event
    /\ trunk # on /\ trunk' = on
    /\ shared' = IF release THEN Off ELSE shared
    /\ UNCHANGED <<air, sm, calls, rx, cc, burst, lease, misled, slipped>>

Operator ==
    \/ ReturnToCc
    \/ \E f \in Freqs : ChannelCycle(f) \/ ManualTune(f)
    \/ SetTrunk(TRUE, FALSE) \/ SetTrunk(FALSE, FALSE) \/ SetTrunk(FALSE, TRUE)

Next ==
    \/ BurstEnter \/ BurstLeave
    \/ \E i \in Ids, p \in AnyParty, offer \in Offers(Channels), v \in Ids \cup {0} : Setup(i, p, offer, v)
    \/ \E i \in Ids, offer \in Offers(Channels \cup {NoChannel}), excluded \in BOOLEAN : CallPdu(i, offer, excluded)
    \/ \E i \in Ids, ch \in Channels \cup {NoChannel} : AddressedAllocation(i, ch)
    \/ \E i \in Ids : ReleasePdu(i)
    \/ \E i, j \in Ids : Rename(i, j)
    \/ Sysinfo
    \/ \E excluded \in BOOLEAN : Speech(excluded)
    \/ \E network \in BOOLEAN : OtherCell(network)
    \/ \E old \in SUBSET Ids : Tick(old)
    \/ \E long \in BOOLEAN : NoCarrier(long)
    \/ Pass
    \/ \E ok \in BOOLEAN : Answer(ok)
    \/ Operator

Spec == Init /\ [][Next]_vars

-----------------------------------------------------------------------------
(* Properties *)

TypeOK ==
    /\ sm.m.st \in {"idle", "cc", "tuned"} /\ sm.m.fol.ch \in Channels \cup {NoChannel}
    /\ sm.kind \in {"none", "grant", "return"} /\ (sm.kind = "none" <=> sm.own = "none")
    /\ sm.own = "pending" <=> \E i \in DOMAIN rx.live : rx.live[i].tag = "own"
    /\ \A i \in Ids : calls[i].party \in Parties \cup {0} /\ calls[i].ch \in Channels \cup {NoChannel}
    /\ cc \in {0, MainCarrier} /\ {rx.hw, rx.center} \subseteq Freqs

(* Speech plays as the followed call's only while that call has a record   *)
(* and nothing heard since gave its channel to another call: whatever      *)
(* identifiers were reused or renamed, and whatever a failed tune put      *)
(* back.  (calls_take_channel() looks at the records and at the channel    *)
(* that is followed.  A change of cell empties the records, so a channel   *)
(* that a tune in flight has left may be given away unnoticed, and the     *)
(* tune's failure brings it back: that case, and no other, is excluded.)   *)
PlayedIsTheCall ==
    Plays(Here, sm.m.fol.ch) =>
        /\ calls[sm.m.fol.id] # Free
        /\ lease[sm.m.fol.ch] \in {0, calls[sm.m.fol.id].party} \/ slipped

(* A followed call is followed where the receiver is, also after tunes     *)
(* that failed late, that were given up, or that the operator overtook.    *)
(* (Unless the call was taken where the decoder only believed it to be.)   *)
FollowedOnItsCarrier ==
    sm.m.st = "tuned" /\ sm.kind = "none" /\ rx.live = <<>> /\ ~misled => rx.hw = sm.m.fol.ch.f

(* The tuner is never held by nobody: a voice channel that the shared      *)
(* state shows is one the machine follows, or has a tune in flight for,    *)
(* so that something will return from it; and it is the channel followed.  *)
HeldIsFollowed ==
    shared.tuned => sm.kind # "none" \/ (sm.m.st = "tuned" /\ shared.vc \in {0, sm.m.fol.ch.f})

(* The call that is followed, where it is, and what is played of it.       *)
TetraSound == TypeOK /\ PlayedIsTheCall /\ FollowedOnItsCarrier /\ HeldIsFollowed
=============================================================================
