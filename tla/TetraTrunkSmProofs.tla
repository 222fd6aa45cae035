------------------------ MODULE TetraTrunkSmProofs ------------------------
(***************************************************************************)
(* What TetraTrunkSm keeps true, for any carriers, channels, identifiers   *)
(* and calls, and for any number of events and changes of cell: TetraSound *)
(* is an invariant.                                                        *)
(*                                                                         *)
(* A handler is a composition of operators from a state to the states it   *)
(* may leave, so the invariant is stated of such a state, and each         *)
(* operator has a lemma that says what it keeps.  Two parts: Core is about *)
(* the machine, the tune in flight and the receiver; Book relates what the *)
(* machine follows, or would follow again, to the records of the calls.    *)
(* Between two operators of a handler the records may be ahead of the      *)
(* machine: Book(s, X) leaves the identifiers X out.                       *)
(***************************************************************************)
EXTENDS TetraTrunkSm, SequenceTheorems, TLAPS

Chs == Channels \cup {NoChannel}
Period == {"off", "running", "over"}
Machine == [st : {"idle", "cc", "tuned"}, fol : [ch : Chs, id : Nat], retired : BOOLEAN,
            tune : Period, voice : Period, proven : BOOLEAN]
Shared == [tuned : BOOLEAN, vc : Nat]
Previous == [m : Machine, shared : Shared, current : BOOLEAN]
Entry == [f : Freqs, tag : {"own", "disowned", "move"}]
Record == [party : Parties \cup {0}, ch : Chs]

State ==
    [m : Machine, kind : {"none", "grant", "return"}, own : {"none", "pending", "ok", "failed"},
     prev : Previous, dl : BOOLEAN, calls : [Ids -> Record], hw : Freqs, center : Freqs,
     live : Seq(Entry), shared : Shared, cc : {0, MainCarrier}, stale : BOOLEAN,
     lease : [Channels -> Parties \cup {0}], misled : BOOLEAN, slipped : BOOLEAN, ok : BOOLEAN]

-----------------------------------------------------------------------------
(* The machine and the receiver.                                           *)

(* The backend's queue: the machine's own request is the last of it, for   *)
(* the carrier that is followed, and once it is answered nothing is left.  *)
FlightInv(s) ==
    /\ s.kind = "none" <=> s.own = "none"
    /\ \A i \in 1 .. Len(s.live) : s.live[i].tag = "own" => i = Len(s.live) /\ s.own = "pending"
    /\ s.own = "pending" =>
          /\ Len(s.live) > 0 /\ s.live[Len(s.live)].tag = "own"
          /\ s.kind = "grant" => s.live[Len(s.live)].f = s.m.fol.ch.f
    /\ s.own \in {"ok", "failed"} => Len(s.live) = 0
    /\ s.own = "ok" /\ s.kind = "grant" => s.hw = s.m.fol.ch.f
    /\ s.kind = "grant" => s.m.st = "tuned"
    /\ s.kind = "return" => s.m.st # "tuned"

(* A channel that is followed, or would be again, is a traffic channel.    *)
ChannelInv(s) ==
    /\ s.m.st = "tuned" => s.m.fol.ch \in Channels
    /\ s.kind # "none" /\ s.prev.m.st = "tuned" => s.prev.m.fol.ch \in Channels

(* The receiver is where the machine follows, or would follow again.       *)
WhereInv(s) ==
    ~s.misled =>
        /\ s.kind = "none" /\ s.m.st = "tuned" => Len(s.live) = 0 /\ s.hw = s.m.fol.ch.f
        /\ s.kind # "none" /\ s.prev.m.st = "tuned" =>
              Len(s.live) <= 1 /\ (s.own # "ok" => s.hw = s.prev.m.fol.ch.f)

Holds(shown, m) == shown.tuned => m.st = "tuned" /\ shown.vc \in {0, m.fol.ch.f}

HeldInv(s) ==
    /\ s.kind = "none" => Holds(s.shared, s.m)
    /\ s.kind # "none" => Holds(s.prev.shared, s.prev.m)
    /\ s.kind = "grant" => s.shared.vc \in {0, s.m.fol.ch.f}

(* A call that was retired is not proven, and the evidence a failed tune   *)
(* would bring back is void once the carrier was forgotten.                *)
ProofInv(s, open) ==
    /\ s.m.st = "tuned" /\ s.m.proven => ~s.m.retired
    /\ s.kind # "none" /\ s.prev.m.st = "tuned" /\ s.prev.m.proven => ~s.prev.m.retired
    /\ s.kind # "none" /\ ~s.prev.current => ~s.m.proven /\ (open => s.stale)

Core(s, open) ==
    s \in State /\ FlightInv(s) /\ ChannelInv(s) /\ WhereInv(s) /\ HeldInv(s) /\ ProofInv(s, open)

-----------------------------------------------------------------------------
(* The records.                                                            *)

(* A record holds the channel that was last given to its call, and no two  *)
(* records are of one call.                                                *)
RecordInv(s) ==
    /\ \A i \in Ids : s.calls[i].party = 0 => s.calls[i].ch = NoChannel
    /\ \A i \in Ids : s.calls[i].ch # NoChannel => s.lease[s.calls[i].ch] = s.calls[i].party
    /\ \A i, j \in Ids : i # j /\ s.calls[i].party = s.calls[j].party => s.calls[i].party = 0

Tracks(m, g) == m.st = "tuned" /\ ~m.retired /\ g = m.fol

(* What the machine follows, and what a failed tune would have it follow.  *)
Followers(s) ==
    {g \in {s.m.fol, s.prev.m.fol} : Tracks(s.m, g) \/ (s.kind # "none" /\ Tracks(s.prev.m, g))}

(* The followed call has a record, and its channel was given to no other   *)
(* call, unless the record has it elsewhere.                               *)
KeptCall(s, g) ==
    /\ g.id \in Ids /\ s.calls[g.id].party # 0
    /\ s.calls[g.id].ch \in {NoChannel, g.ch} =>
          s.lease[g.ch] \in {0, s.calls[g.id].party} \/ s.slipped

KeptInv(s, X) == \A g \in Followers(s) : g.id \in X \/ KeptCall(s, g)

Book(s, X) == RecordInv(s) /\ KeptInv(s, X)

Good(s, open) == Core(s, open) /\ Book(s, {})

Shape ==
    /\ air \in Airs /\ burst \in [open : BOOLEAN, stale : BOOLEAN]
    /\ sm \in [m : Machine, kind : {"none", "grant", "return"}, own : {"none", "pending", "ok", "failed"},
              prev : Previous, dl : BOOLEAN]
    /\ rx \in [hw : Freqs, center : Freqs, live : Seq(Entry)]

IInv == Shape /\ Good(Here, burst.open)

-----------------------------------------------------------------------------
(* Constants.                                                              *)

(* What the assumption says of the constants.                              *)
LEMMA Constants ==
    /\ \A f \in Freqs : f \in Nat /\ f # 0
    /\ \A i \in Ids : i \in Nat /\ i # 0
    /\ \A c \in Channels : c.f \in Freqs /\ c # NoChannel
    /\ NoChannel.f = 0 /\ NoChannel.s = 0 /\ MainCarrier \in Freqs /\ Late \in BOOLEAN
  BY TetraAssumption DEF NoChannel

(* The types of a state's parts.                                           *)
LEMMA Parts ==
    ASSUME NEW s \in State
    PROVE  /\ s.m \in Machine /\ s.m.st \in {"idle", "cc", "tuned"} /\ s.m.fol \in [ch : Chs, id : Nat]
           /\ s.m.retired \in BOOLEAN /\ s.m.proven \in BOOLEAN /\ s.m.tune \in Period /\ s.m.voice \in Period
           /\ s.prev \in Previous /\ s.prev.m \in Machine /\ s.prev.shared \in Shared /\ s.prev.current \in BOOLEAN
           /\ s.kind \in {"none", "grant", "return"} /\ s.own \in {"none", "pending", "ok", "failed"}
           /\ s.calls \in [Ids -> Record] /\ s.lease \in [Channels -> Parties \cup {0}] /\ s.live \in Seq(Entry)
           /\ s.shared \in Shared /\ s.hw \in Freqs /\ s.center \in Freqs /\ s.cc \in {0, MainCarrier}
           /\ s.misled \in BOOLEAN /\ s.slipped \in BOOLEAN /\ s.stale \in BOOLEAN /\ s.dl \in BOOLEAN
  BY DEF State, Machine, Previous

(* tetra_confirm_reset()                                                   *)
LEMMA ForgetEffect ==
    ASSUME NEW s \in State
    PROVE  LET t == ForgetCarrier(s)
           IN  /\ t \in State /\ t.m.st = s.m.st /\ t.m.fol = s.m.fol /\ t.m.retired = s.m.retired /\ ~t.m.proven
               /\ t.kind = s.kind /\ t.own = s.own /\ t.live = s.live /\ t.hw = s.hw /\ t.shared = s.shared
               /\ t.prev.m = s.prev.m /\ t.prev.shared = s.prev.shared /\ t.misled = s.misled /\ t.stale
               /\ t.calls = s.calls /\ t.lease = s.lease /\ t.slipped = s.slipped /\ t.cc = s.cc
  <1> DEFINE t == ForgetCarrier(s)
  <1>1. t \in State
    BY DEF ForgetCarrier, State, Machine, Previous
  <1>2. /\ t.m.st = s.m.st /\ t.m.fol = s.m.fol /\ t.m.retired = s.m.retired /\ ~t.m.proven
        /\ t.prev.m = s.prev.m /\ t.prev.shared = s.prev.shared
    BY DEF ForgetCarrier, State, Machine, Previous
  <1>3. /\ t.kind = s.kind /\ t.own = s.own /\ t.live = s.live /\ t.hw = s.hw /\ t.shared = s.shared
        /\ t.misled = s.misled /\ t.stale
        /\ t.calls = s.calls /\ t.lease = s.lease /\ t.slipped = s.slipped /\ t.cc = s.cc
    BY DEF ForgetCarrier, State
  <1> QED BY <1>1, <1>2, <1>3

-----------------------------------------------------------------------------
(* Frames.                                                                 *)

(* The records are as they were, and the machine follows no more calls.    *)
KeepsBook(s, t) ==
    /\ t.calls = s.calls /\ t.lease = s.lease /\ t.slipped = s.slipped
    /\ Followers(t) \subseteq Followers(s)

(* Book needs only that the records stay and no more calls are followed.   *)
LEMMA BookFrame ==
    ASSUME NEW s, NEW t, NEW X, Book(s, X), KeepsBook(s, t)
    PROVE  Book(t, X)
  <1>1. RecordInv(t)
    BY DEF Book, KeepsBook, RecordInv
  <1>2. \A g \in Followers(s) : KeptCall(s, g) => KeptCall(t, g)
    BY DEF KeepsBook, KeptCall
  <1>3. KeptInv(t, X)
    BY <1>2 DEF Book, KeepsBook, KeptInv
  <1> QED BY <1>1, <1>3 DEF Book

(* What is followed was followed, or would have been again.                *)
LEMMA FollowersFrame ==
    ASSUME NEW s \in State, NEW t \in State,
           t.m.st = "tuned" /\ ~t.m.retired =>
              \/ s.m.st = "tuned" /\ ~s.m.retired /\ t.m.fol = s.m.fol
              \/ s.kind # "none" /\ s.prev.m.st = "tuned" /\ ~s.prev.m.retired /\ t.m.fol = s.prev.m.fol,
           t.kind # "none" /\ t.prev.m.st = "tuned" /\ ~t.prev.m.retired =>
              \/ s.m.st = "tuned" /\ ~s.m.retired /\ t.prev.m.fol = s.m.fol
              \/ s.kind # "none" /\ s.prev.m.st = "tuned" /\ ~s.prev.m.retired /\ t.prev.m.fol = s.prev.m.fol
    PROVE  Followers(t) \subseteq Followers(s)
  BY DEF Followers, Tracks

(* Forgetting the carrier voids evidence and nothing else.                 *)
LEMMA ForgetKeeps ==
    ASSUME NEW s, NEW open \in BOOLEAN, Core(s, open)
    PROVE  Core(ForgetCarrier(s), open) /\ KeepsBook(s, ForgetCarrier(s))
  <1> DEFINE t == ForgetCarrier(s)
  <1>0. s \in State
    BY DEF Core
  <1>1. /\ t \in State /\ t.m.st = s.m.st /\ t.m.fol = s.m.fol /\ t.m.retired = s.m.retired /\ ~t.m.proven
        /\ t.kind = s.kind /\ t.own = s.own /\ t.live = s.live /\ t.hw = s.hw /\ t.shared = s.shared
        /\ t.prev.m = s.prev.m /\ t.prev.shared = s.prev.shared /\ t.misled = s.misled /\ t.stale
        /\ t.calls = s.calls /\ t.lease = s.lease /\ t.slipped = s.slipped
    BY <1>0, ForgetEffect
  <1> HIDE DEF t
  <1>3. FlightInv(t) /\ ChannelInv(t) /\ WhereInv(t)
    BY <1>1 DEF Core, FlightInv, ChannelInv, WhereInv
  <1>4. HeldInv(t) /\ ProofInv(t, open)
    BY <1>1 DEF Core, HeldInv, Holds, ProofInv
  <1>5. KeepsBook(s, t)
    BY <1>0, <1>1, FollowersFrame DEF KeepsBook
  <1> QED BY <1>1, <1>3, <1>4, <1>5 DEF Core, t

(* A machine at rest, that nobody waits for.                               *)
LEMMA AtRest ==
    ASSUME NEW s \in State, NEW open \in BOOLEAN, s.kind = "none", s.own = "none", s.m.st # "tuned",
           ~s.shared.tuned, \A i \in 1 .. Len(s.live) : s.live[i].tag # "own"
    PROVE  Core(s, open) /\ Followers(s) = {}
  <1>1. FlightInv(s) /\ ChannelInv(s) /\ WhereInv(s)
    BY DEF FlightInv, ChannelInv, WhereInv
  <1>2. HeldInv(s) /\ ProofInv(s, open)
    BY DEF HeldInv, Holds, ProofInv
  <1>3. Followers(s) = {}
    BY DEF Followers, Tracks
  <1> QED BY <1>1, <1>2, <1>3 DEF Core

(* sm_rest_state()                                                         *)
LEMMA RestIsRest ==
    ASSUME NEW s
    PROVE  Rest(s) \in {"cc", "idle"}
  BY DEF Rest

(* sm_unfollow() and sm_set_state() of the state it rests in               *)
LEMMA UnfollowEffect ==
    ASSUME NEW s \in State
    PROVE  LET t == Resting(Unfollow(s))
           IN  /\ t \in State /\ t.m.st # "tuned" /\ t.kind = s.kind /\ t.own = s.own /\ t.prev = s.prev
               /\ t.live = s.live /\ t.hw = s.hw /\ t.shared = s.shared /\ t.stale = s.stale
               /\ t.calls = s.calls /\ t.lease = s.lease /\ t.slipped = s.slipped /\ t.misled = s.misled
               /\ t.cc = s.cc
  <1> DEFINE u == Unfollow(s)
  <1>1. u \in State
    BY Constants DEF Unfollow, State, Machine, NoCall, Chs, Period
  <1>2. /\ u.kind = s.kind /\ u.own = s.own /\ u.prev = s.prev
        /\ u.live = s.live /\ u.hw = s.hw /\ u.shared = s.shared /\ u.stale = s.stale
        /\ u.calls = s.calls /\ u.lease = s.lease /\ u.slipped = s.slipped /\ u.misled = s.misled
        /\ u.cc = s.cc
    BY DEF Unfollow, State
  <1> HIDE DEF u
  <1>3. Rest(u) \in {"cc", "idle"}
    BY RestIsRest
  <1>4. LET t == [u EXCEPT !.m.st = Rest(u)]
        IN  /\ t \in State /\ t.m.st # "tuned" /\ t.kind = u.kind /\ t.own = u.own /\ t.prev = u.prev
            /\ t.live = u.live /\ t.hw = u.hw /\ t.shared = u.shared /\ t.stale = u.stale
            /\ t.calls = u.calls /\ t.lease = u.lease /\ t.slipped = u.slipped /\ t.misled = u.misled
            /\ t.cc = u.cc
    BY <1>1, <1>3 DEF State, Machine
  <1> QED BY <1>2, <1>4 DEF Resting, u

(* tetra_sm_disown_pending(): no request is the machine's own any more     *)
LEMMA DisownEffect ==
    ASSUME NEW s \in State
    PROVE  LET t == Disown(s)
           IN  /\ t \in State /\ t.kind = "none" /\ t.own = "none"
               /\ \A i \in 1 .. Len(t.live) : t.live[i].tag # "own"
               /\ t.m = s.m /\ t.shared = s.shared /\ t.stale = s.stale
               /\ t.calls = s.calls /\ t.lease = s.lease /\ t.slipped = s.slipped
  <1> DEFINE q == s.live
             E(i) == IF q[i].tag = "own" THEN [q[i] EXCEPT !.tag = "disowned"] ELSE q[i]
             r == [i \in DOMAIN q |-> E(i)]
  <1>1. q \in Seq(Entry)
    BY DEF State
  <1>2. \A i \in 1 .. Len(q) : E(i) \in Entry /\ E(i).tag # "own"
    <2>1. \A e \in Entry : [e EXCEPT !.tag = "disowned"] \in Entry /\ [e EXCEPT !.tag = "disowned"].tag = "disowned"
      BY DEF Entry
    <2>2. \A i \in 1 .. Len(q) : q[i] \in Entry
      BY <1>1
    <2> QED BY <2>1, <2>2
  <1>3. DOMAIN q = 1 .. Len(q) /\ Len(q) \in Nat
    BY <1>1
  <1>4. r \in [1 .. Len(q) -> Entry]
    BY <1>2, <1>3
  <1>5. r \in Seq(Entry)
    BY <1>3, <1>4, SeqDef
  <1>6. Len(r) = Len(q)
    BY <1>3, <1>4, <1>5, LenProperties
  <1>7. \A i \in 1 .. Len(r) : r[i].tag # "own"
    BY <1>2, <1>3, <1>6
  <1> HIDE DEF r
  <1>8. NoPrev \in Previous
    BY Constants DEF NoPrev, Previous, Machine, Empty, NoCall, Off, Shared, Chs, Period
  <1>9. LET t == [s EXCEPT !.kind = "none", !.own = "none", !.prev = NoPrev, !.live = r]
        IN  /\ t \in State /\ t.kind = "none" /\ t.own = "none" /\ t.live = r
            /\ t.m = s.m /\ t.shared = s.shared /\ t.stale = s.stale
            /\ t.calls = s.calls /\ t.lease = s.lease /\ t.slipped = s.slipped
    BY <1>5, <1>8 DEF State
  <1>10. Disown(s) = [s EXCEPT !.kind = "none", !.own = "none", !.prev = NoPrev, !.live = r]
    BY DEF Disown, r, State
  <1> QED BY <1>7, <1>9, <1>10

(* The shared tuning state let go of.                                      *)
LEMMA SharedOff ==
    ASSUME NEW s, NEW open \in BOOLEAN, Core(s, open)
    PROVE  /\ Core([s EXCEPT !.shared = Off], open)
           /\ KeepsBook(s, [s EXCEPT !.shared = Off])
  <1> DEFINE t == [s EXCEPT !.shared = Off]
  <1>0. s \in State
    BY DEF Core
  <1>1. /\ t \in State /\ t.m = s.m /\ t.kind = s.kind /\ t.own = s.own /\ t.prev = s.prev /\ t.live = s.live
        /\ t.hw = s.hw /\ t.misled = s.misled /\ t.stale = s.stale /\ t.shared = Off
        /\ t.calls = s.calls /\ t.lease = s.lease /\ t.slipped = s.slipped
    BY <1>0 DEF State, Off, Shared
  <1> HIDE DEF t
  <1>2. FlightInv(t) /\ ChannelInv(t) /\ WhereInv(t) /\ ProofInv(t, open)
    BY <1>1 DEF Core, FlightInv, ChannelInv, WhereInv, ProofInv
  <1>3. HeldInv(t)
    BY <1>1 DEF Core, HeldInv, Holds, Off
  <1>4. KeepsBook(s, t)
    BY <1>0, <1>1, FollowersFrame DEF KeepsBook
  <1> QED BY <1>1, <1>2, <1>3, <1>4 DEF Core, t

-----------------------------------------------------------------------------
(* Tunes.                                                                  *)

(* A tune is refused, done, or left with the backend.                      *)
Refused(s, t) == ~t.ok
Done(s, t, f) == t.ok /\ Len(s.live) = 0 /\ t.hw = f /\ t.own = s.own /\ t.live = s.live
Left(s, t, f) ==
    /\ t.ok /\ t.hw = s.hw /\ t.own = "pending"
    /\ Len(t.live) = Len(s.live) + 1
    /\ \A i \in 1 .. Len(s.live) : t.live[i] = s.live[i]
    /\ t.live[Len(t.live)] = [f |-> f, tag |-> "own"]

(* The tuning hook changes the receiver and the queue, and nothing else.   *)
LEMMA TuneEffect ==
    ASSUME NEW s \in State, NEW f \in Freqs, NEW t \in Tune(s, f)
    PROVE  /\ t \in State
           /\ t.m = s.m /\ t.kind = s.kind /\ t.prev = s.prev /\ t.shared = s.shared /\ t.stale = s.stale
           /\ t.calls = s.calls /\ t.lease = s.lease /\ t.slipped = s.slipped /\ t.misled = s.misled
           /\ t.cc = s.cc
           /\ Refused(s, t) \/ Done(s, t, f) \/ Left(s, t, f)
  <1>0. s.live \in Seq(Entry)
    BY DEF State
  <1>1. CASE t = [s EXCEPT !.ok = FALSE]
    BY <1>1 DEF State, Refused
  <1>2. CASE s.live = <<>> /\ t = [s EXCEPT !.ok = TRUE, !.hw = f, !.center = f]
    <2>1. Len(s.live) = 0
      BY <1>2
    <2> QED BY <1>2, <2>1 DEF State, Done
  <1>3. CASE t = [s EXCEPT !.ok = TRUE, !.center = f, !.own = "pending", !.live = Append(@, [f |-> f, tag |-> "own"])]
    <2> DEFINE e == [f |-> f, tag |-> "own"]
               q == Append(s.live, e)
    <2>1. e \in Entry
      BY DEF Entry
    <2>2. /\ q \in Seq(Entry) /\ Len(q) = Len(s.live) + 1 /\ q[Len(q)] = e
          /\ \A i \in 1 .. Len(s.live) : q[i] = s.live[i]
      BY <1>0, <2>1
    <2> HIDE DEF q, e
    <2>3. t = [s EXCEPT !.ok = TRUE, !.center = f, !.own = "pending", !.live = q]
      BY <1>3 DEF q, e, State
    <2>4. /\ t \in State /\ t.live = q /\ t.ok /\ t.hw = s.hw /\ t.own = "pending"
          /\ t.m = s.m /\ t.kind = s.kind /\ t.prev = s.prev /\ t.shared = s.shared /\ t.stale = s.stale
          /\ t.calls = s.calls /\ t.lease = s.lease /\ t.slipped = s.slipped /\ t.misled = s.misled
          /\ t.cc = s.cc
      BY <2>2, <2>3 DEF State
    <2> QED BY <2>2, <2>4 DEF Left, e
  <1> QED BY <1>1, <1>2, <1>3 DEF Tune

(* sm_return_completed(), once the receiver is on the control channel      *)
LEMMA ReturnDone ==
    ASSUME NEW s \in State, NEW open \in BOOLEAN, s.kind = "none", s.own = "none", Len(s.live) = 0
    PROVE  /\ ReturnCompleted(s) \in State
           /\ Core(Resting(ReturnCompleted(s)), open) /\ Followers(Resting(ReturnCompleted(s))) = {}
           /\ s.m.st # "tuned" => Core(ReturnCompleted(s), open) /\ Followers(ReturnCompleted(s)) = {}
           /\ \A t \in {ReturnCompleted(s), Resting(ReturnCompleted(s))} :
                 t.calls = s.calls /\ t.lease = s.lease /\ t.slipped = s.slipped /\ t.kind = "none" /\ t.cc = s.cc
  <1> DEFINE t == ReturnCompleted(s)
  <1>1. /\ t \in State /\ t.kind = "none" /\ t.own = "none" /\ t.live = s.live /\ ~t.shared.tuned
        /\ t.m.st = s.m.st
        /\ t.calls = s.calls /\ t.lease = s.lease /\ t.slipped = s.slipped /\ t.cc = s.cc
    <2> DEFINE a == [s EXCEPT !.shared.tuned = FALSE]
               b == Unfollow(a)
    <2>1. /\ a \in State /\ a.kind = "none" /\ a.own = "none" /\ a.live = s.live /\ ~a.shared.tuned
          /\ a.m = s.m /\ a.calls = s.calls /\ a.lease = s.lease /\ a.slipped = s.slipped /\ a.cc = s.cc
      BY DEF State, Shared
    <2> HIDE DEF a
    <2>2. /\ b \in State /\ b.kind = "none" /\ b.own = "none" /\ b.live = s.live /\ ~b.shared.tuned
          /\ b.m.st = s.m.st
          /\ b.calls = s.calls /\ b.lease = s.lease /\ b.slipped = s.slipped /\ b.cc = s.cc
      <3>1. b \in State
        BY <2>1, Constants DEF Unfollow, State, Machine, NoCall, Chs, Period
      <3>2. /\ b.kind = a.kind /\ b.own = a.own /\ b.live = a.live /\ b.shared = a.shared
            /\ b.calls = a.calls /\ b.lease = a.lease /\ b.slipped = a.slipped /\ b.cc = a.cc
        BY <2>1 DEF Unfollow, State
      <3>3. b.m.st = a.m.st
        BY <2>1 DEF Unfollow, State, Machine
      <3> QED BY <2>1, <3>1, <3>2, <3>3
    <2> HIDE DEF b
    <2>3. /\ ForgetCarrier(b) \in State /\ ForgetCarrier(b).kind = b.kind /\ ForgetCarrier(b).own = b.own
          /\ ForgetCarrier(b).live = b.live /\ ForgetCarrier(b).shared = b.shared
          /\ ForgetCarrier(b).m.st = b.m.st /\ ForgetCarrier(b).calls = b.calls
          /\ ForgetCarrier(b).lease = b.lease /\ ForgetCarrier(b).slipped = b.slipped
          /\ ForgetCarrier(b).cc = b.cc
      BY <2>2, ForgetEffect
    <2>4. t = ForgetCarrier(b)
      BY DEF ReturnCompleted, b, a
    <2> QED BY <2>2, <2>3, <2>4
  <1> HIDE DEF t
  <1> DEFINE u == [t EXCEPT !.m.st = Rest(t)]
  <1>2. /\ u \in State /\ u.kind = "none" /\ u.own = "none" /\ u.live = s.live /\ ~u.shared.tuned
        /\ u.m.st # "tuned"
        /\ u.calls = s.calls /\ u.lease = s.lease /\ u.slipped = s.slipped /\ u.cc = s.cc
    BY <1>1, RestIsRest DEF State, Machine
  <1>3. u = Resting(t)
    BY DEF Resting
  <1> HIDE DEF u
  <1>4. Core(u, open) /\ Followers(u) = {}
    BY <1>1, <1>2, AtRest
  <1>5. s.m.st # "tuned" => Core(t, open) /\ Followers(t) = {}
    BY <1>1, AtRest
  <1> QED BY <1>1, <1>2, <1>3, <1>4, <1>5 DEF t

(* sm_capture()                                                            *)
LEMMA CapturedType ==
    ASSUME NEW s \in State
    PROVE  Captured(s) \in Previous /\ Captured(s).m = s.m /\ Captured(s).shared = s.shared /\ Captured(s).current
  BY DEF Captured, State, Previous

(* A return left with the backend.                                         *)
LEMMA ReturnStaged ==
    ASSUME NEW s, NEW t \in State, NEW f, NEW open \in BOOLEAN, Core(s, open), s.kind = "none",
           t.m = s.m, t.stale = s.stale, t.misled = s.misled,
           t.calls = s.calls, t.lease = s.lease, t.slipped = s.slipped, Left(s, t, f)
    PROVE  LET u == Resting([t EXCEPT !.kind = "return", !.prev = Captured(s), !.m.fol = NoCall, !.shared = Off])
           IN  Core(u, open) /\ KeepsBook(s, u)
  <1> DEFINE a == [t EXCEPT !.kind = "return", !.prev = Captured(s), !.m.fol = NoCall, !.shared = Off]
             u == [a EXCEPT !.m.st = Rest(a)]
  <1>0. s \in State /\ NoCall \in [ch : Chs, id : Nat] /\ Off \in Shared /\ ~Off.tuned
    BY Constants DEF Core, NoCall, Chs, Off, Shared
  <1>1. Captured(s) \in Previous /\ Captured(s).m = s.m /\ Captured(s).shared = s.shared /\ Captured(s).current
    BY <1>0, CapturedType
  <1>2. a \in State
    BY <1>0, <1>1 DEF State, Machine
  <1>3. /\ a.kind = "return" /\ a.prev = Captured(s) /\ a.shared = Off /\ a.own = t.own /\ a.live = t.live
        /\ a.hw = t.hw /\ a.stale = t.stale /\ a.misled = t.misled
        /\ a.calls = t.calls /\ a.lease = t.lease /\ a.slipped = t.slipped
    BY DEF State
  <1> HIDE DEF a
  <1>4. u \in State
    BY <1>2, RestIsRest DEF State, Machine
  <1>5. /\ u.kind = "return" /\ u.prev = Captured(s) /\ u.shared = Off /\ u.own = t.own /\ u.live = t.live
        /\ u.hw = t.hw /\ u.stale = t.stale /\ u.misled = t.misled
        /\ u.calls = t.calls /\ u.lease = t.lease /\ u.slipped = t.slipped
    BY <1>2, <1>3 DEF State
  <1>6. u.m.st # "tuned"
    BY <1>2, RestIsRest DEF State, Machine
  <1>7. u = Resting(a)
    BY DEF Resting
  <1> HIDE DEF u
  <1>8. Len(s.live) \in Nat /\ Len(u.live) \in Nat
    BY <1>0, <1>4 DEF State
  <1>9. FlightInv(u)
    <2>1. \A i \in 1 .. Len(s.live) : s.live[i].tag # "own"
      BY DEF Core, FlightInv
    <2> QED BY <1>5, <1>6, <1>8, <2>1 DEF FlightInv, Left
  <1>10. ChannelInv(u) /\ WhereInv(u)
    BY <1>1, <1>5, <1>6, <1>8 DEF Core, ChannelInv, WhereInv, Left
  <1>11. HeldInv(u) /\ ProofInv(u, open)
    BY <1>1, <1>5, <1>6 DEF Core, HeldInv, Holds, ProofInv
  <1>12. KeepsBook(s, u)
    BY <1>0, <1>1, <1>4, <1>5, <1>6, FollowersFrame DEF KeepsBook
  <1> QED BY <1>4, <1>7, <1>9, <1>10, <1>11, <1>12 DEF Core, a

(* sm_release()                                                            *)
LEMMA ReleaseKeeps ==
    ASSUME NEW s, NEW open \in BOOLEAN, Core(s, open), s.kind = "none", s.m.st = "tuned", NEW t \in Release(s)
    PROVE  Core(t, open) /\ KeepsBook(s, t)
  <1>0. s \in State /\ s.own = "none" /\ \A i \in 1 .. Len(s.live) : s.live[i].tag # "own"
    BY DEF Core, FlightInv
  <1>1. KeepsBook(s, s)
    BY DEF KeepsBook
  <1>2. CASE t = s
    BY <1>1, <1>2
  <1>3. CASE t = Resting(Unfollow([s EXCEPT !.shared = Off]))
    <2> DEFINE a == [s EXCEPT !.shared = Off]
    <2>1. /\ a \in State /\ a.kind = "none" /\ a.own = "none" /\ a.live = s.live /\ ~a.shared.tuned
          /\ a.calls = s.calls /\ a.lease = s.lease /\ a.slipped = s.slipped
      BY <1>0 DEF State, Off, Shared
    <2> HIDE DEF a
    <2>2. /\ t \in State /\ t.m.st # "tuned" /\ t.kind = "none" /\ t.own = "none" /\ t.live = s.live
          /\ ~t.shared.tuned /\ t.calls = s.calls /\ t.lease = s.lease /\ t.slipped = s.slipped
      BY <1>3, <2>1, UnfollowEffect DEF a
    <2>3. Core(t, open) /\ Followers(t) = {}
      BY <1>0, <2>2, AtRest
    <2> QED BY <2>2, <2>3 DEF KeepsBook
  <1>4. ASSUME s.cc # 0, NEW u \in Tune(s, s.cc), u.ok, u.own = "pending",
               t = Resting([u EXCEPT !.kind = "return", !.prev = Captured(s), !.m.fol = NoCall, !.shared = Off])
        PROVE  Core(t, open) /\ KeepsBook(s, t)
    <2>1. s.cc \in Freqs
      BY <1>0, <1>4, Constants DEF State
    <2>2. /\ u \in State /\ u.m = s.m /\ u.stale = s.stale /\ u.misled = s.misled
          /\ u.calls = s.calls /\ u.lease = s.lease /\ u.slipped = s.slipped
          /\ Refused(s, u) \/ Done(s, u, s.cc) \/ Left(s, u, s.cc)
      BY <1>0, <1>4, <2>1, TuneEffect
    <2>3. Left(s, u, s.cc)
      BY <1>0, <1>4, <2>2 DEF Refused, Done
    <2> QED BY <1>4, <2>2, <2>3, ReturnStaged
  <1>5. ASSUME s.cc # 0, NEW u \in Tune(s, s.cc), u.ok, u.own # "pending",
               t = Resting(ReturnCompleted([u EXCEPT !.shared.vc = 0]))
        PROVE  Core(t, open) /\ KeepsBook(s, t)
    <2>1. s.cc \in Freqs
      BY <1>0, <1>5, Constants DEF State
    <2>2. /\ u \in State /\ u.kind = "none"
          /\ u.calls = s.calls /\ u.lease = s.lease /\ u.slipped = s.slipped
          /\ Refused(s, u) \/ Done(s, u, s.cc) \/ Left(s, u, s.cc)
      BY <1>0, <1>5, <2>1, TuneEffect
    <2>3. Done(s, u, s.cc)
      BY <1>0, <1>5, <2>2 DEF Refused, Left
    <2> DEFINE a == [u EXCEPT !.shared.vc = 0]
    <2>4. /\ a \in State /\ a.kind = "none" /\ a.own = "none" /\ Len(a.live) = 0
          /\ a.calls = s.calls /\ a.lease = s.lease /\ a.slipped = s.slipped
      BY <1>0, <2>2, <2>3 DEF State, Shared, Done
    <2> HIDE DEF a
    <2>5. /\ Core(t, open) /\ Followers(t) = {}
          /\ t.calls = s.calls /\ t.lease = s.lease /\ t.slipped = s.slipped
      BY <1>5, <2>4, ReturnDone DEF a
    <2> QED BY <2>5 DEF KeepsBook
  <1> QED BY <1>2, <1>3, <1>4, <1>5 DEF Release

(* tetra_sm_on_release()                                                   *)
LEMMA OnReleaseKeeps ==
    ASSUME NEW s, NEW open \in BOOLEAN, Core(s, open), NEW id, NEW t \in OnRelease(s, id)
    PROVE  Core(t, open) /\ KeepsBook(s, t)
  <1>1. KeepsBook(s, s)
    BY DEF KeepsBook
  <1> QED BY <1>1, ReleaseKeeps DEF OnRelease

-----------------------------------------------------------------------------
(* Grants.                                                                 *)

(* The records are as they were, and the machine follows one call more.    *)
TakesUp(s, t, g) ==
    /\ t.calls = s.calls /\ t.lease = s.lease /\ t.slipped = s.slipped
    /\ Followers(t) \subseteq Followers(s) \cup {g}

(* Book, when the call that is taken up has its record and its channel.    *)
LEMMA BookOfOneMore ==
    ASSUME NEW s, NEW t, NEW X, NEW g, Book(s, X), TakesUp(s, t, g), KeptCall(s, g)
    PROVE  Book(t, X)
  <1>1. RecordInv(t)
    BY DEF Book, TakesUp, RecordInv
  <1>2. \A x : KeptCall(s, x) => KeptCall(t, x)
    BY DEF TakesUp, KeptCall
  <1>3. KeptInv(t, X)
    BY <1>2 DEF Book, TakesUp, KeptInv
  <1> QED BY <1>1, <1>3 DEF Book

(* A call that is taken up comes on top of what was followed.              *)
LEMMA FollowersGain ==
    ASSUME NEW s \in State, NEW t \in State, NEW g, t.m.fol = g,
           t.kind # "none" => t.prev.m = s.m
    PROVE  Followers(t) \subseteq Followers(s) \cup {g}
  BY DEF Followers, Tracks

(* sm_follow()                                                             *)
LEMMA FollowEffect ==
    ASSUME NEW s \in State, NEW ch \in Channels, NEW id \in Ids
    PROVE  LET t == Follow(s, ch, id)
           IN  /\ t \in State /\ t.m.st = "tuned" /\ t.m.fol = [ch |-> ch, id |-> id] /\ t.m.fol.ch = ch
               /\ ~t.m.retired /\ ~t.m.proven
               /\ t.kind = s.kind /\ t.own = s.own /\ t.prev = s.prev /\ t.live = s.live /\ t.hw = s.hw
               /\ t.shared = s.shared /\ t.stale = s.stale /\ t.misled = s.misled
               /\ t.calls = s.calls /\ t.lease = s.lease /\ t.slipped = s.slipped
  BY Constants DEF Follow, State, Machine, Chs, Period

(* sm_follow_here()                                                        *)
LEMMA FollowHereKeeps ==
    ASSUME NEW s, NEW open \in BOOLEAN, Core(s, open), s.kind = "none",
           NEW ch \in Channels, NEW id \in Ids, ch.f = ReceiverFreq(s)
    PROVE  LET t == FollowHere(s, ch, id)
           IN  Core(t, open) /\ TakesUp(s, t, [ch |-> ch, id |-> id])
               /\ t.kind = "none" /\ t.m.st = "tuned" /\ t.m.fol = [ch |-> ch, id |-> id] /\ ~t.m.retired
  <1> DEFINE g == [ch |-> ch, id |-> id]
             a == Follow(s, ch, id)
             sh == IF s.m.st = "tuned" THEN s.shared ELSE [tuned |-> TRUE, vc |-> ch.f]
             mi == s.misled \/ s.hw # ch.f \/ s.live # <<>>
             t == [a EXCEPT !.m.tune = "running", !.m.proven = TRUE, !.shared = sh, !.misled = mi]
  <1>0. s \in State /\ s.own = "none" /\ Len(s.live) \in Nat /\ s.live \in Seq(Entry)
    BY DEF Core, FlightInv, State
  <1>1. CASE s.m.st = "tuned" /\ ~s.m.retired /\ s.m.fol = g
    <2>1. FollowHere(s, ch, id) = s
      BY <1>1 DEF FollowHere
    <2>2. TakesUp(s, s, g)
      BY DEF TakesUp
    <2> QED BY <1>1, <2>1, <2>2
  <1>2. CASE ~(s.m.st = "tuned" /\ ~s.m.retired /\ s.m.fol = g)
    <2>1. /\ a \in State /\ a.m.st = "tuned" /\ a.m.fol = g /\ a.m.fol.ch = ch /\ ~a.m.retired
          /\ a.kind = s.kind /\ a.own = s.own /\ a.prev = s.prev /\ a.live = s.live /\ a.hw = s.hw
          /\ a.shared = s.shared /\ a.stale = s.stale /\ a.misled = s.misled
          /\ a.calls = s.calls /\ a.lease = s.lease /\ a.slipped = s.slipped
      BY <1>0, FollowEffect
    <2>2. ch.f \in Freqs /\ ch.f \in Nat
      BY Constants
    <2>3. sh \in Shared /\ mi \in BOOLEAN
      BY <1>0, <2>2 DEF State, Shared
    <2>4. FollowHere(s, ch, id) = t
      <3> HIDE DEF a
      <3> QED BY <1>2, <2>1 DEF FollowHere, a, State
    <2> HIDE DEF a, sh, mi
    <2>5. t \in State
      BY <2>1, <2>3 DEF State, Machine, Period
    <2>6. /\ t.kind = "none" /\ t.own = "none" /\ t.prev = s.prev /\ t.live = s.live /\ t.hw = s.hw
          /\ t.shared = sh /\ t.misled = mi /\ t.stale = s.stale
          /\ t.calls = s.calls /\ t.lease = s.lease /\ t.slipped = s.slipped
      BY <1>0, <2>1 DEF State
    <2>7. t.m.st = "tuned" /\ t.m.fol = g /\ t.m.fol.ch = ch /\ ~t.m.retired
      BY <2>1 DEF State, Machine
    <2> HIDE DEF t
    <2>8. FlightInv(t)
      BY <1>0, <2>6, <2>7 DEF Core, FlightInv
    <2>9. s.live # <<>> \/ Len(s.live) = 0
      BY <1>0
    <2>10. ChannelInv(t) /\ WhereInv(t)
      BY <2>6, <2>7, <2>9 DEF ChannelInv, WhereInv, mi
    <2>11. HeldInv(t) /\ ProofInv(t, open)
      BY <1>0, <2>2, <2>6, <2>7 DEF Core, HeldInv, Holds, ProofInv, sh, ReceiverFreq
    <2>12. TakesUp(s, t, g)
      BY <1>0, <2>5, <2>6, <2>7, FollowersGain DEF TakesUp
    <2> QED BY <2>4, <2>5, <2>6, <2>7, <2>8, <2>10, <2>11, <2>12 DEF Core
  <1> QED BY <1>1, <1>2

(* sm_grant_tune_completed(), once the receiver is on the channel          *)
LEMMA GrantDone ==
    ASSUME NEW s \in State, NEW open \in BOOLEAN, s.kind = "none", s.own = "none", Len(s.live) = 0,
           s.m.st = "tuned", s.m.fol.ch \in Channels, s.hw = s.m.fol.ch.f,
           s.shared.vc \in {0, s.m.fol.ch.f}, s.m.proven => ~s.m.retired
    PROVE  LET t == GrantCompleted(s)
           IN  /\ Core(t, open) /\ t.kind = "none"
               /\ t.calls = s.calls /\ t.lease = s.lease /\ t.slipped = s.slipped
               /\ t.m.st = s.m.st /\ t.m.fol = s.m.fol /\ t.m.retired = s.m.retired
  <1> DEFINE a == [s EXCEPT !.shared.tuned = TRUE, !.m.tune = "running"]
  <1>1. a \in State
    BY DEF State, Shared, Machine, Period
  <1>2. /\ a.kind = "none" /\ a.own = "none" /\ a.live = s.live /\ a.hw = s.hw
        /\ a.calls = s.calls /\ a.lease = s.lease /\ a.slipped = s.slipped
    BY DEF State
  <1>3. /\ a.m.st = s.m.st /\ a.m.fol = s.m.fol /\ a.m.retired = s.m.retired /\ a.m.proven = s.m.proven
        /\ a.shared.tuned /\ a.shared.vc = s.shared.vc
    BY DEF State, Shared, Machine
  <1>4. GrantCompleted(s) = ForgetCarrier(a)
    BY DEF GrantCompleted
  <1> HIDE DEF a
  <1>5. FlightInv(a) /\ ChannelInv(a) /\ WhereInv(a)
    BY <1>2, <1>3 DEF FlightInv, ChannelInv, WhereInv
  <1>6. HeldInv(a) /\ ProofInv(a, open)
    BY <1>2, <1>3 DEF HeldInv, Holds, ProofInv
  <1>7. Core(ForgetCarrier(a), open)
    BY <1>1, <1>5, <1>6, ForgetKeeps DEF Core
  <1> QED BY <1>1, <1>2, <1>3, <1>4, <1>7, ForgetEffect

(* A grant's tune left with the backend.                                   *)
LEMMA GrantStaged ==
    ASSUME NEW s, NEW t \in State, NEW ch \in Channels, NEW id \in Ids, NEW open \in BOOLEAN,
           Core(s, open), s.kind = "none",
           t.m = s.m, t.stale = s.stale, t.misled = s.misled, t.prev = s.prev,
           t.calls = s.calls, t.lease = s.lease, t.slipped = s.slipped, Left(s, t, ch.f)
    PROVE  LET u == [Follow([t EXCEPT !.shared = [tuned |-> TRUE, vc |-> ch.f]], ch, id)
                        EXCEPT !.kind = "grant", !.prev = Captured(s)]
           IN  Core(u, open) /\ TakesUp(s, u, [ch |-> ch, id |-> id])
  <1> DEFINE g == [ch |-> ch, id |-> id]
             sh == [tuned |-> TRUE, vc |-> ch.f]
             a == [t EXCEPT !.shared = sh]
             b == Follow(a, ch, id)
             u == [b EXCEPT !.kind = "grant", !.prev = Captured(s)]
  <1>0. s \in State /\ ch.f \in Nat /\ sh \in Shared /\ sh.vc = ch.f
    BY Constants DEF Core, Shared
  <1>1. Captured(s) \in Previous /\ Captured(s).m = s.m /\ Captured(s).shared = s.shared /\ Captured(s).current
    BY <1>0, CapturedType
  <1> HIDE DEF sh
  <1>2. /\ a \in State /\ a.shared = sh /\ a.own = t.own /\ a.live = t.live /\ a.hw = t.hw
        /\ a.stale = t.stale /\ a.misled = t.misled
        /\ a.calls = t.calls /\ a.lease = t.lease /\ a.slipped = t.slipped
    BY <1>0 DEF State
  <1> HIDE DEF a
  <1>3. /\ b \in State /\ b.m.st = "tuned" /\ b.m.fol = g /\ b.m.fol.ch = ch /\ ~b.m.retired /\ ~b.m.proven
        /\ b.shared = sh /\ b.own = t.own /\ b.live = t.live /\ b.hw = t.hw
        /\ b.stale = t.stale /\ b.misled = t.misled
        /\ b.calls = t.calls /\ b.lease = t.lease /\ b.slipped = t.slipped
    BY <1>2, FollowEffect
  <1> HIDE DEF b
  <1>4. /\ u \in State /\ u.kind = "grant" /\ u.prev = Captured(s) /\ u.m = b.m /\ u.shared = sh
        /\ u.own = t.own /\ u.live = t.live /\ u.hw = t.hw /\ u.stale = t.stale /\ u.misled = t.misled
        /\ u.calls = t.calls /\ u.lease = t.lease /\ u.slipped = t.slipped
    BY <1>1, <1>3 DEF State
  <1> HIDE DEF u
  <1>5. Len(s.live) \in Nat /\ Len(u.live) \in Nat
    BY <1>0, <1>4 DEF State
  <1>6. FlightInv(u)
    <2>1. \A i \in 1 .. Len(s.live) : s.live[i].tag # "own"
      BY DEF Core, FlightInv
    <2> QED BY <1>3, <1>4, <1>5, <2>1 DEF FlightInv, Left
  <1>7. ChannelInv(u) /\ WhereInv(u)
    BY <1>1, <1>3, <1>4, <1>5 DEF Core, ChannelInv, WhereInv, Left
  <1>8. HeldInv(u) /\ ProofInv(u, open)
    BY <1>0, <1>1, <1>3, <1>4 DEF Core, HeldInv, Holds, ProofInv
  <1>9. TakesUp(s, u, g)
    BY <1>0, <1>1, <1>3, <1>4, FollowersGain DEF TakesUp
  <1> QED BY <1>4, <1>6, <1>7, <1>8, <1>9 DEF Core, a, b, u, sh

(* sm_tune_grant()                                                         *)
LEMMA TuneGrantKeeps ==
    ASSUME NEW s, NEW open \in BOOLEAN, Core(s, open), s.kind = "none",
           NEW ch \in Channels, NEW id \in Ids, NEW t \in TuneGrant(s, ch, id)
    PROVE  Core(t, open) /\ TakesUp(s, t, [ch |-> ch, id |-> id])
  <1> DEFINE g == [ch |-> ch, id |-> id]
             sh == [tuned |-> TRUE, vc |-> ch.f]
  <1>0. s \in State /\ s.own = "none" /\ ch.f \in Freqs /\ ch.f \in Nat
    BY Constants DEF Core, FlightInv
  <1>1. PICK u \in Tune(s, ch.f) :
           t = IF ~u.ok THEN s
               ELSE IF u.own = "pending"
               THEN [Follow([u EXCEPT !.shared = sh], ch, id) EXCEPT !.kind = "grant", !.prev = Captured(s)]
               ELSE GrantCompleted(Follow([u EXCEPT !.shared = sh], ch, id))
    BY DEF TuneGrant
  <1>2. /\ u \in State /\ u.m = s.m /\ u.kind = s.kind /\ u.prev = s.prev /\ u.stale = s.stale
        /\ u.misled = s.misled /\ u.calls = s.calls /\ u.lease = s.lease /\ u.slipped = s.slipped
        /\ Refused(s, u) \/ Done(s, u, ch.f) \/ Left(s, u, ch.f)
    BY <1>0, TuneEffect
  <1>3. CASE ~u.ok
    BY <1>1, <1>3 DEF TakesUp
  <1>4. CASE u.ok /\ u.own = "pending"
    <2>1. Left(s, u, ch.f)
      BY <1>0, <1>2, <1>4 DEF Refused, Done
    <2> DEFINE v == [Follow([u EXCEPT !.shared = sh], ch, id) EXCEPT !.kind = "grant", !.prev = Captured(s)]
    <2>2. t = v
      BY <1>1, <1>4
    <2>3. Core(v, open) /\ TakesUp(s, v, g)
      BY <1>2, <2>1, GrantStaged
    <2> QED BY <2>2, <2>3
  <1>5. CASE u.ok /\ u.own # "pending"
    <2>1. Done(s, u, ch.f)
      BY <1>2, <1>5 DEF Refused, Left
    <2> DEFINE a == [u EXCEPT !.shared = sh]
               b == Follow(a, ch, id)
    <2>2. /\ a \in State /\ a.shared.vc = ch.f /\ a.kind = "none" /\ a.own = "none" /\ Len(a.live) = 0
          /\ a.hw = ch.f /\ a.calls = s.calls /\ a.lease = s.lease /\ a.slipped = s.slipped
      BY <1>0, <1>2, <2>1 DEF State, Shared, Done
    <2> HIDE DEF a
    <2>3. /\ b \in State /\ b.m.st = "tuned" /\ b.m.fol = g /\ b.m.fol.ch = ch /\ ~b.m.retired /\ ~b.m.proven
          /\ b.shared.vc = ch.f /\ b.kind = "none" /\ b.own = "none" /\ Len(b.live) = 0
          /\ b.hw = ch.f /\ b.calls = s.calls /\ b.lease = s.lease /\ b.slipped = s.slipped
      BY <2>2, FollowEffect
    <2>4. t = GrantCompleted(b)
      BY <1>1, <1>5 DEF a
    <2> HIDE DEF b
    <2>5. /\ Core(t, open) /\ t.kind = "none" /\ t.m.fol = g
          /\ t.calls = s.calls /\ t.lease = s.lease /\ t.slipped = s.slipped
      BY <2>3, <2>4, GrantDone
    <2>6. TakesUp(s, t, g)
      BY <1>0, <2>5, FollowersGain DEF TakesUp, Core
    <2> QED BY <2>5, <2>6
  <1> QED BY <1>1, <1>3, <1>4, <1>5

(* tetra_sm_on_grant(): a grant on the carrier that is followed needs no   *)
(* tune                                                                    *)
LEMMA OnGrantKeeps ==
    ASSUME NEW s, NEW open \in BOOLEAN, Core(s, open), NEW ch \in Channels, NEW id \in Ids,
           NEW t \in OnGrant(s, ch, id)
    PROVE  /\ Core(t, open) /\ TakesUp(s, t, [ch |-> ch, id |-> id])
           /\ s.m.st = "tuned" /\ s.m.fol.ch = ch =>
                 \/ t = s
                 \/ t.kind = "none" /\ t.m.st = "tuned" /\ t.m.fol = [ch |-> ch, id |-> id] /\ ~t.m.retired
  <1>1. TakesUp(s, s, [ch |-> ch, id |-> id])
    BY DEF TakesUp
  <1>2. CASE t = s
    BY <1>1, <1>2
  <1>3. CASE s.kind = "none" /\ ch.f = ReceiverFreq(s) /\ t = FollowHere(s, ch, id)
    BY <1>3, FollowHereKeeps
  <1>4. CASE s.kind = "none" /\ ch.f # ReceiverFreq(s) /\ t \in TuneGrant(s, ch, id)
    <2>1. Core(t, open) /\ TakesUp(s, t, [ch |-> ch, id |-> id])
      BY <1>4, TuneGrantKeeps
    <2>2. ~(s.m.st = "tuned" /\ s.m.fol.ch = ch)
      BY <1>4 DEF ReceiverFreq
    <2> QED BY <2>1, <2>2
  <1> QED BY <1>2, <1>3, <1>4 DEF OnGrant

-----------------------------------------------------------------------------
(* Calls let go of, and renamed.                                           *)

(* tetra_sm_retire_call()                                                  *)
LEMMA RetireEffect ==
    ASSUME NEW s \in State, NEW ids
    PROVE  LET t == RetireAll(s, ids)
           IN  /\ t \in State /\ t.kind = s.kind /\ t.own = s.own /\ t.live = s.live /\ t.hw = s.hw
               /\ t.shared = s.shared /\ t.stale = s.stale /\ t.misled = s.misled /\ t.cc = s.cc
               /\ t.calls = s.calls /\ t.lease = s.lease /\ t.slipped = s.slipped
               /\ t.m.st = s.m.st /\ t.m.fol = s.m.fol
               /\ IF FollowedId(s) \in ids THEN t.m.retired /\ ~t.m.proven
                  ELSE t.m.retired = s.m.retired /\ t.m.proven = s.m.proven
               /\ t.prev.shared = s.prev.shared /\ t.prev.current = s.prev.current
               /\ t.prev.m.st = s.prev.m.st /\ t.prev.m.fol = s.prev.m.fol
               /\ IF s.kind # "none" /\ s.prev.m.st = "tuned" /\ s.prev.m.fol.id \in ids
                  THEN t.prev.m.retired /\ ~t.prev.m.proven
                  ELSE t.prev.m.retired = s.prev.m.retired /\ t.prev.m.proven = s.prev.m.proven
  <1> DEFINE a == IF FollowedId(s) \in ids THEN [s EXCEPT !.m.retired = TRUE, !.m.proven = FALSE] ELSE s
             b == [a EXCEPT !.prev.m.retired = TRUE, !.prev.m.proven = FALSE]
  <1>1. a \in State
    <2>1. [s EXCEPT !.m.retired = TRUE, !.m.proven = FALSE] \in State
      BY DEF State, Machine
    <2> QED BY <2>1
  <1>2. /\ a.kind = s.kind /\ a.own = s.own /\ a.live = s.live /\ a.hw = s.hw
        /\ a.shared = s.shared /\ a.stale = s.stale /\ a.misled = s.misled /\ a.cc = s.cc
        /\ a.calls = s.calls /\ a.lease = s.lease /\ a.slipped = s.slipped /\ a.prev = s.prev
    BY DEF State
  <1>3. /\ a.m.st = s.m.st /\ a.m.fol = s.m.fol
        /\ IF FollowedId(s) \in ids THEN a.m.retired /\ ~a.m.proven
           ELSE a.m.retired = s.m.retired /\ a.m.proven = s.m.proven
    BY DEF State, Machine
  <1>4. RetireAll(s, ids) = IF s.kind # "none" /\ s.prev.m.st = "tuned" /\ s.prev.m.fol.id \in ids THEN b ELSE a
    BY DEF RetireAll
  <1> HIDE DEF a
  <1>5. b \in State
    BY <1>1 DEF State, Previous, Machine
  <1>6. /\ b.kind = a.kind /\ b.own = a.own /\ b.live = a.live /\ b.hw = a.hw
        /\ b.shared = a.shared /\ b.stale = a.stale /\ b.misled = a.misled /\ b.cc = a.cc
        /\ b.calls = a.calls /\ b.lease = a.lease /\ b.slipped = a.slipped /\ b.m = a.m
    BY <1>1 DEF State
  <1>7. /\ b.prev.shared = a.prev.shared /\ b.prev.current = a.prev.current
        /\ b.prev.m.st = a.prev.m.st /\ b.prev.m.fol = a.prev.m.fol
        /\ b.prev.m.retired /\ ~b.prev.m.proven
    BY <1>1 DEF State, Previous, Machine
  <1> HIDE DEF b
  <1> QED BY <1>1, <1>2, <1>3, <1>4, <1>5, <1>6, <1>7

(* A retired call is still where it was, unproven.                         *)
LEMMA RetireKeeps ==
    ASSUME NEW s, NEW open \in BOOLEAN, Core(s, open), NEW ids
    PROVE  Core(RetireAll(s, ids), open)
  <1> DEFINE t == RetireAll(s, ids)
  <1>0. s \in State
    BY DEF Core
  <1>1. /\ t \in State /\ t.kind = s.kind /\ t.own = s.own /\ t.live = s.live /\ t.hw = s.hw
        /\ t.shared = s.shared /\ t.stale = s.stale /\ t.misled = s.misled
        /\ t.m.st = s.m.st /\ t.m.fol = s.m.fol
        /\ t.prev.shared = s.prev.shared /\ t.prev.current = s.prev.current
        /\ t.prev.m.st = s.prev.m.st /\ t.prev.m.fol = s.prev.m.fol
    BY <1>0, RetireEffect
  <1>2. /\ ~t.m.proven \/ (t.m.retired = s.m.retired /\ t.m.proven = s.m.proven)
        /\ ~t.prev.m.proven \/ (t.prev.m.retired = s.prev.m.retired /\ t.prev.m.proven = s.prev.m.proven)
    BY <1>0, RetireEffect
  <1> HIDE DEF t
  <1>3. FlightInv(t) /\ ChannelInv(t) /\ WhereInv(t)
    BY <1>1 DEF Core, FlightInv, ChannelInv, WhereInv
  <1>4. HeldInv(t)
    BY <1>1 DEF Core, HeldInv, Holds
  <1>5. ProofInv(t, open)
    BY <1>1, <1>2 DEF Core, ProofInv
  <1> QED BY <1>1, <1>3, <1>4, <1>5 DEF Core, t

(* What is retired needs no record.                                        *)
LEMMA RetireBook ==
    ASSUME NEW s \in State, NEW ids, NEW X, NEW Y, Book(s, X), X \subseteq ids \cup Y
    PROVE  Book(RetireAll(s, ids), Y)
  <1> DEFINE t == RetireAll(s, ids)
  <1>1. /\ t.calls = s.calls /\ t.lease = s.lease /\ t.slipped = s.slipped /\ t.kind = s.kind
        /\ t.m.st = s.m.st /\ t.m.fol = s.m.fol /\ t.prev.m.st = s.prev.m.st /\ t.prev.m.fol = s.prev.m.fol
        /\ IF FollowedId(s) \in ids THEN t.m.retired ELSE t.m.retired = s.m.retired
        /\ IF s.kind # "none" /\ s.prev.m.st = "tuned" /\ s.prev.m.fol.id \in ids THEN t.prev.m.retired
           ELSE t.prev.m.retired = s.prev.m.retired
    BY RetireEffect
  <1> HIDE DEF t
  <1>2. RecordInv(t)
    BY <1>1 DEF Book, RecordInv
  <1>3. ASSUME NEW g \in Followers(t)
        PROVE  g \in Followers(s) /\ g.id \notin ids
    BY <1>1 DEF Followers, Tracks, FollowedId
  <1>4. \A g : KeptCall(s, g) => KeptCall(t, g)
    BY <1>1 DEF KeptCall
  <1>5. KeptInv(t, Y)
    BY <1>3, <1>4 DEF Book, KeptInv
  <1> QED BY <1>2, <1>5 DEF Book, t

(* tetra_sm_on_call_renamed()                                              *)
LEMMA RenamedEffect ==
    ASSUME NEW s \in State, NEW from, NEW to \in Ids
    PROVE  LET t == Renamed(s, from, to)
           IN  /\ t \in State /\ t.kind = s.kind /\ t.own = s.own /\ t.live = s.live /\ t.hw = s.hw
               /\ t.shared = s.shared /\ t.stale = s.stale /\ t.misled = s.misled /\ t.cc = s.cc
               /\ t.calls = s.calls /\ t.lease = s.lease /\ t.slipped = s.slipped
               /\ t.m.st = s.m.st /\ t.m.fol.ch = s.m.fol.ch /\ t.m.retired = s.m.retired /\ t.m.proven = s.m.proven
               /\ t.m.fol.id = IF FollowedId(s) = from THEN to ELSE s.m.fol.id
               /\ t.prev.shared = s.prev.shared /\ t.prev.current = s.prev.current
               /\ t.prev.m.st = s.prev.m.st /\ t.prev.m.fol.ch = s.prev.m.fol.ch
               /\ t.prev.m.retired = s.prev.m.retired /\ t.prev.m.proven = s.prev.m.proven
               /\ t.prev.m.fol.id =
                     IF s.kind # "none" /\ s.prev.m.st = "tuned" /\ ~s.prev.m.retired /\ s.prev.m.fol.id = from
                     THEN to ELSE s.prev.m.fol.id
  <1> DEFINE a == IF FollowedId(s) = from THEN [s EXCEPT !.m.fol.id = to] ELSE s
             b == [a EXCEPT !.prev.m.fol.id = to]
             c == s.kind # "none" /\ s.prev.m.st = "tuned" /\ ~s.prev.m.retired /\ s.prev.m.fol.id = from
  <1>0. to \in Nat
    BY Constants
  <1>1. a \in State
    <2>1. [s EXCEPT !.m.fol.id = to] \in State
      BY <1>0 DEF State, Machine
    <2> QED BY <2>1
  <1>2. /\ a.kind = s.kind /\ a.own = s.own /\ a.live = s.live /\ a.hw = s.hw
        /\ a.shared = s.shared /\ a.stale = s.stale /\ a.misled = s.misled /\ a.cc = s.cc
        /\ a.calls = s.calls /\ a.lease = s.lease /\ a.slipped = s.slipped /\ a.prev = s.prev
    BY DEF State
  <1>3. /\ a.m.st = s.m.st /\ a.m.fol.ch = s.m.fol.ch /\ a.m.retired = s.m.retired /\ a.m.proven = s.m.proven
        /\ a.m.fol.id = IF FollowedId(s) = from THEN to ELSE s.m.fol.id
    BY DEF State, Machine
  <1>4. Renamed(s, from, to) = IF c THEN b ELSE a
    BY DEF Renamed
  <1> HIDE DEF a
  <1>5. b \in State
    BY <1>0, <1>1 DEF State, Previous, Machine
  <1>6. /\ b.kind = a.kind /\ b.own = a.own /\ b.live = a.live /\ b.hw = a.hw
        /\ b.shared = a.shared /\ b.stale = a.stale /\ b.misled = a.misled /\ b.cc = a.cc
        /\ b.calls = a.calls /\ b.lease = a.lease /\ b.slipped = a.slipped /\ b.m = a.m
    BY <1>1 DEF State
  <1>7. /\ b.prev.shared = a.prev.shared /\ b.prev.current = a.prev.current
        /\ b.prev.m.st = a.prev.m.st /\ b.prev.m.fol.ch = a.prev.m.fol.ch /\ b.prev.m.fol.id = to
        /\ b.prev.m.retired = a.prev.m.retired /\ b.prev.m.proven = a.prev.m.proven
    BY <1>1 DEF State, Previous, Machine
  <1> HIDE DEF b
  <1>8. CASE c
    BY <1>2, <1>3, <1>4, <1>5, <1>6, <1>7, <1>8
  <1>9. CASE ~c
    BY <1>1, <1>2, <1>3, <1>4, <1>9
  <1> QED BY <1>8, <1>9

(* A call is followed where it was under its new identifier.               *)
LEMMA RenamedKeeps ==
    ASSUME NEW s, NEW open \in BOOLEAN, Core(s, open), NEW from, NEW to \in Ids
    PROVE  Core(Renamed(s, from, to), open)
  <1> DEFINE t == Renamed(s, from, to)
  <1>0. s \in State
    BY DEF Core
  <1>1. /\ t \in State /\ t.kind = s.kind /\ t.own = s.own /\ t.live = s.live /\ t.hw = s.hw
        /\ t.shared = s.shared /\ t.stale = s.stale /\ t.misled = s.misled
        /\ t.m.st = s.m.st /\ t.m.fol.ch = s.m.fol.ch /\ t.m.retired = s.m.retired /\ t.m.proven = s.m.proven
        /\ t.prev.shared = s.prev.shared /\ t.prev.current = s.prev.current
        /\ t.prev.m.st = s.prev.m.st /\ t.prev.m.fol.ch = s.prev.m.fol.ch
        /\ t.prev.m.retired = s.prev.m.retired /\ t.prev.m.proven = s.prev.m.proven
    BY <1>0, RenamedEffect
  <1> HIDE DEF t
  <1>2. FlightInv(t) /\ ChannelInv(t) /\ WhereInv(t)
    BY <1>1 DEF Core, FlightInv, ChannelInv, WhereInv
  <1>3. HeldInv(t) /\ ProofInv(t, open)
    BY <1>1 DEF Core, HeldInv, Holds, ProofInv
  <1> QED BY <1>1, <1>2, <1>3 DEF Core, t

(* The machine is as it was, but for its clocks and for how it rests.      *)
LEMMA CoreFrame ==
    ASSUME NEW s, NEW t \in State, NEW open \in BOOLEAN, Core(s, open),
           t.m.st = "tuned" <=> s.m.st = "tuned", t.m.fol = s.m.fol, t.m.retired = s.m.retired,
           t.m.proven = s.m.proven \/ ~t.m.proven,
           t.kind = s.kind, t.own = s.own, t.live = s.live, t.hw = s.hw, t.shared = s.shared,
           t.prev.m.st = "tuned" <=> s.prev.m.st = "tuned", t.prev.m.fol = s.prev.m.fol,
           t.prev.m.retired = s.prev.m.retired, t.prev.m.proven = s.prev.m.proven,
           t.prev.shared = s.prev.shared, t.prev.current = s.prev.current,
           t.stale = s.stale \/ t.stale, t.misled = s.misled
    PROVE  Core(t, open) /\ Followers(t) = Followers(s)
  <1>0. s \in State
    BY DEF Core
  <1>1. FlightInv(t) /\ ChannelInv(t) /\ WhereInv(t)
    BY DEF Core, FlightInv, ChannelInv, WhereInv
  <1>2. HeldInv(t)
    BY DEF Core, HeldInv, Holds
  <1>3. ProofInv(t, open)
    BY DEF Core, ProofInv
  <1>4. Followers(t) = Followers(s)
    BY DEF Followers, Tracks
  <1> QED BY <1>1, <1>2, <1>3, <1>4 DEF Core

-----------------------------------------------------------------------------
(* The answer to a tune, taken up.                                         *)

(* sm_settle_pending()                                                     *)
LEMMA SettleKeeps ==
    ASSUME NEW s, NEW open \in BOOLEAN, Core(s, open)
    PROVE  /\ Core(Settle(s), open) /\ KeepsBook(s, Settle(s))
           /\ s.own # "pending" => Settle(s).kind = "none"
  <1> DEFINE a == [s EXCEPT !.kind = "none", !.own = "none", !.prev = NoPrev]
  <1>0. s \in State
    BY DEF Core
  <1>1. NoPrev \in Previous
    BY Constants DEF NoPrev, Previous, Machine, Empty, NoCall, Off, Shared, Chs, Period
  <1>2. /\ a \in State /\ a.kind = "none" /\ a.own = "none" /\ a.m = s.m /\ a.live = s.live /\ a.hw = s.hw
        /\ a.shared = s.shared /\ a.stale = s.stale /\ a.misled = s.misled
        /\ a.calls = s.calls /\ a.lease = s.lease /\ a.slipped = s.slipped
    BY <1>0, <1>1 DEF State
  <1>3. CASE s.kind = "none" \/ s.own = "pending"
    <2>1. Settle(s) = s
      BY <1>3 DEF Settle
    <2>2. s.own # "pending" => s.kind = "none"
      BY <1>3
    <2> QED BY <2>1, <2>2 DEF KeepsBook
  <1>4. CASE s.kind = "grant" /\ s.own = "ok"
    <2>1. Settle(s) = GrantCompleted(a)
      BY <1>4 DEF Settle
    <2> HIDE DEF a
    <2>2. /\ Len(a.live) = 0 /\ a.m.st = "tuned" /\ a.m.fol.ch \in Channels /\ a.hw = a.m.fol.ch.f
          /\ a.shared.vc \in {0, a.m.fol.ch.f} /\ (a.m.proven => ~a.m.retired)
      BY <1>2, <1>4 DEF Core, FlightInv, ChannelInv, HeldInv, ProofInv
    <2>3. LET t == GrantCompleted(a)
          IN  /\ Core(t, open) /\ t.kind = "none"
              /\ t.calls = a.calls /\ t.lease = a.lease /\ t.slipped = a.slipped
              /\ t.m.st = a.m.st /\ t.m.fol = a.m.fol /\ t.m.retired = a.m.retired
      BY <1>2, <2>2, GrantDone
    <2> DEFINE t == GrantCompleted(a)
    <2> HIDE DEF t
    <2>4. t \in State
      BY <2>3 DEF Core, t
    <2>5. Followers(t) \subseteq Followers(s)
      BY <1>0, <1>2, <2>3, <2>4, FollowersFrame DEF t
    <2> QED BY <1>2, <2>1, <2>3, <2>5 DEF KeepsBook, t
  <1>5. CASE s.kind = "return" /\ s.own = "ok"
    <2>1. Settle(s) = ReturnCompleted(a)
      BY <1>5 DEF Settle
    <2> HIDE DEF a
    <2>2. Len(a.live) = 0 /\ a.m.st # "tuned"
      BY <1>2, <1>5 DEF Core, FlightInv
    <2>3. LET t == ReturnCompleted(a)
          IN  /\ Core(t, open) /\ Followers(t) = {} /\ t.kind = "none"
              /\ t.calls = a.calls /\ t.lease = a.lease /\ t.slipped = a.slipped
      BY <1>2, <2>2, ReturnDone
    <2> QED BY <1>2, <2>1, <2>3 DEF KeepsBook
  <1>6. CASE s.kind # "none" /\ s.own = "failed"
    <2> DEFINE m == [s.prev.m EXCEPT !.proven = IF s.prev.current THEN @ ELSE s.m.proven]
               t == [a EXCEPT !.m = m, !.shared = s.prev.shared]
    <2>1. /\ s.m.proven \in BOOLEAN /\ s.prev.current \in BOOLEAN /\ s.prev.m \in Machine
          /\ s.prev.shared \in Shared
      BY <1>0, Parts
    <2>2. /\ m \in Machine /\ m.st = s.prev.m.st /\ m.fol = s.prev.m.fol /\ m.retired = s.prev.m.retired
          /\ m.proven = IF s.prev.current THEN s.prev.m.proven ELSE s.m.proven
      BY <2>1 DEF Machine
    <2>3. Restore(s).m = m /\ Restore(s).shared = s.prev.shared
      BY <1>0 DEF Restore, State
    <2>4. Settle(s) = t
      BY <1>6, <2>3 DEF Settle
    <2> HIDE DEF a, m
    <2>5. /\ t \in State /\ t.kind = "none" /\ t.own = "none" /\ t.m = m /\ t.shared = s.prev.shared
          /\ t.live = s.live /\ t.hw = s.hw /\ t.misled = s.misled
          /\ t.calls = s.calls /\ t.lease = s.lease /\ t.slipped = s.slipped
      BY <1>2, <2>1, <2>2 DEF State
    <2> HIDE DEF t
    <2>6. FlightInv(t) /\ ChannelInv(t) /\ WhereInv(t)
      BY <1>6, <2>2, <2>5 DEF Core, FlightInv, ChannelInv, WhereInv
    <2>7. HeldInv(t)
      BY <1>6, <2>2, <2>5 DEF Core, HeldInv, Holds
    <2>8. ProofInv(t, open)
      BY <1>6, <2>1, <2>2, <2>5 DEF Core, ProofInv
    <2>9. Followers(t) \subseteq Followers(s)
      BY <1>0, <1>6, <2>2, <2>5, FollowersFrame
    <2> QED BY <2>4, <2>5, <2>6, <2>7, <2>8, <2>9 DEF Core, KeepsBook
  <1> QED
    BY <1>0, <1>3, <1>4, <1>5, <1>6 DEF Core, FlightInv, State

-----------------------------------------------------------------------------
(* The records.                                                            *)

(* Some records give their channel up, or end.                             *)
Fewer(s, t, gone) ==
    /\ \A j \in gone : t.calls[j].ch = NoChannel /\ t.calls[j].party \in {0, s.calls[j].party}
    /\ \A j \in Ids \ gone : t.calls[j] = s.calls[j]
    /\ \A c \in Channels :
          \/ t.lease[c] = s.lease[c]
          \/ t.lease[c] = 0 /\ \E j \in gone : s.calls[j].party # 0 /\ s.lease[c] = s.calls[j].party

(* What is followed is a traffic channel.                                  *)
LEMMA FollowedChannel ==
    ASSUME NEW s, NEW open, Core(s, open), NEW g \in Followers(s)
    PROVE  g.ch \in Channels
  BY DEF Core, ChannelInv, Followers, Tracks

(* Only the calls that gave up their channel are behind.                   *)
LEMMA FewerBook ==
    ASSUME NEW s, NEW t \in State, NEW open, Core(s, open), NEW gone \in SUBSET Ids, NEW X, Book(s, X),
           Fewer(s, t, gone), Followers(t) = Followers(s), t.slipped = s.slipped
    PROVE  Book(t, X \cup gone)
  <1>0. s \in State
    BY DEF Core
  <1>1. \A i \in Ids : t.calls[i].party \in {0, s.calls[i].party}
    BY DEF Fewer
  <1>2. \A i \in Ids : t.calls[i].party = 0 => t.calls[i].ch = NoChannel
    BY DEF Fewer, Book, RecordInv
  <1>3. \A i, j \in Ids : i # j /\ t.calls[i].party = t.calls[j].party => t.calls[i].party = 0
    BY <1>1 DEF Book, RecordInv
  <1>4. ASSUME NEW i \in Ids, t.calls[i].ch # NoChannel
        PROVE  t.lease[t.calls[i].ch] = t.calls[i].party
    <2>1. i \notin gone /\ t.calls[i] = s.calls[i]
      BY <1>4 DEF Fewer
    <2> DEFINE c == s.calls[i].ch
    <2>2. s.calls[i].ch \in Channels
      BY <1>0, <1>4, <2>1 DEF State, Record, Chs
    <2>3. s.lease[c] = s.calls[i].party /\ s.calls[i].party # 0
      BY <1>4, <2>1 DEF Book, RecordInv
    <2>4. \A j \in gone : s.calls[j].party # s.calls[i].party
      BY <2>1, <2>3 DEF Book, RecordInv
    <2>5. t.lease[c] = s.lease[c]
      BY <2>2, <2>3, <2>4 DEF Fewer
    <2> QED BY <2>1, <2>3, <2>5
  <1>5. RecordInv(t)
    BY <1>2, <1>3, <1>4 DEF RecordInv
  <1>6. ASSUME NEW g \in Followers(t), g.id \notin X \cup gone
        PROVE  KeptCall(t, g)
    <2>1. g \in Followers(s) /\ KeptCall(s, g) /\ g.ch \in Channels
      BY <1>6, FollowedChannel DEF Book, KeptInv
    <2>2. t.calls[g.id] = s.calls[g.id]
      BY <1>6, <2>1 DEF Fewer, KeptCall
    <2>3. t.lease[g.ch] \in {0, s.lease[g.ch]}
      BY <2>1 DEF Fewer
    <2> QED BY <2>1, <2>2, <2>3 DEF KeptCall
  <1> QED BY <1>5, <1>6 DEF Book, KeptInv

(* The leases of some calls forgotten.                                     *)
LEMMA WithoutEffect ==
    ASSUME NEW L \in [Channels -> Parties \cup {0}], NEW P
    PROVE  /\ Without(L, P) \in [Channels -> Parties \cup {0}]
           /\ \A c \in Channels : Without(L, P)[c] = IF L[c] \in P THEN 0 ELSE L[c]
  BY DEF Without

(* Only the records differ.                                                *)
SameMachine(s, t) ==
    /\ t.m = s.m /\ t.kind = s.kind /\ t.own = s.own /\ t.prev = s.prev /\ t.live = s.live /\ t.hw = s.hw
    /\ t.shared = s.shared /\ t.stale = s.stale /\ t.misled = s.misled

(* A handler that changes records alone keeps Core.                        *)
LEMMA RecordsOnly ==
    ASSUME NEW s, NEW t \in State, NEW open \in BOOLEAN, Core(s, open), SameMachine(s, t)
    PROVE  Core(t, open) /\ Followers(t) = Followers(s)
  BY CoreFrame DEF SameMachine

FreeRecord == Free \in Record /\ Free.party = 0 /\ Free.ch = NoChannel

(* A free record is of no call and has no channel.                         *)
LEMMA FreeIsFree ==
    FreeRecord
  BY DEF FreeRecord, Free, Record, Chs

(* A record with no call is free.                                          *)
LEMMA KnownParty ==
    ASSUME NEW s \in State, RecordInv(s), NEW i \in Ids
    PROVE  s.calls[i] # Free <=> s.calls[i].party # 0
  <1>1. s.calls[i] \in Record
    BY DEF State
  <1>2. s.calls[i].party = 0 => s.calls[i].ch = NoChannel
    BY DEF RecordInv
  <1> QED BY <1>1, <1>2 DEF Record, Free

(* Channels of some calls taken off the air: the records and the leases    *)
(* after a handler changed the ones of gone.                               *)
LEMMA FewerByWithout ==
    ASSUME NEW s \in State, NEW t, NEW gone \in SUBSET Ids,
           \A j \in gone : t.calls[j].ch = NoChannel /\ t.calls[j].party \in {0, s.calls[j].party},
           \A j \in Ids \ gone : t.calls[j] = s.calls[j],
           t.lease = Without(s.lease, {s.calls[j].party : j \in gone})
    PROVE  Fewer(s, t, gone)
  <1>1. s.lease \in [Channels -> Parties \cup {0}]
    BY DEF State
  <1>2. ASSUME NEW c \in Channels
        PROVE  \/ t.lease[c] = s.lease[c]
               \/ t.lease[c] = 0 /\ \E j \in gone : s.calls[j].party # 0 /\ s.lease[c] = s.calls[j].party
    BY <1>1, WithoutEffect
  <1> QED BY <1>2 DEF Fewer

(* calls_drop()                                                            *)
LEMMA DroppedKeeps ==
    ASSUME NEW s, NEW open \in BOOLEAN, Core(s, open), Book(s, {}), NEW ids \in SUBSET Ids
    PROVE  LET t == Dropped(s, ids)
           IN  /\ Good(t, open) /\ t.stale = s.stale
               /\ \A i \in Ids : t.calls[i] = IF i \in ids THEN Free ELSE s.calls[i]
  <1> DEFINE gone == {i \in ids : s.calls[i] # Free}
             K == [i \in Ids |-> IF i \in gone THEN Free ELSE s.calls[i]]
             L == Without(s.lease, {s.calls[i].party : i \in gone})
             a == [s EXCEPT !.calls = K, !.lease = L]
  <1>0. s \in State /\ s.calls \in [Ids -> Record] /\ s.lease \in [Channels -> Parties \cup {0}]
    BY DEF Core, State
  <1>1. K \in [Ids -> Record]
    BY <1>0, FreeIsFree DEF FreeRecord
  <1>2. L \in [Channels -> Parties \cup {0}]
    BY <1>0, WithoutEffect
  <1>3. gone \in SUBSET Ids
    OBVIOUS
  <1>4. /\ \A j \in gone : K[j] = Free
        /\ \A j \in Ids \ gone : K[j] = s.calls[j]
        /\ \A j \in Ids : K[j] = IF j \in ids THEN Free ELSE s.calls[j]
    OBVIOUS
  <1>5. Dropped(s, ids) = RetireAll(a, gone)
    BY <1>0 DEF Dropped
  <1>6. L = Without(s.lease, {s.calls[i].party : i \in gone})
    OBVIOUS
  <1> HIDE DEF K, L, gone
  <1>7. a \in State /\ SameMachine(s, a) /\ a.calls = K /\ a.lease = L /\ a.slipped = s.slipped
    BY <1>0, <1>1, <1>2 DEF State, SameMachine
  <1> HIDE DEF a
  <1>8. Core(a, open) /\ Followers(a) = Followers(s)
    BY <1>7, RecordsOnly
  <1>9. Fewer(s, a, gone)
    <2>1. \A j \in gone : a.calls[j].ch = NoChannel /\ a.calls[j].party \in {0, s.calls[j].party}
      BY <1>4, <1>7, FreeIsFree DEF FreeRecord
    <2>2. \A j \in Ids \ gone : a.calls[j] = s.calls[j]
      BY <1>4, <1>7
    <2> QED BY <1>0, <1>3, <1>6, <1>7, <2>1, <2>2, FewerByWithout
  <1>10. Book(a, {} \cup gone)
    BY <1>3, <1>7, <1>8, <1>9, FewerBook
  <1>11. Core(RetireAll(a, gone), open)
    BY <1>8, RetireKeeps
  <1>12. Book(RetireAll(a, gone), {})
    BY <1>7, <1>10, RetireBook
  <1>13. RetireAll(a, gone).calls = a.calls /\ RetireAll(a, gone).stale = a.stale
    BY <1>7, RetireEffect
  <1> QED BY <1>4, <1>5, <1>7, <1>11, <1>12, <1>13 DEF Good, SameMachine

(* call_end()                                                              *)
LEMMA EndedKeeps ==
    ASSUME NEW s, NEW open \in BOOLEAN, Core(s, open), Book(s, {}), NEW i \in Ids, NEW t \in Ended(s, i)
    PROVE  /\ Good(t, open)
           /\ \A j \in Ids : t.calls[j] = IF j = i THEN Free ELSE s.calls[j]
  <1> DEFINE K == [s.calls EXCEPT ![i] = Free]
             L == Without(s.lease, {s.calls[i].party})
             a == [s EXCEPT !.calls = K, !.lease = L]
  <1>0. s \in State /\ s.calls \in [Ids -> Record] /\ s.lease \in [Channels -> Parties \cup {0}]
    BY DEF Core, State
  <1>1. K \in [Ids -> Record] /\ K[i] = Free /\ \A j \in Ids \ {i} : K[j] = s.calls[j]
    BY <1>0, FreeIsFree DEF FreeRecord
  <1>2. L \in [Channels -> Parties \cup {0}]
    BY <1>0, WithoutEffect
  <1>3. a = [s EXCEPT !.calls[i] = Free, !.lease = Without(@, {s.calls[i].party})]
    BY <1>0 DEF State
  <1>4. PICK u \in (IF FollowedId(s) = i THEN OnRelease(a, i) ELSE {a}) : t = RetireAll(u, {i})
    BY <1>3 DEF Ended, Then, Retire
  <1>5. L = Without(s.lease, {s.calls[j].party : j \in {i}})
    <2>1. {s.calls[j].party : j \in {i}} = {s.calls[i].party}
      OBVIOUS
    <2> QED BY <2>1
  <1> HIDE DEF K, L
  <1>6. a \in State /\ SameMachine(s, a) /\ a.calls = K /\ a.lease = L /\ a.slipped = s.slipped
    BY <1>0, <1>1, <1>2 DEF State, SameMachine
  <1> HIDE DEF a
  <1>7. Core(a, open) /\ Followers(a) = Followers(s)
    BY <1>6, RecordsOnly
  <1>8. Fewer(s, a, {i})
    <2>1. \A j \in {i} : a.calls[j].ch = NoChannel /\ a.calls[j].party \in {0, s.calls[j].party}
      BY <1>1, <1>6, FreeIsFree DEF FreeRecord
    <2>2. \A j \in Ids \ {i} : a.calls[j] = s.calls[j]
      BY <1>1, <1>6
    <2> QED BY <1>0, <1>5, <1>6, <2>1, <2>2, FewerByWithout
  <1>9. Book(a, {} \cup {i})
    BY <1>6, <1>7, <1>8, FewerBook
  <1>10. Core(u, open) /\ KeepsBook(a, u)
    BY <1>4, <1>7, OnReleaseKeeps DEF KeepsBook
  <1>11. Book(u, {} \cup {i})
    BY <1>9, <1>10, BookFrame
  <1>12. u \in State
    BY <1>10 DEF Core
  <1>13. Core(t, open) /\ Book(t, {}) /\ t.calls = u.calls
    <2>1. Core(RetireAll(u, {i}), open)
      BY <1>10, RetireKeeps
    <2>2. Book(RetireAll(u, {i}), {})
      BY <1>11, <1>12, RetireBook
    <2>3. RetireAll(u, {i}).calls = u.calls
      BY <1>12, RetireEffect
    <2> QED BY <1>4, <2>1, <2>2, <2>3
  <1>14. u.calls = K
    BY <1>6, <1>10 DEF KeepsBook
  <1> QED BY <1>1, <1>13, <1>14 DEF Good

-----------------------------------------------------------------------------
(* Allocations.                                                            *)

(* call_attach() of "go to the MCCH": the call loses its channel.          *)
LEMMA AttachOffKeeps ==
    ASSUME NEW s, NEW open \in BOOLEAN, Core(s, open), Book(s, {}), NEW i \in Ids,
           NEW follow, NEW policy, NEW excluded, NEW t \in Attach(s, i, NoChannel, follow, policy, excluded)
    PROVE  Good(t, open)
  <1> DEFINE K == [s.calls EXCEPT ![i].ch = NoChannel]
             L == Without(s.lease, {s.calls[i].party})
             a == [s EXCEPT !.calls = K, !.lease = L]
  <1>0. s \in State /\ s.calls \in [Ids -> Record] /\ s.lease \in [Channels -> Parties \cup {0}]
    BY DEF Core, State
  <1>1. /\ K \in [Ids -> Record] /\ K[i].ch = NoChannel /\ K[i].party = s.calls[i].party
        /\ \A j \in Ids \ {i} : K[j] = s.calls[j]
    BY <1>0 DEF Record, Chs
  <1>2. L \in [Channels -> Parties \cup {0}]
    BY <1>0, WithoutEffect
  <1>3. a = [s EXCEPT !.calls[i].ch = NoChannel, !.lease = Without(@, {s.calls[i].party})]
    BY <1>0 DEF State
  <1>4. PICK u \in (IF FollowedId(s) = i THEN OnRelease(a, i) ELSE {a}) : t = RetireAll(u, {i})
    BY <1>3 DEF Attach, Then, Retire
  <1>5. L = Without(s.lease, {s.calls[j].party : j \in {i}})
    <2>1. {s.calls[j].party : j \in {i}} = {s.calls[i].party}
      OBVIOUS
    <2> QED BY <2>1
  <1> HIDE DEF K, L
  <1>6. a \in State /\ SameMachine(s, a) /\ a.calls = K /\ a.lease = L /\ a.slipped = s.slipped
    BY <1>0, <1>1, <1>2 DEF State, SameMachine
  <1> HIDE DEF a
  <1>7. Core(a, open) /\ Followers(a) = Followers(s)
    BY <1>6, RecordsOnly
  <1>8. Fewer(s, a, {i})
    <2>1. \A j \in {i} : a.calls[j].ch = NoChannel /\ a.calls[j].party \in {0, s.calls[j].party}
      BY <1>1, <1>6
    <2>2. \A j \in Ids \ {i} : a.calls[j] = s.calls[j]
      BY <1>1, <1>6
    <2> QED BY <1>0, <1>5, <1>6, <2>1, <2>2, FewerByWithout
  <1>9. Book(a, {} \cup {i})
    BY <1>6, <1>7, <1>8, FewerBook
  <1>10. Core(u, open) /\ KeepsBook(a, u)
    BY <1>4, <1>7, OnReleaseKeeps DEF KeepsBook
  <1>11. Book(u, {} \cup {i})
    BY <1>9, <1>10, BookFrame
  <1>12. u \in State
    BY <1>10 DEF Core
  <1>13. Core(RetireAll(u, {i}), open)
    BY <1>10, RetireKeeps
  <1>14. Book(RetireAll(u, {i}), {})
    BY <1>11, <1>12, RetireBook
  <1> QED BY <1>4, <1>13, <1>14 DEF Good

(* The records of the calls that held ch, and the followed call if ch is   *)
(* where it is followed.                                                   *)
Losers(s, i, ch) == {o \in Ids \ {i} : s.calls[o] # Free /\ s.calls[o].ch = ch}
Robbed(s, i, ch) ==
    IF s.m.st = "tuned" /\ ~s.m.retired /\ s.m.fol.ch = ch /\ s.m.fol.id # i THEN {s.m.fol.id} ELSE {}

(* The records once ch is i's, before the machine hears of it.             *)
Given(s, t, i, ch) ==
    /\ t.calls[i].ch = ch /\ t.calls[i].party = s.calls[i].party
    /\ \A o \in Losers(s, i, ch) : t.calls[o].ch = NoChannel /\ t.calls[o].party = s.calls[o].party
    /\ \A o \in Ids \ (Losers(s, i, ch) \cup {i}) : t.calls[o] = s.calls[o]
    /\ t.lease[ch] = s.calls[i].party
    /\ \A c \in Channels \ {ch} :
          t.lease[c] = IF s.lease[c] = s.calls[i].party THEN 0 ELSE s.lease[c]
    /\ t.slipped = (s.slipped \/ Slips(s, i, ch))

(* Only the calls that lost the channel are behind, unless it slipped.     *)
LEMMA GivenBook ==
    ASSUME NEW s, NEW t \in State, NEW open, Core(s, open), Book(s, {}), NEW i \in Ids, NEW ch \in Channels,
           s.calls[i] # Free, Given(s, t, i, ch), Followers(t) = Followers(s)
    PROVE  Book(t, Losers(s, i, ch) \cup Robbed(s, i, ch)) /\ KeptCall(t, [ch |-> ch, id |-> i])
  <1> DEFINE losers == Losers(s, i, ch)
             p == s.calls[i].party
  <1>0. s \in State /\ ch # NoChannel
    BY Constants DEF Core
  <1>1. p # 0 /\ \A o \in Ids \ {i} : s.calls[o].party # p
    BY <1>0, KnownParty DEF Book, RecordInv
  <1>2. \A o \in Ids : t.calls[o].party = s.calls[o].party
    BY DEF Given
  <1>3. \A o \in Ids \ {i} : t.calls[o].ch = ch => FALSE
    <2>1. ASSUME NEW o \in Ids \ {i}, o \notin losers
          PROVE  s.calls[o].ch # ch
      BY <1>0, <2>1, FreeIsFree DEF Losers, FreeRecord
    <2> QED BY <1>0, <2>1 DEF Given
  <1>4. \A o \in Ids \ {i} : t.calls[o].ch \in {NoChannel, s.calls[o].ch}
    BY DEF Given
  <1>5. ASSUME NEW o \in Ids, t.calls[o].ch # NoChannel
        PROVE  t.lease[t.calls[o].ch] = t.calls[o].party
    <2>1. CASE o = i
      BY <2>1 DEF Given
    <2>2. CASE o # i
      <3>1. t.calls[o].ch = s.calls[o].ch /\ s.calls[o].ch # ch /\ s.calls[o].ch # NoChannel
        BY <1>3, <1>4, <1>5, <2>2
      <3>2. s.calls[o].ch \in Channels
        BY <1>0, <3>1 DEF State, Record, Chs
      <3>3. s.lease[s.calls[o].ch] = s.calls[o].party /\ s.calls[o].party # p
        BY <1>1, <2>2, <3>1 DEF Book, RecordInv
      <3>4. t.lease[s.calls[o].ch] = s.calls[o].party
        BY <3>1, <3>2, <3>3 DEF Given
      <3> QED BY <1>2, <3>1, <3>4
    <2> QED BY <2>1, <2>2
  <1>6. \A o \in Ids : t.calls[o].party = 0 => t.calls[o].ch = NoChannel
    BY <1>1, <1>2, <1>4 DEF Book, RecordInv
  <1>7. \A o, q \in Ids : o # q /\ t.calls[o].party = t.calls[q].party => t.calls[o].party = 0
    BY <1>2 DEF Book, RecordInv
  <1>8. RecordInv(t)
    BY <1>5, <1>6, <1>7 DEF RecordInv
  <1>9. ASSUME NEW g \in Followers(t), g.id \notin losers, g.id \notin Robbed(s, i, ch)
        PROVE  KeptCall(t, g)
    <2>1. g \in Followers(s) /\ KeptCall(s, g) /\ g.ch \in Channels
      BY FollowedChannel DEF Book, KeptInv
    <2>2. CASE g.id = i
      <3>1. t.calls[i].ch = ch /\ t.calls[i].party = p /\ t.lease[ch] = p
        BY DEF Given
      <3> QED BY <1>0, <1>1, <2>1, <2>2, <3>1 DEF KeptCall
    <2>3. CASE g.id # i
      <3>1. t.calls[g.id] = s.calls[g.id] /\ g.id \in Ids /\ s.calls[g.id].party # 0
        BY <1>9, <2>1, <2>3 DEF Given, KeptCall
      <3>2. CASE g.ch # ch
        <4>1. t.lease[g.ch] \in {0, s.lease[g.ch]}
          BY <2>1, <3>2 DEF Given
        <4>2. s.slipped => t.slipped
          BY DEF Given
        <4> QED BY <2>1, <3>1, <4>1, <4>2 DEF KeptCall
      <3>3. CASE g.ch = ch
        <4>1. s.calls[g.id].ch # ch
          BY <1>3, <2>3, <3>1
        <4>2. ASSUME s.calls[g.id].ch = NoChannel
              PROVE  t.slipped
          <5>1. g = s.prev.m.fol /\ s.kind # "none" /\ s.prev.m.st = "tuned" /\ ~s.prev.m.retired
            BY <1>9, <2>1, <2>3, <3>3 DEF Followers, Tracks, Robbed
          <5>2. Slips(s, i, ch)
            BY <2>3, <3>3, <4>2, <5>1 DEF Slips
          <5> QED BY <5>2 DEF Given
        <4> QED BY <3>1, <3>3, <4>1, <4>2 DEF KeptCall
      <3> QED BY <3>2, <3>3
    <2> QED BY <2>2, <2>3
  <1>10. KeptCall(t, [ch |-> ch, id |-> i])
    BY <1>1 DEF Given, KeptCall
  <1> QED BY <1>8, <1>9, <1>10 DEF Book, KeptInv

Attached(s, i, ch) ==
    [s EXCEPT !.calls[i].ch = ch, !.lease = [Without(@, {s.calls[i].party}) EXCEPT ![ch] = s.calls[i].party],
              !.slipped = @ \/ Slips(s, i, ch)]

(* calls_take_channel(), before the call is considered                     *)
LEMMA TakenKeeps ==
    ASSUME NEW s, NEW open \in BOOLEAN, Core(s, open), Book(s, {}), NEW i \in Ids, NEW ch \in Channels,
           s.calls[i] # Free
    PROVE  LET v == Taken(Attached(s, i, ch), i, ch)
           IN  /\ Attached(s, i, ch).m = s.m
               /\ Core(v, open) /\ Book(v, Robbed(s, i, ch)) /\ KeptCall(v, [ch |-> ch, id |-> i])
               /\ v.m.st = s.m.st /\ v.m.fol = s.m.fol
  <1> DEFINE p == s.calls[i].party
             K == [s.calls EXCEPT ![i].ch = ch]
             L == [Without(s.lease, {p}) EXCEPT ![ch] = p]
             sl == s.slipped \/ Slips(s, i, ch)
             a == [s EXCEPT !.calls = K, !.lease = L, !.slipped = sl]
             losers == Losers(s, i, ch)
             K2 == [o \in Ids |-> IF o \in losers THEN [K[o] EXCEPT !.ch = NoChannel] ELSE K[o]]
             b == [a EXCEPT !.calls = K2]
  <1>0. /\ s \in State /\ s.calls \in [Ids -> Record] /\ s.lease \in [Channels -> Parties \cup {0}]
        /\ p \in Parties \cup {0}
        /\ sl \in BOOLEAN
    <2>1. /\ s \in State /\ s.calls \in [Ids -> Record] /\ s.lease \in [Channels -> Parties \cup {0}]
          /\ s.slipped \in BOOLEAN
      BY Parts DEF Core
    <2>2. p \in Parties \cup {0}
      BY <2>1 DEF Record
    <2> QED BY <2>1, <2>2
  <1>1. /\ K \in [Ids -> Record] /\ K[i].ch = ch /\ K[i].party = p
        /\ \A o \in Ids \ {i} : K[o] = s.calls[o]
    BY <1>0 DEF Record, Chs
  <1>2. /\ L \in [Channels -> Parties \cup {0}] /\ L[ch] = p
        /\ \A c \in Channels \ {ch} : L[c] = IF s.lease[c] = p THEN 0 ELSE s.lease[c]
    BY <1>0, WithoutEffect
  <1>3. Attached(s, i, ch) = a
    BY <1>0 DEF Attached, State
  <1> HIDE DEF K, L, sl
  <1>4. /\ a \in State /\ SameMachine(s, a) /\ a.calls = K /\ a.lease = L /\ a.slipped = sl
    BY <1>0, <1>1, <1>2 DEF State, SameMachine
  <1>5. Losers(a, i, ch) = losers
    BY <1>1, <1>4 DEF Losers
  <1> HIDE DEF a
  <1>6. Taken(a, i, ch) = RetireAll(b, losers)
    BY <1>4, <1>5 DEF Taken, Losers
  <1>7. /\ K2 \in [Ids -> Record] /\ K2[i] = K[i]
        /\ \A o \in losers : K2[o].ch = NoChannel /\ K2[o].party = s.calls[o].party
        /\ \A o \in Ids \ (losers \cup {i}) : K2[o] = s.calls[o]
    <2>1. \A r \in Record : LET q == [r EXCEPT !.ch = NoChannel]
                            IN  q \in Record /\ q.ch = NoChannel /\ q.party = r.party
      BY DEF Record, Chs
    <2>2. losers \subseteq Ids \ {i}
      BY DEF Losers
    <2> HIDE DEF losers
    <2> QED BY <1>1, <2>1, <2>2
  <1> HIDE DEF K2
  <1>8. b \in State /\ SameMachine(s, b) /\ b.calls = K2 /\ b.lease = L /\ b.slipped = sl
    BY <1>4, <1>7 DEF State, SameMachine
  <1> HIDE DEF b
  <1>9. Given(s, b, i, ch)
    BY <1>1, <1>2, <1>7, <1>8 DEF Given, sl
  <1>10. Core(b, open) /\ Followers(b) = Followers(s)
    BY <1>8, RecordsOnly
  <1>11. Book(b, losers \cup Robbed(s, i, ch)) /\ KeptCall(b, [ch |-> ch, id |-> i])
    BY <1>8, <1>9, <1>10, GivenBook
  <1> DEFINE v == RetireAll(b, losers)
  <1>12. Core(v, open)
    BY <1>10, RetireKeeps
  <1>13. Book(v, Robbed(s, i, ch))
    BY <1>8, <1>11, RetireBook
  <1>14. /\ v.calls = b.calls /\ v.lease = b.lease /\ v.slipped = b.slipped
         /\ v.m.st = b.m.st /\ v.m.fol = b.m.fol
    BY <1>8, RetireEffect
  <1> HIDE DEF v, losers
  <1>15. KeptCall(v, [ch |-> ch, id |-> i])
    BY <1>11, <1>14 DEF KeptCall
  <1>16. a.m = s.m /\ v.m.st = s.m.st /\ v.m.fol = s.m.fol
    BY <1>4, <1>8, <1>14 DEF SameMachine
  <1> QED BY <1>3, <1>6, <1>12, <1>13, <1>15, <1>16 DEF v

(* calls_leave_taken_channel(), of a call that may have lost its channel   *)
LEMMA LeaveTakenKeeps ==
    ASSUME NEW s, NEW open \in BOOLEAN, Core(s, open), NEW X, Book(s, X), NEW i \in Ids,
           NEW t \in LeaveTaken(s, i),
           \/ X = {}
           \/ s.m.st = "tuned" /\ X \subseteq {s.m.fol.id} /\ i \notin X
    PROVE  Good(t, open)
  <1>1. CASE s.m.st # "tuned" \/ FollowedId(s) = i
    <2>1. t = s
      BY <1>1 DEF LeaveTaken
    <2>2. i # 0
      BY Constants
    <2>3. X = {} \/ s.m.fol.id \notin X
      BY <1>1, <2>2 DEF FollowedId
    <2> QED BY <2>1, <2>3 DEF Good
  <1>2. CASE ~(s.m.st # "tuned" \/ FollowedId(s) = i)
    <2> DEFINE id == s.m.fol.id
    <2>1. PICK u \in OnRelease(s, id) : t = RetireAll(u, {id})
      BY <1>2 DEF LeaveTaken, Then, Retire
    <2> HIDE DEF id
    <2>2. Core(u, open) /\ KeepsBook(s, u)
      BY OnReleaseKeeps
    <2>3. Book(u, X)
      BY <2>2, BookFrame
    <2>4. Core(RetireAll(u, {id}), open)
      BY <2>2, RetireKeeps
    <2>5. u \in State /\ X \subseteq {id} \cup {}
      BY <2>2 DEF Core, id
    <2>6. Book(RetireAll(u, {id}), {})
      BY <2>3, <2>5, RetireBook
    <2> QED BY <2>1, <2>4, <2>6 DEF Good
  <1> QED BY <1>1, <1>2

(* call_attach()                                                           *)
LEMMA AttachKeeps ==
    ASSUME NEW s, NEW open \in BOOLEAN, Core(s, open), Book(s, {}), NEW i \in Ids, NEW ch \in Chs,
           s.calls[i] # Free,
           NEW follow, NEW policy, NEW excluded, NEW t \in Attach(s, i, ch, follow, policy, excluded)
    PROVE  Good(t, open)
  <1>1. CASE ch = NoChannel
    BY <1>1, AttachOffKeeps
  <1>2. CASE ch # NoChannel
    <2> DEFINE on == Attached(s, i, ch)
               v == Taken(on, i, ch)
               g == [ch |-> ch, id |-> i]
               takes == TakesFollowed(on, i, ch)
               X == Robbed(s, i, ch)
    <2>0. ch \in Channels /\ i # 0
      BY <1>2, Constants DEF Chs
    <2>1. /\ on.m = s.m
          /\ Core(v, open) /\ Book(v, X) /\ KeptCall(v, g)
          /\ v.m.st = s.m.st /\ v.m.fol = s.m.fol
      BY <2>0, TakenKeeps
    <2>2. PICK w \in (IF follow THEN Consider(v, i, ch, policy, excluded, takes) ELSE {v}) :
             t \in (IF takes THEN LeaveTaken(w, i) ELSE {w})
      BY <1>2 DEF Attach, Then, Attached
    <2>3. X # {} => takes /\ s.m.st = "tuned" /\ s.m.fol.ch = ch /\ X = {s.m.fol.id} /\ s.m.fol.id # i
      BY <2>1 DEF Robbed, TakesFollowed, FollowedId
    <2> HIDE DEF v, on, takes, X
    <2>4. w = v \/ w \in OnGrant(v, ch, i)
      BY <2>2 DEF Consider
    <2>5. TakesUp(v, v, g)
      BY DEF TakesUp
    <2>6. Core(w, open) /\ TakesUp(v, w, g)
      BY <2>0, <2>1, <2>4, <2>5, OnGrantKeeps
    <2>7. Book(w, X)
      BY <2>1, <2>6, BookOfOneMore
    <2>8. CASE X = {}
      <3>1. CASE takes
        BY <2>2, <2>6, <2>7, <2>8, <3>1, LeaveTakenKeeps
      <3>2. CASE ~takes
        BY <2>2, <2>6, <2>7, <2>8, <3>2 DEF Good
      <3> QED BY <3>1, <3>2
    <2>9. CASE X # {}
      <3>1. takes /\ t \in LeaveTaken(w, i)
        BY <2>2, <2>3, <2>9
      <3>2. CASE w = v
        <4>1. w.m.st = "tuned" /\ X \subseteq {w.m.fol.id} /\ i \notin X
          BY <2>1, <2>3, <2>9, <3>2
        <4> QED BY <2>6, <2>7, <3>1, <4>1, LeaveTakenKeeps
      <3>3. CASE w.kind = "none" /\ w.m.st = "tuned" /\ w.m.fol = g /\ ~w.m.retired
        <4>1. \A h \in Followers(w) : h = g
          BY <3>3 DEF Followers, Tracks
        <4>2. KeptCall(w, g)
          BY <2>1, <2>6 DEF TakesUp, KeptCall
        <4>3. Book(w, {})
          BY <2>7, <4>1, <4>2 DEF Book, KeptInv
        <4> QED BY <2>6, <3>1, <4>3, LeaveTakenKeeps
      <3>4. w = v \/ (w.kind = "none" /\ w.m.st = "tuned" /\ w.m.fol = g /\ ~w.m.retired)
        BY <2>0, <2>1, <2>3, <2>4, <2>9, OnGrantKeeps
      <3> QED BY <3>2, <3>3, <3>4
    <2> QED BY <2>8, <2>9
  <1> QED BY <1>1, <1>2

-----------------------------------------------------------------------------
(* What a handler leaves is the state it ends in.                          *)

(* The invariant of the state a handler ends in is the next state's.       *)
LEMMA LeavesKeeps ==
    ASSUME Shape, NEW s, NEW open \in BOOLEAN, Good(s, open), Leaves(s),
           burst' \in [open : BOOLEAN, stale : BOOLEAN], burst'.open => open /\ burst'.stale = s.stale
    PROVE  IInv'
  <1> DEFINE h == [m |-> s.m, kind |-> s.kind, own |-> s.own, prev |-> s.prev, dl |-> s.dl,
                   calls |-> s.calls, hw |-> s.hw, center |-> s.center, live |-> s.live,
                   shared |-> s.shared, cc |-> s.cc, stale |-> burst'.stale,
                   lease |-> s.lease, misled |-> s.misled, slipped |-> s.slipped, ok |-> FALSE]
  <1>0. s \in State /\ burst'.open \in BOOLEAN /\ burst'.stale \in BOOLEAN
    BY DEF Good, Core
  <1>1. h \in State
    BY <1>0 DEF State
  <1>2. Here' = h
    BY DEF Here, Leaves
  <1>3. /\ h.m = s.m /\ h.kind = s.kind /\ h.own = s.own /\ h.prev = s.prev /\ h.live = s.live /\ h.hw = s.hw
        /\ h.shared = s.shared /\ h.misled = s.misled /\ h.stale = burst'.stale
        /\ h.calls = s.calls /\ h.lease = s.lease /\ h.slipped = s.slipped
    OBVIOUS
  <1> HIDE DEF h
  <1>4. FlightInv(h) /\ ChannelInv(h) /\ WhereInv(h) /\ HeldInv(h)
    BY <1>3 DEF Good, Core, FlightInv, ChannelInv, WhereInv, HeldInv
  <1>5. ProofInv(h, burst'.open)
    BY <1>3 DEF Good, Core, ProofInv
  <1>6. Followers(h) = Followers(s)
    BY <1>3 DEF Followers
  <1>7. KeepsBook(s, h)
    BY <1>3, <1>6 DEF KeepsBook
  <1>8. Book(h, {})
    BY <1>7, BookFrame DEF Good
  <1>9. Shape'
    <2>1. /\ air' \in Airs
          /\ sm' \in [m : Machine, kind : {"none", "grant", "return"}, own : {"none", "pending", "ok", "failed"},
                      prev : Previous, dl : BOOLEAN]
          /\ rx' \in [hw : Freqs, center : Freqs, live : Seq(Entry)]
      BY <1>0, Parts DEF Shape, Leaves, State
    <2> QED BY <2>1 DEF Shape, Machine, Previous, Entry, Shared, Chs, Period
  <1>10. (Here \in State)'
    BY <1>1, <1>2 DEF State, Leaves, Record, Parties, Machine, Previous, Entry, Shared, Chs, Period
  <1>11. FlightInv(Here)' /\ ChannelInv(Here)' /\ WhereInv(Here)' /\ HeldInv(Here)'
    BY <1>2, <1>4 DEF FlightInv, ChannelInv, WhereInv, HeldInv, Holds
  <1>12. ProofInv(Here, burst.open)'
    BY <1>2, <1>5 DEF ProofInv
  <1>13. Book(Here, {})'
    BY <1>2, <1>8 DEF Book, RecordInv, KeptInv, Followers, Tracks, KeptCall
  <1> QED BY <1>9, <1>10, <1>11, <1>12, <1>13 DEF IInv, Good, Core

-----------------------------------------------------------------------------
(* Bursts.                                                                 *)

(* The invariant, of the state a handler starts from.                      *)
LEMMA HereIsGood ==
    ASSUME IInv
    PROVE  /\ Shape /\ Core(Here, burst.open) /\ Book(Here, {}) /\ Here \in State
           /\ burst.open \in BOOLEAN /\ burst.stale \in BOOLEAN
           /\ Here.calls = calls /\ Here.m = sm.m /\ Here.kind = sm.kind /\ Here.own = sm.own /\ Here.live = rx.live
           /\ Here.stale = burst.stale /\ Here.shared = shared /\ Here.cc = cc /\ Here.lease = lease
  BY DEF IInv, Good, Core, Shape, Here

(* Evidence that the receiver is on the followed call's carrier: the burst *)
(* is not one that a change of carrier voids.                              *)
LEMMA ProvenKeeps ==
    ASSUME NEW s, Core(s, TRUE), ~s.stale, ~s.m.retired
    PROVE  Core([s EXCEPT !.m.proven = TRUE], TRUE) /\ KeepsBook(s, [s EXCEPT !.m.proven = TRUE])
  <1> DEFINE t == [s EXCEPT !.m.proven = TRUE]
  <1>0. s \in State
    BY DEF Core
  <1>1. t \in State
    BY <1>0 DEF State, Machine
  <1>2. /\ t.kind = s.kind /\ t.own = s.own /\ t.prev = s.prev /\ t.live = s.live /\ t.hw = s.hw
        /\ t.shared = s.shared /\ t.stale = s.stale /\ t.misled = s.misled
        /\ t.calls = s.calls /\ t.lease = s.lease /\ t.slipped = s.slipped
    BY <1>0 DEF State
  <1>3. t.m.st = s.m.st /\ t.m.fol = s.m.fol /\ t.m.retired = s.m.retired
    BY <1>0 DEF State, Machine
  <1> HIDE DEF t
  <1>4. FlightInv(t) /\ ChannelInv(t) /\ WhereInv(t)
    BY <1>2, <1>3 DEF Core, FlightInv, ChannelInv, WhereInv
  <1>5. HeldInv(t)
    BY <1>2, <1>3 DEF Core, HeldInv, Holds
  <1>6. ProofInv(t, TRUE)
    BY <1>2, <1>3 DEF Core, ProofInv
  <1>7. KeepsBook(s, t)
    BY <1>0, <1>1, <1>2, <1>3, FollowersFrame DEF KeepsBook
  <1> QED BY <1>1, <1>4, <1>5, <1>6, <1>7 DEF Core, t

(* call_after_pdu()                                                        *)
LEMMA AfterPduKeeps ==
    ASSUME NEW s, Good(s, TRUE), NEW i \in Ids, NEW excluded, NEW t \in AfterPdu(s, i, excluded)
    PROVE  Good(t, TRUE) /\ t.calls = s.calls
  <1> DEFINE a == IF s.stale THEN s ELSE [s EXCEPT !.m.proven = TRUE]
  <1>1. KeepsBook(s, s)
    BY DEF KeepsBook
  <1>2. CASE FollowedId(s) # i
    BY <1>2 DEF AfterPdu
  <1>3. CASE FollowedId(s) = i
    <2>1. ~s.m.retired
      BY <1>3, Constants DEF FollowedId
    <2>2. Core(a, TRUE) /\ KeepsBook(s, a)
      BY <1>1, <2>1, ProvenKeeps DEF Good
    <2>3. t = a \/ t \in OnRelease(a, i)
      BY <1>3 DEF AfterPdu
    <2> HIDE DEF a
    <2>4. KeepsBook(a, a)
      BY DEF KeepsBook
    <2>5. Core(t, TRUE) /\ KeepsBook(a, t)
      BY <2>2, <2>3, <2>4, OnReleaseKeeps
    <2>6. Book(a, {})
      BY <2>2, BookFrame DEF Good
    <2>7. Book(t, {})
      BY <2>5, <2>6, BookFrame
    <2> QED BY <2>2, <2>5, <2>7 DEF Good, KeepsBook
  <1> QED BY <1>2, <1>3

(* A block's handler ends well, and the block counts as evidence.          *)
LEMMA BlockKeeps ==
    ASSUME IInv, NEW S, Block(S), \A s \in S : Good(s, TRUE)
    PROVE  IInv'
  <1>1. PICK s \in S : /\ Leaves(IF s.stale THEN s ELSE [s EXCEPT !.dl = TRUE])
                       /\ burst' = [burst EXCEPT !.stale = s.stale]
    BY DEF Block
  <1> DEFINE t == IF s.stale THEN s ELSE [s EXCEPT !.dl = TRUE]
  <1>2. Good(s, TRUE) /\ s \in State
    BY DEF Good, Core
  <1>3. /\ t \in State /\ SameMachine(s, t) /\ t.calls = s.calls /\ t.lease = s.lease /\ t.slipped = s.slipped
    BY <1>2 DEF State, SameMachine
  <1> HIDE DEF t
  <1>4. Core(t, TRUE) /\ Followers(t) = Followers(s)
    BY <1>2, <1>3, RecordsOnly DEF Good
  <1>5. KeepsBook(s, t)
    BY <1>3, <1>4 DEF KeepsBook
  <1>6. Good(t, TRUE)
    BY <1>2, <1>4, <1>5, BookFrame DEF Good
  <1>7. t.stale \in BOOLEAN /\ t.stale = s.stale
    BY <1>3 DEF State, SameMachine
  <1>8. burst' \in [open : BOOLEAN, stale : BOOLEAN] /\ burst'.stale = t.stale /\ Shape
    BY <1>1, <1>7 DEF IInv, Shape
  <1>9. Leaves(t)
    BY <1>1 DEF t
  <1> QED BY <1>6, <1>8, <1>9, LeavesKeeps

(* A block is decoded within a burst.                                      *)
LEMMA OpenHere ==
    ASSUME IInv, NEW S, Block(S)
    PROVE  Good(Here, TRUE)
  BY DEF IInv, Shape, Block

(* The allocation a PDU carries.                                           *)
LEMMA AllocatedKeeps ==
    ASSUME NEW s, Good(s, TRUE), NEW i \in Ids, s.calls[i] # Free, NEW offer \in Offers(Chs), NEW excluded,
           NEW t \in Allocated(s, i, offer, excluded)
    PROVE  Good(t, TRUE)
  <1>1. CASE offer = <<>>
    BY <1>1 DEF Allocated
  <1>2. CASE offer # <<>>
    <2>1. offer[1] \in Chs
      BY <1>2 DEF Offers
    <2>2. t \in Attach(s, i, offer[1], TRUE, offer[2], excluded)
      BY <1>2 DEF Allocated
    <2> QED BY <2>1, <2>2, AttachKeeps DEF Good
  <1> QED BY <1>1, <1>2

(* A call PDU                                                              *)
LEMMA CallPduKeeps ==
    ASSUME IInv, NEW i \in Ids, NEW offer \in Offers(Chs), NEW excluded, CallPdu(i, offer, excluded)
    PROVE  IInv'
  <1> DEFINE Alloc(t) == IF t.calls[i] = Free THEN {t} ELSE Allocated(t, i, offer, excluded)
             S == UNION {Alloc(s) : s \in AfterPdu(Here, i, excluded)}
  <1>1. Block(S)
    BY DEF CallPdu, Then
  <1>2. Good(Here, TRUE)
    BY <1>1, OpenHere
  <1>3. ASSUME NEW t \in S
        PROVE  Good(t, TRUE)
    <2>1. PICK s \in AfterPdu(Here, i, excluded) : t \in Alloc(s)
      OBVIOUS
    <2>2. Good(s, TRUE)
      BY <1>2, AfterPduKeeps
    <2> QED BY <2>1, <2>2, AllocatedKeeps
  <1> HIDE DEF S
  <1> QED BY <1>1, <1>3, BlockKeeps

(* calls_attach_addressed()                                                *)
LEMMA AddressedAllocationKeeps ==
    ASSUME IInv, NEW i \in Ids, NEW ch \in Chs, AddressedAllocation(i, ch)
    PROVE  IInv'
  <1> DEFINE S == Attach(Here, i, ch, FALSE, "no", FALSE)
  <1>1. Block(S) /\ Here.calls[i] # Free
    BY DEF AddressedAllocation, Here
  <1>2. Good(Here, TRUE)
    BY <1>1, OpenHere
  <1>3. \A t \in S : Good(t, TRUE)
    BY <1>1, <1>2, AttachKeeps DEF Good
  <1> HIDE DEF S
  <1> QED BY <1>1, <1>3, BlockKeeps

(* A D-RELEASE                                                             *)
LEMMA ReleasePduKeeps ==
    ASSUME IInv, NEW i \in Ids, ReleasePdu(i)
    PROVE  IInv'
  <1> DEFINE S == Ended(Here, i)
  <1>1. Block(S)
    BY DEF ReleasePdu
  <1>2. Good(Here, TRUE)
    BY <1>1, OpenHere
  <1>3. \A t \in S : Good(t, TRUE)
    BY <1>2, EndedKeeps DEF Good
  <1> HIDE DEF S
  <1> QED BY <1>1, <1>3, BlockKeeps

(* A record opened for a call that no record is of.                        *)
LEMMA NamedKeeps ==
    ASSUME NEW s, Good(s, TRUE), NEW i \in Ids, NEW p \in Parties, p # 0,
           s.calls[i] = Free \/ s.calls[i].party = p, \A j \in Ids \ {i} : s.calls[j].party # p
    PROVE  LET t == [s EXCEPT !.calls[i].party = p] IN Good(t, TRUE) /\ t.calls[i] # Free
  <1> DEFINE K == [s.calls EXCEPT ![i].party = p]
             t == [s EXCEPT !.calls = K]
  <1>0. s \in State /\ s.calls \in [Ids -> Record]
    BY DEF Good, Core, State
  <1>1. /\ K \in [Ids -> Record] /\ K[i].party = p /\ K[i].ch = s.calls[i].ch
        /\ \A j \in Ids \ {i} : K[j] = s.calls[j]
    BY <1>0 DEF Record
  <1>2. t = [s EXCEPT !.calls[i].party = p]
    BY <1>0 DEF State
  <1> HIDE DEF K
  <1>3. t \in State /\ SameMachine(s, t) /\ t.calls = K /\ t.lease = s.lease /\ t.slipped = s.slipped
    BY <1>0, <1>1 DEF State, SameMachine
  <1>4. s.calls[i] = Free => s.calls[i].ch = NoChannel /\ s.calls[i].party = 0
    BY FreeIsFree DEF FreeRecord
  <1> HIDE DEF t
  <1>5. Core(t, TRUE) /\ Followers(t) = Followers(s)
    BY <1>3, RecordsOnly DEF Good
  <1>6. RecordInv(t)
    <2>1. \A j \in Ids : t.calls[j].party = 0 => t.calls[j].ch = NoChannel
      BY <1>1, <1>3 DEF Good, Book, RecordInv
    <2>2. \A j \in Ids : t.calls[j].ch # NoChannel => t.lease[t.calls[j].ch] = t.calls[j].party
      BY <1>1, <1>3, <1>4 DEF Good, Book, RecordInv
    <2>3. \A j, k \in Ids : j # k /\ t.calls[j].party = t.calls[k].party => t.calls[j].party = 0
      BY <1>1, <1>3 DEF Good, Book, RecordInv
    <2> QED BY <2>1, <2>2, <2>3 DEF RecordInv
  <1>7. ASSUME NEW g \in Followers(t)
        PROVE  KeptCall(t, g)
    <2>1. KeptCall(s, g)
      BY <1>5 DEF Good, Book, KeptInv
    <2>2. g.id = i => s.calls[i].party = p
      BY <1>4, <2>1 DEF KeptCall
    <2>3. t.calls[g.id].party = s.calls[g.id].party /\ t.calls[g.id].ch = s.calls[g.id].ch
      BY <1>1, <1>3, <2>1, <2>2 DEF KeptCall
    <2> QED BY <1>3, <2>1, <2>3 DEF KeptCall
  <1>8. Book(t, {})
    BY <1>6, <1>7 DEF Book, KeptInv
  <1>9. t.calls[i] # Free
    BY <1>1, <1>3, FreeIsFree DEF FreeRecord
  <1> QED BY <1>2, <1>5, <1>8, <1>9 DEF Good

(* A record made free for a new call: the identifier's earlier call has    *)
(* ended, and a full table gives up another.                               *)
LEMMA BegunKeeps ==
    ASSUME NEW s, Good(s, TRUE), NEW i \in Ids, s.calls[i] # Free, NEW t \in Ended(s, i)
    PROVE  Good(t, TRUE) /\ t.calls[i] = Free /\ \A j \in Ids \ {i} : t.calls[j] = s.calls[j]
  <1>1. Core(s, TRUE) /\ Book(s, {})
    BY DEF Good
  <1>2. Good(t, TRUE) /\ \A j \in Ids : t.calls[j] = IF j = i THEN Free ELSE s.calls[j]
    BY <1>1, EndedKeeps
  <1> QED BY <1>2

(* calls_drop() of one record, which makes room                            *)
LEMMA RoomKeeps ==
    ASSUME NEW s, Good(s, TRUE), NEW v \in Ids
    PROVE  LET t == Dropped(s, {v})
           IN  Good(t, TRUE) /\ \A j \in Ids : t.calls[j] = IF j = v THEN Free ELSE s.calls[j]
  <1>1. Core(s, TRUE) /\ Book(s, {}) /\ {v} \in SUBSET Ids
    BY DEF Good
  <1>2. LET t == Dropped(s, {v})
        IN  Good(t, TRUE) /\ \A j \in Ids : t.calls[j] = IF j \in {v} THEN Free ELSE s.calls[j]
    BY <1>1, DroppedKeeps
  <1> QED BY <1>2

(* A D-SETUP                                                               *)
LEMMA SetupKeeps ==
    ASSUME IInv, NEW i \in Ids, NEW p, NEW offer \in Offers(Chs), NEW v \in Ids \cup {0}, Setup(i, p, offer, v)
    PROVE  IInv'
  <1> DEFINE begun == IF calls[i] = Free THEN {Here} ELSE Ended(Here, i)
             first == IF calls[i].party = p THEN {Here}
                      ELSE UNION {IF v = 0 \/ v = FollowedId(t) THEN {t} ELSE {Dropped(t, {v})} : t \in begun}
             second == UNION {{[t EXCEPT !.calls[i].party = p]} : t \in first}
             third == UNION {AfterPdu(t, i, FALSE) : t \in second}
             S == UNION {Allocated(t, i, offer, FALSE) : t \in third}
  <1>1. /\ Block(S) /\ p \in Parties /\ v # i /\ \A j \in Ids \ {i} : calls[j].party # p
    BY DEF Setup, Then
  <1>2. Good(Here, TRUE) /\ Here.calls = calls
    BY <1>1, OpenHere DEF Here
  <1>3. p # 0
    BY <1>1, TetraAssumption DEF IInv, Shape, Parties
  <1> HIDE DEF S, third, second
  <1>4. ASSUME NEW t \in first
        PROVE  /\ Good(t, TRUE) /\ (t.calls[i] = Free \/ t.calls[i].party = p)
               /\ \A j \in Ids \ {i} : t.calls[j].party # p
    <2>1. CASE calls[i].party = p
      BY <1>1, <1>2, <2>1
    <2>2. CASE calls[i].party # p
      <3>1. PICK u \in begun : t \in (IF v = 0 \/ v = FollowedId(u) THEN {u} ELSE {Dropped(u, {v})})
        BY <2>2
      <3> DEFINE ends == Good(u, TRUE) /\ u.calls[i] = Free /\ \A j \in Ids \ {i} : u.calls[j] = calls[j]
      <3>2. ASSUME calls[i] = Free
            PROVE  ends
        <4>1. u = Here
          BY <3>2
        <4> QED BY <1>2, <3>2, <4>1
      <3>3. ASSUME calls[i] # Free
            PROVE  ends
        <4>1. u \in Ended(Here, i) /\ Here.calls[i] # Free
          BY <1>2, <3>3
        <4>2. Good(u, TRUE) /\ u.calls[i] = Free /\ \A j \in Ids \ {i} : u.calls[j] = Here.calls[j]
          BY <1>2, <4>1, BegunKeeps
        <4> QED BY <1>2, <4>2
      <3>4. Good(u, TRUE) /\ u.calls[i] = Free /\ \A j \in Ids \ {i} : u.calls[j].party # p
        BY <1>1, <3>2, <3>3
      <3>5. CASE t = u
        BY <3>4, <3>5
      <3>6. CASE v \in Ids /\ t = Dropped(u, {v})
        <4>1. Good(t, TRUE) /\ \A j \in Ids : t.calls[j] = IF j = v THEN Free ELSE u.calls[j]
          BY <3>4, <3>6, RoomKeeps
        <4> QED BY <1>1, <1>3, <3>4, <4>1, FreeIsFree DEF FreeRecord
      <3> QED BY <3>1, <3>5, <3>6
    <2> QED BY <2>1, <2>2
  <1> HIDE DEF first, begun
  <1>5. ASSUME NEW t \in second
        PROVE  Good(t, TRUE) /\ t.calls[i] # Free
    <2>1. PICK u \in first : t = [u EXCEPT !.calls[i].party = p]
      BY DEF second
    <2> QED BY <1>1, <1>3, <1>4, <2>1, NamedKeeps
  <1>6. ASSUME NEW t \in third
        PROVE  Good(t, TRUE) /\ t.calls[i] # Free
    <2>1. PICK u \in second : t \in AfterPdu(u, i, FALSE)
      BY DEF third
    <2>2. Good(u, TRUE) /\ u.calls[i] # Free
      BY <1>5
    <2>3. Good(t, TRUE) /\ t.calls = u.calls
      BY <2>1, <2>2, AfterPduKeeps
    <2> QED BY <2>2, <2>3
  <1>7. ASSUME NEW t \in S
        PROVE  Good(t, TRUE)
    <2>1. PICK u \in third : t \in Allocated(u, i, offer, FALSE)
      BY DEF S
    <2>2. Good(u, TRUE) /\ u.calls[i] # Free
      BY <1>6
    <2> QED BY <2>1, <2>2, AllocatedKeeps
  <1> QED BY <1>1, <1>7, BlockKeeps

(* call_rename() and call_follow_renamed()                                 *)
LEMMA MovedKeeps ==
    ASSUME NEW s, Good(s, TRUE), NEW i \in Ids, NEW j \in Ids, i # j, s.calls[j] = Free
    PROVE  Good(Renamed([s EXCEPT !.calls[j] = s.calls[i], !.calls[i] = Free], i, j), TRUE)
  <1> DEFINE K == [[s.calls EXCEPT ![j] = s.calls[i]] EXCEPT ![i] = Free]
             a == [s EXCEPT !.calls = K]
             t == Renamed(a, i, j)
  <1>0. s \in State /\ s.calls \in [Ids -> Record] /\ i # 0
    BY Constants DEF Good, Core, State
  <1>1. /\ K \in [Ids -> Record] /\ K[j] = s.calls[i] /\ K[i] = Free
        /\ \A k \in Ids \ {i, j} : K[k] = s.calls[k]
    BY <1>0, FreeIsFree DEF FreeRecord
  <1>2. a = [s EXCEPT !.calls[j] = s.calls[i], !.calls[i] = Free]
    BY <1>0 DEF State
  <1> HIDE DEF K
  <1>3. a \in State /\ SameMachine(s, a) /\ a.calls = K /\ a.lease = s.lease /\ a.slipped = s.slipped
    BY <1>0, <1>1 DEF State, SameMachine
  <1>4. s.calls[j].ch = NoChannel /\ s.calls[j].party = 0 /\ K[i].ch = NoChannel /\ K[i].party = 0
    BY <1>1, FreeIsFree DEF FreeRecord
  <1> HIDE DEF a
  <1>5. Core(a, TRUE) /\ Followers(a) = Followers(s)
    BY <1>3, RecordsOnly DEF Good
  <1>6. Core(t, TRUE)
    BY <1>5, RenamedKeeps
  <1>7. t \in State /\ t.calls = K /\ t.lease = s.lease /\ t.slipped = s.slipped
    BY <1>3, RenamedEffect
  <1>8. /\ t.kind = s.kind /\ t.m.st = s.m.st /\ t.m.retired = s.m.retired /\ t.m.fol.ch = s.m.fol.ch
        /\ t.m.fol.id = IF FollowedId(s) = i THEN j ELSE s.m.fol.id
    BY <1>3, RenamedEffect DEF SameMachine, FollowedId
  <1>9. /\ t.prev.m.st = s.prev.m.st /\ t.prev.m.retired = s.prev.m.retired
        /\ t.prev.m.fol.ch = s.prev.m.fol.ch
        /\ t.prev.m.fol.id = IF s.kind # "none" /\ s.prev.m.st = "tuned" /\ ~s.prev.m.retired /\ s.prev.m.fol.id = i
                             THEN j ELSE s.prev.m.fol.id
    BY <1>3, RenamedEffect DEF SameMachine
  <1> HIDE DEF t
  <1>10. RecordInv(t)
    <2>1. \A k \in Ids : K[k].party = 0 => K[k].ch = NoChannel
      BY <1>1, <1>4 DEF Good, Book, RecordInv
    <2>2. \A k \in Ids : K[k].ch # NoChannel => s.lease[K[k].ch] = K[k].party
      BY <1>1, <1>4 DEF Good, Book, RecordInv
    <2>3. \A k, l \in Ids : k # l /\ K[k].party = K[l].party => K[k].party = 0
      BY <1>1, <1>4 DEF Good, Book, RecordInv
    <2> QED BY <1>7, <2>1, <2>2, <2>3 DEF RecordInv
  <1>11. ASSUME NEW g, NEW h \in Followers(s), g.ch = h.ch, g.id = IF h.id = i THEN j ELSE h.id
         PROVE  KeptCall(t, g)
    <2>1. KeptCall(s, h)
      BY DEF Good, Book, KeptInv
    <2>2. h.id # j
      BY <1>4, <2>1 DEF KeptCall
    <2>3. g.id \in Ids /\ t.calls[g.id] = s.calls[h.id]
      BY <1>1, <1>7, <1>11, <2>1, <2>2 DEF KeptCall
    <2> QED BY <1>7, <1>11, <2>1, <2>3 DEF KeptCall
  <1>12. ASSUME NEW g \in Followers(t)
         PROVE  KeptCall(t, g)
    <2>1. CASE t.m.st = "tuned" /\ ~t.m.retired /\ g = t.m.fol
      <3>1. s.m.fol \in Followers(s)
        BY <1>8, <2>1 DEF Followers, Tracks
      <3>2. g.ch = s.m.fol.ch /\ g.id = IF s.m.fol.id = i THEN j ELSE s.m.fol.id
        BY <1>8, <2>1 DEF FollowedId
      <3> QED BY <1>11, <3>1, <3>2
    <2>2. CASE t.kind # "none" /\ t.prev.m.st = "tuned" /\ ~t.prev.m.retired /\ g = t.prev.m.fol
      <3>1. s.prev.m.fol \in Followers(s)
        BY <1>8, <1>9, <2>2 DEF Followers, Tracks
      <3>2. g.ch = s.prev.m.fol.ch /\ g.id = IF s.prev.m.fol.id = i THEN j ELSE s.prev.m.fol.id
        BY <1>8, <1>9, <2>2
      <3> QED BY <1>11, <3>1, <3>2
    <2> QED BY <2>1, <2>2 DEF Followers, Tracks
  <1>13. Book(t, {})
    BY <1>10, <1>12 DEF Book, KeptInv
  <1> QED BY <1>2, <1>6, <1>13 DEF Good, t

(* A call is given another identifier, which may be in use.                *)
LEMMA RenameKeeps ==
    ASSUME IInv, NEW i \in Ids, NEW j \in Ids, Rename(i, j)
    PROVE  IInv'
  <1> DEFINE first == IF calls[j] = Free THEN {Here} ELSE Ended(Here, j)
             New(t) == Renamed([t EXCEPT !.calls[j] = t.calls[i], !.calls[i] = Free], i, j)
             second == {New(t) : t \in first}
             S == UNION {AfterPdu(t, j, FALSE) : t \in second}
  <1>1. UNION {{New(t)} : t \in first} = second
    OBVIOUS
  <1>2. Block(S) /\ i # j
    BY <1>1 DEF Rename, Then
  <1>3. Good(Here, TRUE) /\ Here.calls = calls
    BY <1>2, OpenHere DEF Here
  <1>4. ASSUME NEW t \in first
        PROVE  Good(t, TRUE) /\ t.calls[j] = Free
    BY <1>3, EndedKeeps DEF Good
  <1> HIDE DEF first
  <1>5. ASSUME NEW t \in second
        PROVE  Good(t, TRUE)
    <2>1. PICK u \in first : t = New(u)
      OBVIOUS
    <2> QED BY <1>2, <1>4, <2>1, MovedKeeps
  <1> HIDE DEF second
  <1>6. ASSUME NEW t \in S
        PROVE  Good(t, TRUE)
    <2>1. PICK u \in second : t \in AfterPdu(u, j, FALSE)
      OBVIOUS
    <2> QED BY <1>5, <2>1, AfterPduKeeps
  <1> HIDE DEF S
  <1> QED BY <1>2, <1>6, BlockKeeps

(* apply_sysinfo(), tetra_sm_on_cc_sync()                                  *)
LEMMA SysinfoKeeps ==
    ASSUME IInv, Sysinfo
    PROVE  IInv'
  <1> DEFINE s == [Here EXCEPT !.cc = MainCarrier]
             t == IF s.kind = "none" /\ trunk /\ s.m.st = "idle" THEN [s EXCEPT !.m.st = "cc"] ELSE s
  <1>1. Block({t})
    BY DEF Sysinfo
  <1>2. Good(Here, TRUE)
    BY <1>1, OpenHere
  <1>3. Here \in State
    BY <1>2 DEF Good, Core
  <1>4. /\ s \in State /\ SameMachine(Here, s)
        /\ s.calls = Here.calls /\ s.lease = Here.lease /\ s.slipped = Here.slipped
    BY <1>3 DEF State, SameMachine
  <1> HIDE DEF s
  <1>5. Core(s, TRUE) /\ Followers(s) = Followers(Here)
    BY <1>2, <1>4, RecordsOnly DEF Good
  <1> DEFINE c == [s EXCEPT !.m.st = "cc"]
  <1>6. c \in State
    BY <1>4 DEF State, Machine
  <1>7. /\ c.kind = s.kind /\ c.own = s.own /\ c.live = s.live /\ c.hw = s.hw /\ c.shared = s.shared
        /\ c.prev = s.prev /\ c.stale = s.stale /\ c.misled = s.misled
        /\ c.calls = s.calls /\ c.lease = s.lease /\ c.slipped = s.slipped
    BY <1>4 DEF State
  <1>8. c.m.st = "cc" /\ c.m.fol = s.m.fol /\ c.m.retired = s.m.retired /\ c.m.proven = s.m.proven
    BY <1>4 DEF State, Machine
  <1>9. t = s \/ (s.m.st = "idle" /\ t = c)
    OBVIOUS
  <1> HIDE DEF c, t
  <1>10. Core(t, TRUE) /\ Followers(t) = Followers(s) /\ t.calls = s.calls /\ t.lease = s.lease /\ t.slipped = s.slipped
    <2>1. s.m.st = "idle" => Core(c, TRUE) /\ Followers(c) = Followers(s)
      BY <1>5, <1>6, <1>7, <1>8, CoreFrame
    <2> QED BY <1>5, <1>7, <1>9, <2>1
  <1>11. KeepsBook(Here, t)
    BY <1>4, <1>5, <1>10 DEF KeepsBook
  <1>12. Good(t, TRUE)
    BY <1>2, <1>10, <1>11, BookFrame DEF Good
  <1> QED BY <1>1, <1>12, BlockKeeps

(* tetra_calls_on_speech(), tetra_sm_note_voice()                          *)
LEMMA SpeechKeeps ==
    ASSUME IInv, NEW excluded, Speech(excluded)
    PROVE  IInv'
  <1> DEFINE Voice(x) == IF x.m.st = "tuned" /\ x.kind = "none" THEN [x EXCEPT !.m.voice = "running"] ELSE x
             S == IF excluded THEN OnRelease(Here, sm.m.fol.id) ELSE {Here}
  <1>0. PICK t \in UNION {{Voice(x)} : x \in S} : Leaves(t) /\ burst' = [burst EXCEPT !.stale = t.stale]
    BY DEF Speech, Then
  <1>1. PICK u \in S : t = Voice(u)
    BY <1>0
  <1> DEFINE v == [u EXCEPT !.m.voice = "running"]
  <1>2. Good(Here, TRUE) /\ Shape
    BY DEF Speech, IInv, Shape
  <1>3. KeepsBook(Here, Here)
    BY DEF KeepsBook
  <1>4. Core(u, TRUE) /\ KeepsBook(Here, u)
    BY <1>2, <1>3, OnReleaseKeeps DEF Good
  <1>5. u \in State
    BY <1>4 DEF Core
  <1>6. v \in State
    BY <1>5 DEF State, Machine, Period
  <1>7. /\ v.kind = u.kind /\ v.own = u.own /\ v.live = u.live /\ v.hw = u.hw /\ v.shared = u.shared
        /\ v.prev = u.prev /\ v.stale = u.stale /\ v.misled = u.misled
        /\ v.calls = u.calls /\ v.lease = u.lease /\ v.slipped = u.slipped
    BY <1>5 DEF State
  <1>8. v.m.st = u.m.st /\ v.m.fol = u.m.fol /\ v.m.retired = u.m.retired /\ v.m.proven = u.m.proven
    BY <1>5 DEF State, Machine
  <1>9. t = u \/ t = v
    BY <1>1
  <1>10. Leaves(t) /\ burst' = [burst EXCEPT !.stale = t.stale]
    BY <1>0
  <1> HIDE DEF v
  <1>11. Core(t, TRUE) /\ Followers(t) = Followers(u) /\ t.calls = u.calls /\ t.lease = u.lease /\ t.slipped = u.slipped
    BY <1>4, <1>6, <1>7, <1>8, <1>9, CoreFrame
  <1>12. KeepsBook(Here, t)
    BY <1>4, <1>11 DEF KeepsBook
  <1>13. Good(t, TRUE)
    BY <1>2, <1>11, <1>12, BookFrame DEF Good
  <1>14. t.stale \in BOOLEAN
    BY <1>11 DEF Core, State
  <1>15. burst' \in [open : BOOLEAN, stale : BOOLEAN] /\ burst'.stale = t.stale
    BY <1>2, <1>10, <1>14 DEF Shape
  <1> QED BY <1>2, <1>10, <1>13, <1>15, LeavesKeeps

(* bsch_identity_change()                                                  *)
LEMMA OtherCellKeeps ==
    ASSUME IInv, NEW network, OtherCell(network)
    PROVE  IInv'
  <1> DEFINE K == [i \in Ids |-> [calls[i] EXCEPT !.ch = NoChannel]]
             L == [c \in Channels |-> 0]
             b == [Here EXCEPT !.m.proven = FALSE, !.cc = 0]
             cell == [b EXCEPT !.lease = L, !.calls = K]
             t == IF network THEN Dropped(cell, Ids) ELSE cell
  <1>0. Here \in State /\ Here.calls = calls
    BY HereIsGood
  <1>1. cell = [Here EXCEPT !.m.proven = FALSE, !.cc = 0, !.lease = [c \in Channels |-> 0],
                            !.calls = [i \in Ids |-> [@[i] EXCEPT !.ch = NoChannel]]]
    BY <1>0 DEF State, Here
  <1>2. Block({t})
    BY <1>1 DEF OtherCell
  <1>3. Good(Here, TRUE)
    BY <1>2, OpenHere
  <1>4. calls \in [Ids -> Record]
    BY <1>0 DEF State
  <1>5. /\ K \in [Ids -> Record]
        /\ \A i \in Ids : K[i].ch = NoChannel /\ K[i].party = calls[i].party
    BY <1>4 DEF Record, Chs
  <1>6. L \in [Channels -> Parties \cup {0}] /\ \A c \in Channels : L[c] = 0
    OBVIOUS
  <1>7. b \in State
    BY <1>0 DEF State, Machine
  <1>8. /\ b.kind = Here.kind /\ b.own = Here.own /\ b.live = Here.live /\ b.hw = Here.hw
        /\ b.shared = Here.shared /\ b.prev = Here.prev /\ b.stale = Here.stale /\ b.misled = Here.misled
        /\ b.slipped = Here.slipped
    BY <1>0 DEF State
  <1>9. b.m.st = Here.m.st /\ b.m.fol = Here.m.fol /\ b.m.retired = Here.m.retired /\ ~b.m.proven
    BY <1>0 DEF State, Machine
  <1> HIDE DEF b, K, L
  <1>10. cell \in State /\ SameMachine(b, cell) /\ cell.calls = K /\ cell.lease = L /\ cell.slipped = b.slipped
    BY <1>5, <1>6, <1>7 DEF State, SameMachine
  <1> HIDE DEF cell
  <1>11. Core(b, TRUE) /\ Followers(b) = Followers(Here)
    BY <1>3, <1>7, <1>8, <1>9, CoreFrame DEF Good
  <1>12. Core(cell, TRUE) /\ Followers(cell) = Followers(Here)
    BY <1>10, <1>11, RecordsOnly
  <1>13. RecordInv(cell)
    BY <1>0, <1>3, <1>5, <1>10 DEF Good, Book, RecordInv
  <1>14. ASSUME NEW g \in Followers(cell)
         PROVE  KeptCall(cell, g)
    <2>1. KeptCall(Here, g) /\ g.ch \in Channels
      BY <1>3, <1>12, FollowedChannel DEF Good, Book, KeptInv
    <2> QED BY <1>0, <1>5, <1>6, <1>10, <2>1 DEF KeptCall
  <1>15. Book(cell, {})
    BY <1>13, <1>14 DEF Book, KeptInv
  <1>16. Good(t, TRUE)
    BY <1>12, <1>15, DroppedKeeps DEF Good
  <1> HIDE DEF t
  <1> QED BY <1>2, <1>16, BlockKeeps

(* tetra_burst_enter()                                                     *)
LEMMA BurstEnterKeeps ==
    ASSUME IInv, BurstEnter
    PROVE  IInv'
  <1> DEFINE a == [Here EXCEPT !.stale = FALSE]
             s == Settle(a)
  <1>1. Leaves(s) /\ burst' = [open |-> TRUE, stale |-> s.stale] /\ ~burst.open /\ sm.own # "pending"
    BY DEF BurstEnter, Settled
  <1>2. Shape /\ Core(Here, FALSE) /\ Book(Here, {}) /\ Here \in State /\ Here.own = sm.own
    BY <1>1, HereIsGood
  <1>3. /\ a \in State /\ a.m = Here.m /\ a.kind = Here.kind /\ a.own = Here.own /\ a.prev = Here.prev
        /\ a.live = Here.live /\ a.hw = Here.hw /\ a.shared = Here.shared /\ a.misled = Here.misled
        /\ a.calls = Here.calls /\ a.lease = Here.lease /\ a.slipped = Here.slipped
    BY <1>2 DEF State
  <1> HIDE DEF a
  <1>4. FlightInv(a) /\ ChannelInv(a) /\ WhereInv(a) /\ HeldInv(a) /\ ProofInv(a, FALSE)
    BY <1>2, <1>3 DEF Core, FlightInv, ChannelInv, WhereInv, HeldInv, ProofInv
  <1>5. Core(a, FALSE)
    BY <1>3, <1>4 DEF Core
  <1>6. Followers(a) = Followers(Here)
    BY <1>3 DEF Followers
  <1>7. KeepsBook(Here, a)
    BY <1>3, <1>6 DEF KeepsBook
  <1>8. Book(a, {})
    BY <1>2, <1>7, BookFrame
  <1>9. Core(s, FALSE) /\ KeepsBook(a, s) /\ s.kind = "none"
    BY <1>1, <1>2, <1>3, <1>5, SettleKeeps
  <1>10. Book(s, {})
    BY <1>8, <1>9, BookFrame
  <1> HIDE DEF s
  <1>11. Core(s, TRUE) /\ s.stale \in BOOLEAN
    BY <1>9 DEF Core, ProofInv, State
  <1> QED BY <1>1, <1>2, <1>10, <1>11, LeavesKeeps DEF Good

-----------------------------------------------------------------------------
(* The clock.                                                              *)

(* Between two bursts less is asked of the evidence.                       *)
LEMMA Closed ==
    ASSUME NEW s, NEW open \in BOOLEAN, Good(s, open)
    PROVE  Good(s, FALSE)
  BY DEF Good, Core, ProofInv

(* sm_tick_tuned()                                                         *)
LEMMA TickTunedKeeps ==
    ASSUME NEW s, NEW open \in BOOLEAN, Core(s, open), s.kind = "none", s.m.st = "tuned", NEW t \in TickTuned(s)
    PROVE  Core(t, open) /\ KeepsBook(s, t)
  <1>0. s \in State /\ s.own = "none" /\ \A i \in 1 .. Len(s.live) : s.live[i].tag # "own"
    BY DEF Core, FlightInv
  <1>1. CASE t = s
    BY <1>1 DEF KeepsBook
  <1>2. CASE ~s.shared.tuned /\ t = Resting(Unfollow(s))
    <2>1. /\ t \in State /\ t.m.st # "tuned" /\ t.kind = "none" /\ t.own = "none" /\ t.live = s.live
          /\ ~t.shared.tuned /\ t.calls = s.calls /\ t.lease = s.lease /\ t.slipped = s.slipped
      BY <1>0, <1>2, UnfollowEffect
    <2>2. Core(t, open) /\ Followers(t) = {}
      BY <1>0, <2>1, AtRest
    <2> QED BY <2>1, <2>2 DEF KeepsBook
  <1>3. CASE t = [s EXCEPT !.m.retired = TRUE, !.m.proven = FALSE]
    <2>1. t \in State
      BY <1>0, <1>3 DEF State, Machine
    <2>2. /\ t.kind = s.kind /\ t.own = s.own /\ t.prev = s.prev /\ t.live = s.live /\ t.hw = s.hw
          /\ t.shared = s.shared /\ t.stale = s.stale /\ t.misled = s.misled
          /\ t.calls = s.calls /\ t.lease = s.lease /\ t.slipped = s.slipped
      BY <1>0, <1>3 DEF State
    <2>3. t.m.st = s.m.st /\ t.m.fol = s.m.fol /\ t.m.retired /\ ~t.m.proven
      BY <1>0, <1>3 DEF State, Machine
    <2>4. FlightInv(t) /\ ChannelInv(t) /\ WhereInv(t)
      BY <2>2, <2>3 DEF Core, FlightInv, ChannelInv, WhereInv
    <2>5. HeldInv(t) /\ ProofInv(t, open)
      BY <2>2, <2>3 DEF Core, HeldInv, Holds, ProofInv
    <2>6. KeepsBook(s, t)
      BY <1>0, <2>1, <2>2, <2>3, FollowersFrame DEF KeepsBook
    <2> QED BY <2>1, <2>4, <2>5, <2>6 DEF Core
  <1>4. CASE t \in Release(s)
    BY <1>4, ReleaseKeeps
  <1> QED BY <1>1, <1>2, <1>3, <1>4 DEF TickTuned

(* sm_tick()                                                               *)
LEMMA TickedKeeps ==
    ASSUME NEW s, NEW open \in BOOLEAN, Core(s, open), NEW t \in Ticked(s)
    PROVE  Core(t, open) /\ KeepsBook(s, t)
  <1>0. s \in State
    BY DEF Core
  <1>1. CASE t = s
    BY <1>1 DEF KeepsBook
  <1>2. CASE s.m.st = "cc" /\ t = [s EXCEPT !.m.st = "idle"]
    <2>1. t \in State
      BY <1>0, <1>2 DEF State, Machine
    <2>2. /\ t.kind = s.kind /\ t.own = s.own /\ t.prev = s.prev /\ t.live = s.live /\ t.hw = s.hw
          /\ t.shared = s.shared /\ t.stale = s.stale /\ t.misled = s.misled
          /\ t.calls = s.calls /\ t.lease = s.lease /\ t.slipped = s.slipped
      BY <1>0, <1>2 DEF State
    <2>3. t.m.st = "idle" /\ t.m.fol = s.m.fol /\ t.m.retired = s.m.retired /\ t.m.proven = s.m.proven
      BY <1>0, <1>2 DEF State, Machine
    <2>4. t.m.st = "tuned" <=> s.m.st = "tuned"
      BY <1>2, <2>3
    <2>5. Core(t, open) /\ Followers(t) = Followers(s)
      BY <2>1, <2>2, <2>3, <2>4, CoreFrame
    <2> QED BY <2>2, <2>5 DEF KeepsBook
  <1>3. CASE s.kind = "none" /\ s.m.st = "tuned" /\ t \in TickTuned(s)
    BY <1>3, TickTunedKeeps
  <1> QED BY <1>1, <1>2, <1>3 DEF Ticked

(* The state a tick or a no-carrier pass goes on from.                     *)
LEMMA TickedHere ==
    ASSUME IInv, ~burst.open, NEW t \in Ticked(Settle(Here))
    PROVE  Good(t, FALSE)
  <1>1. Core(Here, FALSE) /\ Book(Here, {})
    BY HereIsGood
  <1>2. Core(Settle(Here), FALSE) /\ KeepsBook(Here, Settle(Here))
    BY <1>1, SettleKeeps
  <1>3. Book(Settle(Here), {})
    BY <1>1, <1>2, BookFrame
  <1>4. Core(t, FALSE) /\ KeepsBook(Settle(Here), t)
    BY <1>2, TickedKeeps
  <1>5. Book(t, {})
    BY <1>3, <1>4, BookFrame
  <1> QED BY <1>4, <1>5 DEF Good

(* tetra_sm_tick(), tetra_calls_tick()                                     *)
LEMMA TickKeeps ==
    ASSUME IInv, NEW old \in SUBSET Ids, Tick(old)
    PROVE  IInv'
  <1> DEFINE Aged(s) == Dropped(s, old \ {FollowedId(s)})
             S == Ticked(Settle(Here))
  <1>1. PICK t \in UNION {{Aged(s)} : s \in S} : Leaves(t)
    BY DEF Tick, Then
  <1>2. PICK u \in S : t = Aged(u)
    OBVIOUS
  <1>3. ~burst.open /\ burst' = burst /\ Shape
    BY DEF Tick, IInv
  <1>4. Good(u, FALSE)
    BY <1>3, TickedHere
  <1>5. old \ {FollowedId(u)} \in SUBSET Ids
    OBVIOUS
  <1>6. Good(t, FALSE)
    BY <1>2, <1>4, <1>5, DroppedKeeps DEF Good
  <1> QED BY <1>1, <1>3, <1>6, LeavesKeeps DEF Shape

(* no_carrier_clear_stale_follow_state_if_needed()                         *)
LEMMA NoCarrierKeeps ==
    ASSUME IInv, NEW long, NoCarrier(long)
    PROVE  IInv'
  <1>1. PICK s \in (IF trunk /\ (sm.m.st = "tuned" \/ sm.kind # "none") THEN Ticked(Settle(Here)) ELSE {Here}) :
           Leaves(IF long THEN ClearStaleFollow(ForgetCarrier(s)) ELSE ForgetCarrier(s))
    BY DEF NoCarrier
  <1>2. ~burst.open /\ burst' = burst /\ Shape
    BY DEF NoCarrier, IInv
  <1>3. Good(Here, FALSE)
    BY <1>2, HereIsGood DEF Good
  <1>4. Good(s, FALSE)
    BY <1>2, <1>3, TickedHere
  <1> DEFINE f == ForgetCarrier(s)
             o == [f EXCEPT !.shared = Off]
             t == IF long THEN ClearStaleFollow(f) ELSE f
  <1>5. Core(f, FALSE) /\ KeepsBook(s, f)
    BY <1>4, ForgetKeeps DEF Good
  <1>6. Good(f, FALSE)
    BY <1>4, <1>5, BookFrame DEF Good
  <1> HIDE DEF f
  <1>7. Core(o, FALSE) /\ KeepsBook(f, o)
    BY <1>6, SharedOff DEF Good
  <1>8. Good(o, FALSE)
    BY <1>6, <1>7, BookFrame DEF Good
  <1>9. t = f \/ t = o
    BY DEF ClearStaleFollow
  <1>10. Leaves(t)
    BY <1>1 DEF f
  <1> HIDE DEF t, o
  <1>11. Good(t, FALSE)
    BY <1>6, <1>8, <1>9
  <1> QED BY <1>2, <1>10, <1>11, LeavesKeeps DEF Shape

(* The state as it is, with some fields set.                               *)
LEMMA LeavesHere ==
    ASSUME Shape
    PROVE  /\ sm = [m |-> sm.m, kind |-> sm.kind, own |-> sm.own, prev |-> sm.prev, dl |-> sm.dl]
           /\ rx = [hw |-> rx.hw, center |-> rx.center, live |-> rx.live]
  BY DEF Shape

(* The end of a burst                                                      *)
LEMMA BurstLeaveKeeps ==
    ASSUME IInv, BurstLeave
    PROVE  IInv'
  <1>1. Leaves(Here)
    BY LeavesHere DEF Leaves, Here, BurstLeave, IInv
  <1>2. Good(Here, FALSE)
    BY Closed DEF IInv, Shape
  <1>3. Shape /\ burst' \in [open : BOOLEAN, stale : BOOLEAN] /\ ~burst'.open
    BY DEF BurstLeave, IInv
  <1> QED BY <1>1, <1>2, <1>3, LeavesKeeps

(* A period passes: the clocks are no part of what is kept.                *)
LEMMA PassKeeps ==
    ASSUME IInv, Pass
    PROVE  IInv'
  <1> DEFINE n == LateM(sm.m)
             q == [sm.prev EXCEPT !.m = LateM(@)]
             t == [Here EXCEPT !.m = n, !.prev = q]
  <1>0. /\ Here \in State /\ sm.m \in Machine /\ sm.prev \in Previous /\ sm.prev.m \in Machine
        /\ Here.m = sm.m /\ Here.prev = sm.prev /\ burst.open \in BOOLEAN
    BY HereIsGood DEF IInv, Shape, Previous, Here
  <1>1. \A m \in Machine : LET l == LateM(m)
                           IN  /\ l \in Machine /\ l.st = m.st /\ l.fol = m.fol
                               /\ l.retired = m.retired /\ l.proven = m.proven
    <2>1. \A p \in Period : Late1(p) \in Period
      BY DEF Late1, Period
    <2> QED BY <2>1 DEF LateM, Machine
  <1>2. n \in Machine /\ n.st = sm.m.st /\ n.fol = sm.m.fol /\ n.retired = sm.m.retired /\ n.proven = sm.m.proven
    BY <1>0, <1>1
  <1>3. q \in Previous /\ q.m = LateM(sm.prev.m) /\ q.shared = sm.prev.shared /\ q.current = sm.prev.current
    BY <1>0, <1>1 DEF Previous
  <1>4. /\ q.m.st = sm.prev.m.st /\ q.m.fol = sm.prev.m.fol /\ q.m.retired = sm.prev.m.retired
        /\ q.m.proven = sm.prev.m.proven
    BY <1>0, <1>1, <1>3
  <1>5. sm' = [m |-> n, kind |-> sm.kind, own |-> sm.own, prev |-> q, dl |-> sm.dl]
    BY DEF Pass, IInv, Shape
  <1> HIDE DEF n, q
  <1>6. /\ t \in State /\ t.m = n /\ t.prev = q /\ t.kind = Here.kind /\ t.own = Here.own /\ t.live = Here.live
        /\ t.hw = Here.hw /\ t.shared = Here.shared /\ t.stale = Here.stale /\ t.misled = Here.misled
        /\ t.calls = Here.calls /\ t.lease = Here.lease /\ t.slipped = Here.slipped
    BY <1>0, <1>2, <1>3 DEF State
  <1>7. Leaves(t)
    BY <1>5, LeavesHere DEF Leaves, Here, Pass, IInv
  <1> HIDE DEF t
  <1>8. Core(t, burst.open) /\ Followers(t) = Followers(Here)
    BY <1>0, <1>2, <1>3, <1>4, <1>6, CoreFrame DEF IInv, Good
  <1>9. KeepsBook(Here, t)
    BY <1>6, <1>8 DEF KeepsBook
  <1>10. Good(t, burst.open)
    BY <1>8, <1>9, BookFrame DEF IInv, Good
  <1>11. burst' = burst /\ Shape /\ burst.stale = t.stale
    BY <1>6 DEF Pass, IInv, Here
  <1> QED BY <1>0, <1>7, <1>10, <1>11, LeavesKeeps DEF Shape

-----------------------------------------------------------------------------
(* The backend.                                                            *)

(* The backend's answer: the machine's own is the last of its queue, so the*)
(* receiver ends up where the machine expects it.                          *)
LEMMA AnswerKeeps ==
    ASSUME IInv, NEW ok \in BOOLEAN, Answer(ok)
    PROVE  IInv'
  <1> DEFINE L == rx.live
             hw == IF ok THEN Head(L).f ELSE rx.hw
             own == IF Head(L).tag = "own" THEN IF ok THEN "ok" ELSE "failed" ELSE sm.own
             s == Here
             t == [s EXCEPT !.hw = hw, !.live = Tail(L), !.own = own]
  <1>0. /\ s \in State /\ Core(s, burst.open) /\ s.live = L /\ s.own = sm.own /\ s.hw = rx.hw
        /\ burst.open \in BOOLEAN /\ L \in Seq(Entry) /\ L # <<>> /\ Shape
    BY HereIsGood DEF IInv, Shape, Here, Answer
  <1>1. /\ Len(L) \in Nat /\ Len(L) > 0 /\ Head(L) = L[1] /\ Head(L) \in Entry
        /\ Tail(L) \in Seq(Entry) /\ Len(Tail(L)) = Len(L) - 1
        /\ \A i \in 1 .. Len(Tail(L)) : Tail(L)[i] = L[i + 1]
    BY <1>0
  <1>2. hw \in Freqs /\ own \in {"none", "pending", "ok", "failed"}
    BY <1>0, <1>1 DEF Entry, Shape
  <1>3. /\ sm' = [m |-> sm.m, kind |-> sm.kind, own |-> own, prev |-> sm.prev, dl |-> sm.dl]
        /\ rx' = [hw |-> hw, center |-> rx.center, live |-> Tail(L)]
    BY <1>0 DEF Answer, Shape
  <1> DEFINE r == Tail(L)
  <1> HIDE DEF hw, own, r
  <1>4. Leaves([s EXCEPT !.hw = hw, !.live = r, !.own = own])
    BY <1>3 DEF Leaves, Here, Answer, r
  <1>5. /\ t \in State /\ t.hw = hw /\ t.live = r /\ t.own = own
        /\ t.m = s.m /\ t.kind = s.kind /\ t.prev = s.prev /\ t.shared = s.shared /\ t.stale = s.stale
        /\ t.misled = s.misled /\ t.calls = s.calls /\ t.lease = s.lease /\ t.slipped = s.slipped
    BY <1>0, <1>1, <1>2 DEF State, r
  <1>6. Leaves(t)
    BY <1>4 DEF r
  <1> HIDE DEF t, s
  <1>7. /\ Len(r) = Len(L) - 1 /\ \A i \in 1 .. Len(r) : r[i] = L[i + 1]
    BY <1>1 DEF r
  <1>8. \A i \in 1 .. Len(L) : L[i].tag = "own" => i = Len(L) /\ s.own = "pending"
    BY <1>0 DEF Core, FlightInv
  <1>9. ASSUME L[1].tag = "own"
        PROVE  FlightInv(t) /\ ChannelInv(t) /\ WhereInv(t)
    <2> DEFINE one == 1
               len == Len(L)
    <2>0. one \in 1 .. len
      BY <1>1
    <2>1. one = len /\ s.own = "pending"
      <3> HIDE DEF one
      <3>1. L[one].tag = "own"
        BY <1>9 DEF one
      <3> QED BY <1>8, <2>0, <3>1
    <2>2. Len(L) = 1 /\ s.own = "pending" /\ s.kind # "none" /\ Len(r) = 0
      BY <1>0, <1>7, <2>1 DEF Core, FlightInv
    <2>3. own = IF ok THEN "ok" ELSE "failed"
      BY <1>1, <1>9 DEF own
    <2>4. hw = IF ok THEN L[1].f ELSE s.hw
      BY <1>0, <1>1 DEF hw
    <2>5. FlightInv(t)
      BY <1>0, <1>5, <2>2, <2>3, <2>4 DEF Core, FlightInv
    <2>6. ChannelInv(t) /\ WhereInv(t)
      BY <1>0, <1>5, <2>2, <2>3, <2>4 DEF Core, ChannelInv, WhereInv
    <2> QED BY <2>5, <2>6
  <1>10. ASSUME L[1].tag # "own"
         PROVE  FlightInv(t) /\ ChannelInv(t) /\ WhereInv(t)
    <2>1. own = s.own
      BY <1>0, <1>1, <1>10 DEF own
    <2>2. s.own = "pending" => Len(L) > 1 /\ L[Len(L)].tag = "own"
      BY <1>0, <1>1, <1>10 DEF Core, FlightInv
    <2>3. s.own \notin {"ok", "failed"}
      BY <1>0, <1>1 DEF Core, FlightInv
    <2>4. \A i \in 1 .. Len(r) : r[i].tag = "own" => i = Len(r) /\ s.own = "pending"
      BY <1>1, <1>7, <1>8
    <2>5. s.own = "pending" => Len(r) > 0 /\ r[Len(r)] = L[Len(L)]
      BY <1>1, <1>7, <2>2
    <2>6. FlightInv(t)
      BY <1>0, <1>5, <2>1, <2>3, <2>4, <2>5 DEF Core, FlightInv
    <2>7. ChannelInv(t) /\ WhereInv(t)
      <3>1. s.kind # "none" /\ s.prev.m.st = "tuned" /\ ~s.misled => FALSE
        BY <1>0, <1>1, <2>2, <2>3 DEF Core, FlightInv, WhereInv, State
      <3>2. s.kind = "none" /\ s.m.st = "tuned" /\ ~s.misled => FALSE
        BY <1>0, <1>1 DEF Core, WhereInv
      <3> QED BY <1>0, <1>5, <3>1, <3>2 DEF Core, ChannelInv, WhereInv
    <2> QED BY <2>6, <2>7
  <1>11. HeldInv(t) /\ ProofInv(t, burst.open)
    BY <1>0, <1>5 DEF Core, HeldInv, ProofInv
  <1>12. Core(t, burst.open)
    BY <1>5, <1>9, <1>10, <1>11 DEF Core
  <1>13. Followers(t) = Followers(s)
    BY <1>5 DEF Followers
  <1>14. KeepsBook(s, t)
    BY <1>5, <1>13 DEF KeepsBook
  <1>15. Good(t, burst.open)
    BY <1>12, <1>14, BookFrame DEF IInv, Good, s
  <1>16. burst' = burst /\ burst.stale = t.stale
    BY <1>5 DEF Answer, Here, s
  <1> QED BY <1>0, <1>6, <1>15, <1>16, LeavesKeeps DEF Shape

-----------------------------------------------------------------------------
(* The operator.                                                           *)

(* No request of the machine's own is with the backend unless it waits.    *)
NoneOwn(s) == s.kind = "none" => s.own = "none" /\ \A i \in 1 .. Len(s.live) : s.live[i].tag # "own"

(* io_control_set_freq()                                                   *)
LEMMA MovedEffect ==
    ASSUME NEW s, NEW open, Core(s, open), NEW f \in Freqs, NEW t \in Moved(s, f)
    PROVE  /\ t \in State /\ NoneOwn(t) /\ t.m = s.m /\ t.kind = s.kind
           /\ t.calls = s.calls /\ t.lease = s.lease /\ t.slipped = s.slipped
  <1>0. s \in State /\ s.live \in Seq(Entry)
    BY DEF Core, State
  <1>1. s.kind = "none" => s.own = "none" /\ \A i \in 1 .. Len(s.live) : s.live[i].tag # "own"
    BY DEF Core, FlightInv
  <1>2. CASE t = [s EXCEPT !.hw = f, !.center = f]
    <2>1. /\ t \in State /\ t.m = s.m /\ t.kind = s.kind /\ t.own = s.own /\ t.live = s.live
          /\ t.calls = s.calls /\ t.lease = s.lease /\ t.slipped = s.slipped
      BY <1>0, <1>2 DEF State
    <2> QED BY <1>1, <2>1 DEF NoneOwn
  <1>3. CASE t = [s EXCEPT !.center = f, !.live = Append(@, [f |-> f, tag |-> "move"])]
    <2> DEFINE e == [f |-> f, tag |-> "move"]
               q == Append(s.live, e)
    <2>1. e \in Entry /\ e.tag # "own"
      BY DEF Entry
    <2>2. q \in Seq(Entry) /\ \A i \in 1 .. Len(q) : q[i] = e \/ (q[i] = s.live[i] /\ i \in 1 .. Len(s.live))
      <3>1. /\ q \in Seq(Entry) /\ Len(q) = Len(s.live) + 1 /\ q[Len(q)] = e /\ Len(s.live) \in Nat
            /\ \A i \in 1 .. Len(s.live) : q[i] = s.live[i]
        BY <1>0, <2>1
      <3>2. \A i \in 1 .. Len(q) : i = Len(q) \/ i \in 1 .. Len(s.live)
        BY <3>1
      <3> HIDE DEF q
      <3> QED BY <3>1, <3>2
    <2> HIDE DEF q
    <2>3. t = [s EXCEPT !.center = f, !.live = q]
      BY <1>0, <1>3 DEF q, State
    <2> HIDE DEF e
    <2>4. /\ t \in State /\ t.m = s.m /\ t.kind = s.kind /\ t.own = s.own /\ t.live = q
          /\ t.calls = s.calls /\ t.lease = s.lease /\ t.slipped = s.slipped
      BY <1>0, <2>2, <2>3 DEF State
    <2> QED BY <1>1, <2>1, <2>2, <2>4 DEF NoneOwn
  <1> QED BY <1>2, <1>3 DEF Moved

(* The records are as they were, and the machine rests.                    *)
LetGo(s, t) ==
    /\ Core(t, FALSE) /\ Followers(t) = {} /\ ~t.shared.tuned
    /\ t.calls = s.calls /\ t.lease = s.lease /\ t.slipped = s.slipped

(* sm_unfollow() alone                                                     *)
LEMMA UnfollowedEffect ==
    ASSUME NEW s \in State
    PROVE  LET u == Unfollow(s)
           IN  /\ u \in State /\ u.kind = s.kind /\ u.own = s.own /\ u.live = s.live /\ u.shared = s.shared
               /\ u.calls = s.calls /\ u.lease = s.lease /\ u.slipped = s.slipped
  <1>1. Unfollow(s) \in State
    BY Constants DEF Unfollow, State, Machine, NoCall, Chs, Period
  <1> QED BY <1>1 DEF Unfollow, State

(* sm_set_state() of the state the machine rests in                        *)
LEMMA RestingEffect ==
    ASSUME NEW s \in State
    PROVE  LET u == Resting(s)
           IN  /\ u \in State /\ u.m.st # "tuned"
               /\ u.kind = s.kind /\ u.own = s.own /\ u.live = s.live /\ u.shared = s.shared
               /\ u.calls = s.calls /\ u.lease = s.lease /\ u.slipped = s.slipped
  <1> DEFINE r == Rest(s)
             u == [s EXCEPT !.m.st = r]
  <1>1. r \in {"cc", "idle"}
    BY RestIsRest
  <1> HIDE DEF r
  <1>2. u \in State /\ u.m.st # "tuned"
    BY <1>1 DEF State, Machine
  <1>3. /\ u.kind = s.kind /\ u.own = s.own /\ u.live = s.live /\ u.shared = s.shared
        /\ u.calls = s.calls /\ u.lease = s.lease /\ u.slipped = s.slipped
    BY DEF State
  <1> QED BY <1>2, <1>3 DEF Resting, r

(* tetra_sm_on_external_cc_return()                                        *)
LEMMA HandOverRests ==
    ASSUME NEW s \in State, NoneOwn(s), ~s.shared.tuned
    PROVE  LetGo(s, HandOver(s))
  <1>1. CASE s.m.st = "idle" /\ s.kind = "none"
    <2>1. HandOver(s) = s
      BY <1>1 DEF HandOver
    <2>2. Core(s, FALSE) /\ Followers(s) = {}
      BY <1>1, AtRest DEF NoneOwn
    <2> QED BY <2>1, <2>2 DEF LetGo
  <1>2. CASE ~(s.m.st = "idle" /\ s.kind = "none")
    <2> DEFINE d == Disown(s)
               u == Unfollow(d)
               f == ForgetCarrier(u)
               t == Resting(f)
    <2>1. /\ d \in State /\ d.kind = "none" /\ d.own = "none"
          /\ \A i \in 1 .. Len(d.live) : d.live[i].tag # "own"
          /\ d.shared = s.shared /\ d.calls = s.calls /\ d.lease = s.lease /\ d.slipped = s.slipped
      BY DisownEffect
    <2> HIDE DEF d
    <2>2. /\ u \in State /\ u.kind = d.kind /\ u.own = d.own /\ u.live = d.live /\ u.shared = d.shared
          /\ u.calls = d.calls /\ u.lease = d.lease /\ u.slipped = d.slipped
      BY <2>1, UnfollowedEffect
    <2> HIDE DEF u
    <2>3. /\ f \in State /\ f.kind = u.kind /\ f.own = u.own /\ f.live = u.live /\ f.shared = u.shared
          /\ f.calls = u.calls /\ f.lease = u.lease /\ f.slipped = u.slipped
      BY <2>2, ForgetEffect
    <2> HIDE DEF f
    <2>4. /\ t \in State /\ t.m.st # "tuned"
          /\ t.kind = f.kind /\ t.own = f.own /\ t.live = f.live /\ t.shared = f.shared
          /\ t.calls = f.calls /\ t.lease = f.lease /\ t.slipped = f.slipped
      BY <2>3, RestingEffect
    <2>5. HandOver(s) = t
      BY <1>2 DEF HandOver, f, u, d
    <2> HIDE DEF t
    <2>6. Core(t, FALSE) /\ Followers(t) = {}
      BY <2>1, <2>2, <2>3, <2>4, AtRest
    <2> QED BY <2>1, <2>2, <2>3, <2>4, <2>5, <2>6 DEF LetGo
  <1> QED BY <1>1, <1>2

(* dsd_engine_carrier_boundary()                                           *)
LEMMA BoundaryRests ==
    ASSUME NEW s \in State, NoneOwn(s)
    PROVE  LetGo(s, Boundary(s))
  <1> DEFINE a == IF s.m.st = "tuned" \/ s.kind # "none" THEN Resting(Unfollow(Disown(s))) ELSE s
             o == [a EXCEPT !.shared = Off]
  <1>1. /\ a \in State /\ a.m.st # "tuned" /\ a.kind = "none" /\ a.own = "none"
        /\ \A i \in 1 .. Len(a.live) : a.live[i].tag # "own"
        /\ a.calls = s.calls /\ a.lease = s.lease /\ a.slipped = s.slipped
    <2>1. CASE s.m.st = "tuned" \/ s.kind # "none"
      <3> DEFINE d == Disown(s)
      <3>1. /\ d \in State /\ d.kind = "none" /\ d.own = "none"
            /\ \A i \in 1 .. Len(d.live) : d.live[i].tag # "own"
            /\ d.calls = s.calls /\ d.lease = s.lease /\ d.slipped = s.slipped
        BY DisownEffect
      <3>2. a = Resting(Unfollow(d))
        BY <2>1
      <3> HIDE DEF d, a
      <3> QED BY <3>1, <3>2, UnfollowEffect
    <2>2. CASE ~(s.m.st = "tuned" \/ s.kind # "none")
      BY <2>2 DEF NoneOwn
    <2> QED BY <2>1, <2>2
  <1>2. Boundary(s) = ForgetCarrier(o)
    BY DEF Boundary
  <1> HIDE DEF a
  <1>3. /\ o \in State /\ o.m = a.m /\ o.kind = "none" /\ o.own = "none" /\ o.live = a.live /\ ~o.shared.tuned
        /\ o.calls = s.calls /\ o.lease = s.lease /\ o.slipped = s.slipped
    BY <1>1 DEF State, Off, Shared
  <1> HIDE DEF o
  <1> DEFINE t == ForgetCarrier(o)
  <1>4. /\ t \in State /\ t.m.st = o.m.st /\ t.kind = o.kind /\ t.own = o.own /\ t.live = o.live /\ t.shared = o.shared
        /\ t.calls = o.calls /\ t.lease = o.lease /\ t.slipped = o.slipped
    BY <1>3, ForgetEffect
  <1> HIDE DEF t
  <1>5. Core(t, FALSE) /\ Followers(t) = {}
    BY <1>1, <1>3, <1>4, AtRest
  <1> QED BY <1>2, <1>3, <1>4, <1>5 DEF LetGo, t

(* A machine that let go of everything keeps Book.                         *)
LEMMA LetGoKeeps ==
    ASSUME NEW s, NEW t, Book(s, {}), LetGo(s, t)
    PROVE  Good(t, FALSE)
  <1>1. KeepsBook(s, t)
    BY DEF LetGo, KeepsBook
  <1> QED BY <1>1, BookFrame DEF LetGo, Good

(* apply_manual_return_to_cc(), apply_manual_channel_cycle() and a tune of *)
(* the operator's own                                                      *)
LEMMA MoveKeeps ==
    ASSUME IInv, Between, NEW f \in Freqs, NEW s \in Moved(Here, f), NEW t, LetGo(s, t), Leaves(t)
    PROVE  IInv'
  <1>1. /\ Core(Here, burst.open) /\ Book(Here, {}) /\ Shape /\ ~burst.open /\ burst' = burst
    BY HereIsGood DEF Between
  <1>2. s.calls = Here.calls /\ s.lease = Here.lease /\ s.slipped = Here.slipped
    BY <1>1, MovedEffect
  <1>3. LetGo(Here, t)
    BY <1>2 DEF LetGo
  <1>4. Good(t, FALSE)
    BY <1>1, <1>3, LetGoKeeps
  <1> QED BY <1>1, <1>4, LeavesKeeps DEF Shape

(* The receiver moved by the operator.                                     *)
LEMMA MovedHere ==
    ASSUME IInv, NEW f \in Freqs, NEW s \in Moved(Here, f)
    PROVE  s \in State /\ NoneOwn(s)
  BY HereIsGood, MovedEffect

(* apply_manual_return_to_cc()                                             *)
LEMMA ReturnToCcKeeps ==
    ASSUME IInv, ReturnToCc
    PROVE  IInv'
  <1>1. cc \in Freqs
    BY HereIsGood, Constants DEF ReturnToCc, State
  <1>2. PICK s \in Moved(Here, cc) : Leaves(HandOver([s EXCEPT !.shared = Off]))
    BY DEF ReturnToCc
  <1> DEFINE o == [s EXCEPT !.shared = Off]
  <1>3. s \in State /\ NoneOwn(s)
    BY <1>1, MovedHere
  <1>4. /\ o \in State /\ o.kind = s.kind /\ o.own = s.own /\ o.live = s.live /\ ~o.shared.tuned
        /\ o.calls = s.calls /\ o.lease = s.lease /\ o.slipped = s.slipped
    BY <1>3 DEF State, Off, Shared
  <1> HIDE DEF o
  <1>5. LetGo(o, HandOver(o))
    BY <1>3, <1>4, HandOverRests DEF NoneOwn
  <1>6. LetGo(s, HandOver(o))
    BY <1>4, <1>5 DEF LetGo
  <1>7. Leaves(HandOver(o)) /\ Between
    BY <1>2 DEF o, ReturnToCc
  <1> QED BY <1>1, <1>6, <1>7, MoveKeeps

(* apply_manual_channel_cycle()                                            *)
LEMMA ChannelCycleKeeps ==
    ASSUME IInv, NEW f \in Freqs, ChannelCycle(f)
    PROVE  IInv'
  <1>1. PICK s \in Moved(Here, f) :
           LET t == [s EXCEPT !.shared.tuned = FALSE] IN Leaves(HandOver(IF trunk THEN t ELSE Boundary(t)))
    BY DEF ChannelCycle
  <1> DEFINE o == [s EXCEPT !.shared.tuned = FALSE]
             b == IF trunk THEN o ELSE Boundary(o)
  <1>2. s \in State /\ NoneOwn(s)
    BY MovedHere
  <1>3. /\ o \in State /\ o.kind = s.kind /\ o.own = s.own /\ o.live = s.live /\ ~o.shared.tuned
        /\ o.calls = s.calls /\ o.lease = s.lease /\ o.slipped = s.slipped
    BY <1>2 DEF State, Shared
  <1>4. Leaves(HandOver(b)) /\ Between
    BY <1>1 DEF ChannelCycle
  <1> HIDE DEF o
  <1>5. NoneOwn(o)
    BY <1>2, <1>3 DEF NoneOwn
  <1>6. LetGo(o, Boundary(o))
    BY <1>3, <1>5, BoundaryRests
  <1>7. LET u == Boundary(o) IN u \in State /\ NoneOwn(u) /\ ~u.shared.tuned
    <2> DEFINE u == Boundary(o)
    <2>1. u \in State /\ FlightInv(u) /\ ~u.shared.tuned
      BY <1>6 DEF LetGo, Core
    <2> HIDE DEF u
    <2>2. NoneOwn(u)
      BY <2>1 DEF FlightInv, NoneOwn
    <2> QED BY <2>1, <2>2 DEF u
  <1>8. b \in State /\ NoneOwn(b) /\ ~b.shared.tuned /\ b.calls = s.calls /\ b.lease = s.lease /\ b.slipped = s.slipped
    BY <1>3, <1>5, <1>6, <1>7 DEF LetGo
  <1> HIDE DEF b
  <1>9. LetGo(b, HandOver(b))
    BY <1>8, HandOverRests
  <1>10. LetGo(s, HandOver(b))
    BY <1>8, <1>9 DEF LetGo
  <1> QED BY <1>4, <1>10, MoveKeeps

(* A tune to a frequency of the operator's own                             *)
LEMMA ManualTuneKeeps ==
    ASSUME IInv, NEW f \in Freqs, ManualTune(f)
    PROVE  IInv'
  <1>1. PICK s \in Moved(Here, f) : Leaves(Boundary(s))
    BY DEF ManualTune
  <1>2. s \in State /\ NoneOwn(s)
    BY MovedHere
  <1>3. LetGo(s, Boundary(s)) /\ Between
    BY <1>2, BoundaryRests DEF ManualTune
  <1> QED BY <1>1, <1>3, MoveKeeps

(* apply_tuner_release(), and the switch of trunking alone                 *)
LEMMA SetTrunkKeeps ==
    ASSUME IInv, NEW on, NEW release, SetTrunk(on, release)
    PROVE  IInv'
  <1> DEFINE o == [Here EXCEPT !.shared = Off]
  <1>1. /\ Core(Here, burst.open) /\ Book(Here, {}) /\ Shape /\ ~burst.open /\ burst' = burst
    BY HereIsGood DEF SetTrunk
  <1>2. Core(Here, FALSE)
    BY HereIsGood, Closed DEF Good
  <1>3. Good(Here, FALSE)
    BY <1>1, <1>2 DEF Good
  <1>4. Core(o, FALSE) /\ KeepsBook(Here, o)
    BY <1>2, SharedOff
  <1>5. Good(o, FALSE)
    BY <1>1, <1>4, BookFrame DEF Good
  <1>6. Leaves(Here) \/ Leaves(o)
    <2>1. CASE shared' = shared
      BY <1>1, <2>1, LeavesHere DEF Leaves, Here, SetTrunk
    <2>2. CASE shared' = Off
      BY <1>1, <2>2, LeavesHere DEF Leaves, Here, SetTrunk
    <2> QED BY <2>1, <2>2 DEF SetTrunk
  <1> HIDE DEF o
  <1> QED BY <1>1, <1>3, <1>5, <1>6, LeavesKeeps DEF Shape

-----------------------------------------------------------------------------
(* The theorem.                                                            *)

(* The machine starts at rest, with no records.                            *)
LEMMA InitGood ==
    ASSUME Init
    PROVE  IInv
  <1>1. Empty \in Machine /\ Empty.st = "idle"
    BY Constants DEF Empty, Machine, NoCall, Chs, Period
  <1>2. Off \in Shared /\ ~Off.tuned
    BY DEF Off, Shared
  <1>3. NoPrev \in Previous
    BY <1>1, <1>2 DEF NoPrev, Previous
  <1>4. PICK f \in Freqs : rx = [hw |-> f, center |-> f, live |-> <<>>]
    BY DEF Init
  <1>5. <<>> \in Seq(Entry) /\ Len(<<>>) = 0
    OBVIOUS
  <1>6. Shape
    BY <1>1, <1>3, <1>4, <1>5 DEF Init, Shape
  <1>7. calls \in [Ids -> Record] /\ lease \in [Channels -> Parties \cup {0}]
    BY FreeIsFree DEF Init, FreeRecord
  <1>8. Here \in State
    BY <1>2, <1>6, <1>7 DEF Init, State, Here, Shape
  <1>9. /\ Here.kind = "none" /\ Here.own = "none" /\ Here.m.st # "tuned" /\ ~Here.shared.tuned /\ Len(Here.live) = 0
        /\ Here.calls = calls
    BY <1>1, <1>2, <1>4, <1>5 DEF Init, Here
  <1>10. Core(Here, burst.open) /\ Followers(Here) = {}
    <2>1. burst.open \in BOOLEAN
      BY DEF Init
    <2>2. \A i \in 1 .. Len(Here.live) : Here.live[i].tag # "own"
      BY <1>9
    <2> QED BY <1>8, <1>9, <2>1, <2>2, AtRest
  <1>11. Book(Here, {})
    <2>1. \A i \in Ids : Here.calls[i].party = 0 /\ Here.calls[i].ch = NoChannel
      BY <1>9, FreeIsFree DEF Init, FreeRecord
    <2> QED BY <1>10, <2>1 DEF Book, RecordInv, KeptInv
  <1> QED BY <1>6, <1>10, <1>11 DEF IInv, Good

(* Whatever the operator does.                                             *)
LEMMA OperatorKeeps ==
    ASSUME IInv, Operator
    PROVE  IInv'
  BY ReturnToCcKeeps, ChannelCycleKeeps, ManualTuneKeeps, SetTrunkKeeps DEF Operator

(* One step per action.                                                    *)
LEMMA NextKeeps ==
    ASSUME IInv, [Next]_vars
    PROVE  IInv'
  <1>1. CASE BurstEnter
    BY <1>1, BurstEnterKeeps
  <1>2. CASE BurstLeave
    BY <1>2, BurstLeaveKeeps
  <1>3. ASSUME NEW i \in Ids, NEW p \in AnyParty, NEW offer \in Offers(Channels), NEW v \in Ids \cup {0},
               Setup(i, p, offer, v)
        PROVE  IInv'
    <2>1. offer \in Offers(Chs)
      BY DEF Offers, Chs
    <2> QED BY <1>3, <2>1, SetupKeeps
  <1>4. ASSUME NEW i \in Ids, NEW offer \in Offers(Channels \cup {NoChannel}), NEW excluded \in BOOLEAN,
               CallPdu(i, offer, excluded)
        PROVE  IInv'
    BY <1>4, CallPduKeeps DEF Chs
  <1>5. ASSUME NEW i \in Ids, NEW ch \in Channels \cup {NoChannel}, AddressedAllocation(i, ch)
        PROVE  IInv'
    BY <1>5, AddressedAllocationKeeps DEF Chs
  <1>6. ASSUME NEW i \in Ids, ReleasePdu(i)
        PROVE  IInv'
    BY <1>6, ReleasePduKeeps
  <1>7. ASSUME NEW i \in Ids, NEW j \in Ids, Rename(i, j)
        PROVE  IInv'
    BY <1>7, RenameKeeps
  <1>8. CASE Sysinfo
    BY <1>8, SysinfoKeeps
  <1>9. ASSUME NEW excluded \in BOOLEAN, Speech(excluded)
        PROVE  IInv'
    BY <1>9, SpeechKeeps
  <1>10. ASSUME NEW network \in BOOLEAN, OtherCell(network)
         PROVE  IInv'
    BY <1>10, OtherCellKeeps
  <1>11. ASSUME NEW old \in SUBSET Ids, Tick(old)
         PROVE  IInv'
    BY <1>11, TickKeeps
  <1>12. ASSUME NEW long \in BOOLEAN, NoCarrier(long)
         PROVE  IInv'
    BY <1>12, NoCarrierKeeps
  <1>13. CASE Pass
    BY <1>13, PassKeeps
  <1>14. ASSUME NEW ok \in BOOLEAN, Answer(ok)
         PROVE  IInv'
    BY <1>14, AnswerKeeps
  <1>15. CASE Operator
    BY <1>15, OperatorKeeps
  <1>16. CASE UNCHANGED vars
    <2>1. Leaves(Here)
      BY <1>16, LeavesHere DEF Leaves, Here, vars, IInv
    <2>2. burst' = burst /\ burst.stale = Here.stale /\ Shape /\ Good(Here, burst.open)
      BY <1>16 DEF vars, Here, IInv
    <2> QED BY <2>1, <2>2, LeavesKeeps DEF Shape
  <1> QED
    BY <1>1, <1>2, <1>3, <1>4, <1>5, <1>6, <1>7, <1>8, <1>9, <1>10, <1>11, <1>12, <1>13, <1>14, <1>15, <1>16
       DEF Next

(* The invariant implies the four parts of TetraSound.                     *)
LEMMA GoodIsSound ==
    ASSUME IInv
    PROVE  TetraSound
  <1> DEFINE s == Here
  <1>0. /\ s \in State /\ FlightInv(s) /\ ChannelInv(s) /\ WhereInv(s) /\ HeldInv(s) /\ ProofInv(s, burst.open)
        /\ RecordInv(s) /\ KeptInv(s, {})
    BY DEF IInv, Good, Core, Book
  <1>1. /\ s.m = sm.m /\ s.kind = sm.kind /\ s.own = sm.own /\ s.live = rx.live /\ s.hw = rx.hw
        /\ s.center = rx.center /\ s.shared = shared /\ s.cc = cc /\ s.calls = calls /\ s.lease = lease
        /\ s.misled = misled /\ s.slipped = slipped
    BY DEF Here
  <1> HIDE DEF s
  <1>2. TypeOK
    <2>1. sm.m.st \in {"idle", "cc", "tuned"} /\ sm.m.fol.ch \in Channels \cup {NoChannel}
      BY <1>0, <1>1, Parts DEF Chs
    <2>2. sm.kind \in {"none", "grant", "return"} /\ (sm.kind = "none" <=> sm.own = "none")
      BY <1>0, <1>1, Parts DEF FlightInv
    <2>3. sm.own = "pending" <=> \E i \in DOMAIN rx.live : rx.live[i].tag = "own"
      <3>1. rx.live \in Seq(Entry) /\ DOMAIN rx.live = 1 .. Len(rx.live) /\ Len(rx.live) \in Nat
        BY <1>0, <1>1 DEF State
      <3>2. sm.own = "pending" => Len(rx.live) \in DOMAIN rx.live /\ rx.live[Len(rx.live)].tag = "own"
        BY <1>0, <1>1, <3>1 DEF FlightInv
      <3>3. ASSUME NEW i \in DOMAIN rx.live, rx.live[i].tag = "own"
            PROVE  sm.own = "pending"
        BY <1>0, <1>1, <3>1, <3>3 DEF FlightInv
      <3> QED BY <3>2, <3>3
    <2>4. \A i \in Ids : calls[i].party \in Parties \cup {0} /\ calls[i].ch \in Channels \cup {NoChannel}
      BY <1>0, <1>1 DEF State, Record, Chs
    <2>5. cc \in {0, MainCarrier} /\ {rx.hw, rx.center} \subseteq Freqs
      BY <1>0, <1>1 DEF State
    <2> QED BY <2>1, <2>2, <2>3, <2>4, <2>5 DEF TypeOK
  <1>3. PlayedIsTheCall
    <2> SUFFICES ASSUME Plays(Here, sm.m.fol.ch)
                 PROVE  /\ calls[sm.m.fol.id] # Free
                        /\ lease[sm.m.fol.ch] \in {0, calls[sm.m.fol.id].party} \/ slipped
      BY DEF PlayedIsTheCall
    <2>1. sm.m.st = "tuned" /\ sm.m.proven /\ ~sm.m.retired
      BY <1>0, <1>1 DEF Plays, ProofInv, s
    <2>2. s.m.fol \in Followers(s)
      BY <1>1, <2>1 DEF Followers, Tracks
    <2>3. KeptCall(s, sm.m.fol)
      BY <1>0, <1>1, <2>2 DEF KeptInv
    <2>4. calls[sm.m.fol.id] # Free /\ sm.m.fol.id \in Ids
      BY <1>1, <2>3, FreeIsFree DEF KeptCall, FreeRecord
    <2>5. calls[sm.m.fol.id].ch \in {NoChannel, sm.m.fol.ch}
      BY <1>1, <2>4 DEF Plays, s
    <2> QED BY <1>1, <2>3, <2>4, <2>5 DEF KeptCall
  <1>4. FollowedOnItsCarrier
    BY <1>0, <1>1 DEF FollowedOnItsCarrier, WhereInv
  <1>5. HeldIsFollowed
    BY <1>0, <1>1 DEF HeldIsFollowed, HeldInv, Holds
  <1> QED BY <1>2, <1>3, <1>4, <1>5 DEF TetraSound

(* The call that is followed, where it is, and what plays of it, for any   *)
(* carriers, channels, identifiers and calls, however many events and      *)
(* changes of cell there are (tetra_trunk_sm.c, tetra_calls.c,             *)
(* tetra_voice_gate.c).                                                    *)
THEOREM TetraIsSound == Spec => []TetraSound
  <1>1. Init => IInv
    BY InitGood
  <1>2. IInv /\ [Next]_vars => IInv'
    BY NextKeeps
  <1>3. IInv => TetraSound
    BY GoodIsSound
  <1> QED BY <1>1, <1>2, <1>3, PTL DEF Spec
=============================================================================
