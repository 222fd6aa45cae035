------------------------- MODULE DmrTrunkSmProofs -------------------------
(***************************************************************************)
(* What DmrTrunkSm keeps true, for any carriers, channel maps, kinds of    *)
(* burst and number of events, and however far the backend falls behind:   *)
(* DmrSound is an invariant, and every step keeps MoveKept.                *)
(*                                                                         *)
(* A handler is a composition of operators from a state to the states it   *)
(* may leave, so the invariant is stated of such a state and every         *)
(* operator has a lemma that says it keeps it.  Sound is what holds in     *)
(* every circumstance; Right relates where the machine takes the receiver  *)
(* to be with what the backend has done and has yet to do, and holds as    *)
(* long as the machine was told of every move (unseen is FALSE).           *)
(* Firm, of the last part, is what holds the receiver after a move: a park *)
(* to come, a listening period that runs, or a settle that is waited for.  *)
(***************************************************************************)
EXTENDS DmrTrunkSm, SequenceTheorems, WellFoundedInduction, TLAPS

(* What a state of a handler is made of: the machine, what it shares with  *)
(* the rest of the decoder, the backend's queue, and what was returned.    *)
Period == {"off", "running", "over"}
Places == Freqs \cup {0}
Rows == Nat \ {0}
Machine ==
    [st : {"idle", "cc", "tuned", "hunting"}, cc : Places, probe : Places, rxf : Places, cur : BOOLEAN, acq : BOOLEAN,
     conf : BOOLEAN, req : {"none", "pending", "ok", "failed"}, lost : BOOLEAN, sup : BOOLEAN, waited : BOOLEAN,
     hunt : BOOLEAN, park : 0 .. 2, xpt : BOOLEAN, vc : Places, follow : BOOLEAN, talk : BOOLEAN, idx : Rows,
     t : [Timers -> Period]]
Shared == [alias : Places, tuned : BOOLEAN, force : BOOLEAN, owner : {"none", "dmr", "other"}, rest : Places]
Entry == [f : Freqs, tag : {"own", "loose", "dead", "move"}]
State ==
    [m : Machine, a : Shared, hw : Freqs, center : Freqs, live : Seq(Entry), failed : BOOLEAN, named : SUBSET Places,
     go : BOOLEAN]

(* The tracked request is in the backend's queue exactly while it is       *)
(* pending, and once.                                                      *)
OwnInv(s) ==
    /\ s.m.req = "pending" <=> \E i \in 1 .. Len(s.live) : s.live[i].tag = "own"
    /\ \A i, j \in 1 .. Len(s.live) : s.live[i].tag = "own" /\ s.live[j].tag = "own" => i = j

(* What holds in every circumstance.                                       *)
Sound(s) == s \in State /\ OwnInv(s)

(* A machine at rest knows no carrier and waits for nothing, a cold hunt   *)
(* is not suspended by a move, and a followed call has a way back.         *)
RestInv(s) ==
    /\ s.m.st = "idle" => s.m.rxf = 0 /\ s.m.probe = 0 /\ s.m.req = "none" /\ ~s.m.sup /\ ~s.m.hunt
    /\ s.m.hunt => ~s.m.sup
    /\ s.a.tuned \/ s.m.st = "tuned" => s.a.alias # 0

(* The decoder reads the frequency that was asked for last.                *)
CenterInv(s) ==
    /\ Len(s.live) > 0 => s.center = s.live[Len(s.live)].f
    /\ Len(s.live) = 0 /\ ~s.failed => s.hw = s.center

(* An operator's move is on its way.                                       *)
HasMove(s) == \E i \in 1 .. Len(s.live) : s.live[i].tag = "move"

(* While an operator's move is on its way the machine claims no carrier,   *)
(* and a tracked request the move overtook will not make it claim one.     *)
MoveInv(s) ==
    /\ HasMove(s) => s.m.rxf = 0 /\ (s.m.req = "ok" => s.m.probe = 0)
    /\ \A j, k \in 1 .. Len(s.live) : s.live[j].tag = "own" /\ s.live[k].tag = "move" /\ k > j => s.m.probe = 0

(* Off a voice channel the tracked request is the newest, for the carrier  *)
(* that is probed; once it succeeded the receiver is there.                *)
ProbeInv(s) ==
    /\ \A j \in 1 .. Len(s.live) :
          s.live[j].tag = "own" /\ s.m.probe # 0 => s.live[j].f = s.m.probe /\ (s.a.tuned \/ j = Len(s.live))
    /\ s.m.req = "ok" /\ s.m.probe # 0 /\ ~s.a.tuned => Len(s.live) = 0 /\ ~s.failed /\ s.hw = s.m.probe

(* Where the machine takes the receiver to be is where it is, once the     *)
(* backend has nothing left to do.                                         *)
WhereInv(s) == s.m.rxf # 0 /\ s.m.cur /\ ~s.a.tuned /\ Len(s.live) = 0 /\ ~s.failed => s.hw = s.m.rxf

(* Every frequency a release, or a hunt, may bring the alias back to.      *)
NamedInv(s) == ~Loops => \A f \in {s.a.alias, s.a.rest, s.m.cc} : f # 0 => f \in s.named

(* What relates the machine to the receiver.                               *)
LinkInv(s) == CenterInv(s) /\ MoveInv(s) /\ ProbeInv(s) /\ WhereInv(s)

(* What holds as long as the machine is told of every move.                *)
Right(s) == RestInv(s) /\ LinkInv(s) /\ NamedInv(s)

(* A machine at rest tracks nothing; a cold hunt has a map to walk; and    *)
(* neither is suspended by a move, or has a channel that was confirmed.    *)
StillInv(s) ==
    /\ s.m.st = "idle" => s.m.req = "none" /\ ~s.m.hunt
    /\ s.m.st = "idle" \/ s.m.hunt => ~s.m.sup /\ ~s.m.conf
    /\ s.m.hunt => Map # <<>>

(* What a step of a handler does to the invariant.                         *)
Keeps(s, t) == Sound(t) /\ (StillInv(s) => StillInv(t)) /\ (trunk /\ Right(s) => Right(t))

(* The values of rx.                                                       *)
Receiver == [hw : Freqs, center : Freqs, live : Seq(Entry), failed : BOOLEAN]

(* The inductive invariant: a voice loop goes on only where there are any. *)
IInv ==
    /\ rx \in Receiver /\ site \in Sites /\ trunk \in BOOLEAN /\ unseen \in BOOLEAN /\ loop \in BOOLEAN
    /\ Sound(Here) /\ StillInv(Here)
    /\ ~unseen => trunk /\ Right(Here)
    /\ loop => Loops

-----------------------------------------------------------------------------
(* Frames.                                                                 *)

(* The receiver and the queue; the carriers the machine is at and after;   *)
(* the way back.                                                           *)
SameRx(s, t) == t.hw = s.hw /\ t.center = s.center /\ t.live = s.live /\ t.failed = s.failed

SameAim(s, t) == t.m.cc = s.m.cc /\ t.m.probe = s.m.probe /\ t.m.rxf = s.m.rxf /\ t.m.cur = s.m.cur /\ t.m.req = s.m.req

SameGoal(s, t) == t.a.alias = s.a.alias /\ t.a.tuned = s.a.tuned /\ t.a.rest = s.a.rest

(* t differs from s in nothing the invariant is about, except that it may  *)
(* be less at rest.                                                        *)
Calm(s, t) ==
    /\ t.m.st \in {s.m.st, "cc", "hunting"} /\ (t.m.sup => s.m.sup) /\ (t.m.hunt => s.m.hunt)
    /\ (t.m.conf => s.m.conf) /\ s.named \subseteq t.named

(* The frame most steps of a handler keep.                                 *)
Alike(s, t) == t \in State /\ SameRx(s, t) /\ SameAim(s, t) /\ SameGoal(s, t) /\ Calm(s, t)

(* A burst is heard: no move is on its way, and the gate is open unless a  *)
(* voice loop goes on.                                                     *)
Hears(s) == ~HasMove(s) /\ (~Loops => Settled(s))

(* The types of a state's parts.                                           *)
LEMMA Parts ==
    ASSUME NEW s \in State
    PROVE  /\ s.m \in Machine /\ s.a \in Shared /\ s.hw \in Freqs /\ s.center \in Freqs /\ s.live \in Seq(Entry)
           /\ s.failed \in BOOLEAN /\ s.named \subseteq Places /\ s.go \in BOOLEAN
           /\ s.m.st \in {"idle", "cc", "tuned", "hunting"} /\ s.m.cc \in Places /\ s.m.probe \in Places
           /\ s.m.rxf \in Places /\ s.m.cur \in BOOLEAN /\ s.m.req \in {"none", "pending", "ok", "failed"}
           /\ s.m.sup \in BOOLEAN /\ s.m.hunt \in BOOLEAN /\ s.m.t \in [Timers -> Period] /\ s.m.idx \in Rows
           /\ s.a.alias \in Places /\ s.a.tuned \in BOOLEAN /\ s.a.rest \in Places /\ s.a.force \in BOOLEAN
           /\ s.m.xpt \in BOOLEAN /\ s.m.acq \in BOOLEAN
  BY DEF State, Machine, Shared

(* The backend's queue of a state.                                         *)
LEMMA Queue ==
    ASSUME NEW s \in State
    PROVE  /\ Len(s.live) \in Nat /\ DOMAIN s.live = 1 .. Len(s.live)
           /\ \A i \in 1 .. Len(s.live) : /\ s.live[i] \in Entry /\ s.live[i].f \in Freqs
                                          /\ s.live[i].tag \in {"own", "loose", "dead", "move"}
           /\ s.live = <<>> <=> Len(s.live) = 0
  <1>1. s.live \in Seq(Entry)
    BY Parts
  <1>2. Len(s.live) \in Nat /\ DOMAIN s.live = 1 .. Len(s.live)
    BY <1>1
  <1>3. \A i \in 1 .. Len(s.live) : s.live[i] \in Entry
    BY <1>1
  <1>4. s.live = <<>> <=> Len(s.live) = 0
    BY <1>1, EmptySeq
  <1> QED BY <1>2, <1>3, <1>4 DEF Entry

(* What the assumption says of the constants.                              *)
LEMMA Carriers == \A f \in Freqs : f \in Nat /\ f # 0 /\ f \in Places
  BY DmrAssumption DEF Places

(* A burst is heard in a state like one where it was.                      *)
LEMMA AlikeHears ==
    ASSUME NEW s, NEW t, SameRx(s, t), Hears(s)
    PROVE  Hears(t)
  BY DEF SameRx, Hears, HasMove, Settled

(* The receiver and the machine's carriers are all LinkInv is about.       *)
LEMMA AlikeLink ==
    ASSUME NEW s, NEW t, SameRx(s, t), SameAim(s, t), t.a.tuned = s.a.tuned
    PROVE  /\ OwnInv(s) => OwnInv(t)
           /\ LinkInv(s) => LinkInv(t)
  <1>1. OwnInv(s) => OwnInv(t)
    BY DEF SameRx, SameAim, OwnInv
  <1>2. HasMove(t) = HasMove(s)
    BY DEF SameRx, HasMove
  <1>3. LinkInv(s) => LinkInv(t)
    BY <1>2 DEF SameRx, SameAim, LinkInv, CenterInv, MoveInv, ProbeInv, WhereInv
  <1> QED BY <1>1, <1>3

(* What a frame keeps.                                                     *)
LEMMA AlikeKeeps ==
    ASSUME NEW s, NEW t, Sound(s), Alike(s, t)
    PROVE  Keeps(s, t)
  <1>0. StillInv(s) => StillInv(t)
    BY DEF Alike, Calm, SameAim, StillInv
  <1>1. OwnInv(t) /\ (LinkInv(s) => LinkInv(t))
    BY AlikeLink DEF Sound, Alike, SameGoal
  <1>2. RestInv(s) => RestInv(t)
    BY DEF Alike, Calm, SameAim, SameGoal, RestInv
  <1>3. NamedInv(s) => NamedInv(t)
    BY DEF Alike, Calm, SameAim, SameGoal, NamedInv
  <1> QED BY <1>0, <1>1, <1>2, <1>3 DEF Keeps, Right, Sound, Alike

(* Two steps of a handler in turn.                                         *)
LEMMA KeepsThen ==
    ASSUME NEW s, NEW t, NEW w, Keeps(s, t), Keeps(t, w)
    PROVE  Keeps(s, w)
  BY DEF Keeps

(* Frames compose, and nothing done is a frame.                            *)
LEMMA AlikeThen ==
    ASSUME NEW s, NEW t, NEW w, Alike(s, t), Alike(t, w)
    PROVE  Alike(s, w)
  BY DEF Alike, Calm, SameRx, SameAim, SameGoal

LEMMA AlikeSelf ==
    ASSUME NEW s \in State
    PROVE  Alike(s, s)
  BY DEF Alike, Calm, SameRx, SameAim, SameGoal

LEMMA KeepsSelf ==
    ASSUME NEW s, Sound(s)
    PROVE  Keeps(s, s)
  BY DEF Keeps

(* What the C function returned.                                           *)
LEMMA GoStop ==
    ASSUME NEW s \in State
    PROVE  /\ Alike(s, Go(s)) /\ Go(s).go /\ Go(s).m = s.m /\ Go(s).a = s.a
           /\ Alike(s, Stop(s)) /\ ~Stop(s).go /\ Stop(s).m = s.m /\ Stop(s).a = s.a
           /\ Go(s).named = s.named /\ Stop(s).named = s.named
  BY DEF Go, Stop, Alike, Calm, SameRx, SameAim, SameGoal, State

(* set_state(), to a state that is not idle and not on a call              *)
LEMMA SetStateAlike ==
    ASSUME NEW s \in State, NEW st \in {"idle", "cc", "tuned", "hunting"}
    PROVE  LET t == SetState(s, st)
           IN  /\ t \in State /\ SameRx(s, t) /\ SameAim(s, t) /\ t.a = s.a /\ t.named = s.named /\ t.go = s.go
               /\ t.m.st = st /\ t.m.sup = s.m.sup /\ t.m.hunt = s.m.hunt /\ t.m.conf = s.m.conf
               /\ st \in {"cc", "hunting"} => Alike(s, t)
  <1>1. CASE s.m.st = st
    BY <1>1 DEF SetState, Alike, Calm, SameRx, SameAim, SameGoal
  <1>2. CASE s.m.st # st
    <2> DEFINE armed == IF st = "idle" \/ s.m.hunt THEN s.m.t["armed"] ELSE "off"
               t == [s EXCEPT !.m.st = st, !.m.lost = FALSE, !.m.t["armed"] = armed]
    <2>1. armed \in Period
      BY DEF State, Machine, Timers, Period
    <2>2. SetState(s, st) = t
      BY <1>2 DEF SetState
    <2> HIDE DEF armed
    <2>3. /\ t \in State /\ SameRx(s, t) /\ SameAim(s, t) /\ t.a = s.a /\ t.named = s.named /\ t.go = s.go
          /\ t.m.st = st /\ t.m.sup = s.m.sup /\ t.m.hunt = s.m.hunt /\ t.m.conf = s.m.conf
      BY <2>1 DEF SameRx, SameAim, State, Machine, Timers
    <2> QED BY <2>2, <2>3 DEF Alike, Calm, SameGoal
  <1> QED BY <1>1, <1>2

(* A period starts.                                                        *)
LEMMA StartAlike ==
    ASSUME NEW s \in State, NEW k \in Timers
    PROVE  LET t == Start(s, k)
           IN  /\ Alike(s, t) /\ t.a = s.a /\ t.named = s.named /\ t.go = s.go
               /\ t.m.st = s.m.st /\ t.m.sup = s.m.sup /\ t.m.hunt = s.m.hunt /\ t.m.conf = s.m.conf
  BY DEF Start, Alike, Calm, SameRx, SameAim, SameGoal, State, Machine, Shared, Timers, Period

(* The timers by name.                                                     *)
LEMMA TimerNames ==
    /\ "dl" \in Timers /\ "aw" \in Timers /\ "sw" \in Timers /\ "armed" \in Timers
    /\ "tune" \in Timers /\ "voice" \in Timers /\ "rc" \in Timers /\ "retry" \in Timers
  BY DEF Timers

-----------------------------------------------------------------------------
(* The tracked request.                                                    *)

(* The queue with no request tracked any more.                             *)
LetGo(p, q) ==
    /\ Len(q) = Len(p)
    /\ \A i \in 1 .. Len(p) : /\ q[i].f = p[i].f /\ q[i].tag # "own"
                              /\ q[i].tag = "move" <=> p[i].tag = "move"

(* Requests are relabelled in place.                                       *)
LEMMA RetagEffect ==
    ASSUME NEW live \in Seq(Entry), NEW from, NEW to \in {"own", "loose", "dead", "move"}
    PROVE  LET q == Retag(live, from, to)
           IN  /\ q \in Seq(Entry) /\ Len(q) = Len(live)
               /\ \A i \in 1 .. Len(live) :
                     q[i].f = live[i].f /\ q[i].tag = (IF live[i].tag = from THEN to ELSE live[i].tag)
  <1> DEFINE E(i) == IF live[i].tag = from THEN [live[i] EXCEPT !.tag = to] ELSE live[i]
             q == [i \in DOMAIN live |-> E(i)]
  <1>1. DOMAIN live = 1 .. Len(live) /\ Len(live) \in Nat
    OBVIOUS
  <1>2. \A e \in Entry : LET d == [e EXCEPT !.tag = to] IN d \in Entry /\ d.f = e.f /\ d.tag = to
    BY DEF Entry
  <1>3. \A i \in 1 .. Len(live) :
           E(i) \in Entry /\ E(i).f = live[i].f /\ E(i).tag = (IF live[i].tag = from THEN to ELSE live[i].tag)
    <2> SUFFICES ASSUME NEW i \in 1 .. Len(live)
                 PROVE  E(i) \in Entry /\ E(i).f = live[i].f
                          /\ E(i).tag = (IF live[i].tag = from THEN to ELSE live[i].tag)
      OBVIOUS
    <2>1. live[i] \in Entry
      OBVIOUS
    <2> QED BY <1>2, <2>1
  <1>4. q \in [1 .. Len(live) -> Entry]
    BY <1>1, <1>3
  <1>5. q \in Seq(Entry) /\ Len(q) = Len(live)
    BY <1>1, <1>4, SeqDef, LenProperties
  <1>6. \A i \in 1 .. Len(live) : q[i] = E(i)
    BY <1>1
  <1>7. Retag(live, from, to) = q
    BY DEF Retag
  <1> HIDE DEF q
  <1> QED BY <1>3, <1>5, <1>6, <1>7

(* No request tracked: what is left is as it was, whatever is probed.      *)
LEMMA FreedKeeps ==
    ASSUME NEW s, NEW t, Sound(s), t \in State, t.m.req = "none", LetGo(s.live, t.live),
           t.hw = s.hw, t.center = s.center, t.failed = s.failed,
           t.m.rxf = s.m.rxf, t.m.cur = s.m.cur, t.m.cc = s.m.cc, SameGoal(s, t), Calm(s, t),
           t.m.st = "idle" => t.m.probe = s.m.probe
    PROVE  Keeps(s, t)
  <1>1. OwnInv(t)
    BY DEF OwnInv, LetGo
  <1>2. HasMove(t) => HasMove(s)
    BY DEF HasMove, LetGo
  <1>q. Len(s.live) \in Nat
    BY Queue DEF Sound
  <1>3. CenterInv(s) => CenterInv(t)
    <2>1. Len(s.live) > 0 => t.live[Len(t.live)].f = s.live[Len(s.live)].f
      BY <1>q DEF LetGo
    <2> QED BY <2>1 DEF CenterInv, LetGo
  <1>4. MoveInv(s) => MoveInv(t)
    BY <1>2 DEF MoveInv, LetGo
  <1>5. ProbeInv(t)
    BY DEF ProbeInv, LetGo
  <1>6. WhereInv(s) => WhereInv(t)
    BY DEF WhereInv, LetGo, SameGoal
  <1>7. RestInv(s) => RestInv(t)
    BY DEF Calm, SameGoal, RestInv
  <1>8. NamedInv(s) => NamedInv(t)
    BY DEF Calm, SameGoal, NamedInv
  <1>9. StillInv(s) => StillInv(t)
    BY DEF Calm, StillInv
  <1> QED BY <1>1, <1>3, <1>4, <1>5, <1>6, <1>7, <1>8, <1>9 DEF Keeps, Right, LinkInv, Sound

(* The request is let go of, as loose or as dead.                          *)
LEMMA GoneEffect ==
    ASSUME NEW s \in State, NEW to \in {"loose", "dead"}
    PROVE  LET t == [s EXCEPT !.m.req = "none", !.live = Retag(@, "own", to)]
           IN  /\ t \in State /\ t.m = [s.m EXCEPT !.req = "none"] /\ t.a = s.a /\ t.hw = s.hw
               /\ t.center = s.center /\ t.failed = s.failed /\ t.named = s.named /\ t.go = s.go
               /\ LetGo(s.live, t.live)
               /\ t.m.req = "none" /\ t.m.st = s.m.st /\ t.m.cc = s.m.cc /\ t.m.probe = s.m.probe /\ t.m.rxf = s.m.rxf
               /\ t.m.cur = s.m.cur /\ t.m.sup = s.m.sup /\ t.m.hunt = s.m.hunt /\ t.m.conf = s.m.conf
               /\ t.live = Retag(s.live, "own", to)
  <1> DEFINE q == Retag(s.live, "own", to)
             t == [s EXCEPT !.m.req = "none", !.live = q]
  <1>1. s.live \in Seq(Entry)
    BY Parts
  <1>2. q \in Seq(Entry) /\ LetGo(s.live, q)
    <2>1. q \in Seq(Entry) /\ Len(q) = Len(s.live)
      BY <1>1, RetagEffect
    <2>2. \A i \in 1 .. Len(s.live) :
             q[i].f = s.live[i].f /\ q[i].tag = (IF s.live[i].tag = "own" THEN to ELSE s.live[i].tag)
      BY <1>1, RetagEffect
    <2> QED BY <2>1, <2>2 DEF LetGo
  <1> HIDE DEF q
  <1>3. /\ t \in State /\ t.m = [s.m EXCEPT !.req = "none"] /\ t.a = s.a /\ t.hw = s.hw
        /\ t.center = s.center /\ t.failed = s.failed /\ t.named = s.named /\ t.go = s.go /\ t.live = q
    BY <1>2 DEF State, Machine
  <1>4. /\ t.m.req = "none" /\ t.m.st = s.m.st /\ t.m.cc = s.m.cc /\ t.m.probe = s.m.probe /\ t.m.rxf = s.m.rxf
        /\ t.m.cur = s.m.cur /\ t.m.sup = s.m.sup /\ t.m.hunt = s.m.hunt /\ t.m.conf = s.m.conf
    BY <1>3 DEF State, Machine
  <1> QED BY <1>2, <1>3, <1>4 DEF q

(* The tracked request is let go of, its tune is not.                      *)
LEMMA LoosenEffect ==
    ASSUME NEW s \in State
    PROVE  LET t == Loosen(s)
           IN  /\ t \in State /\ t.a = s.a /\ t.hw = s.hw
               /\ t.center = s.center /\ t.failed = s.failed /\ t.named = s.named /\ t.go = s.go
               /\ LetGo(s.live, t.live)
               /\ t.m.req = "none" /\ t.m.st = s.m.st /\ t.m.cc = s.m.cc /\ t.m.probe = s.m.probe /\ t.m.rxf = s.m.rxf
               /\ t.m.cur = s.m.cur /\ t.m.sup = s.m.sup /\ t.m.hunt = s.m.hunt /\ t.m.conf = s.m.conf
  <1>1. "loose" \in {"loose", "dead"}
    OBVIOUS
  <1> QED BY <1>1, GoneEffect, Zenon DEF Loosen

(* dmr_cc_resolve_pending()                                                *)
LEMMA ResolveEffect ==
    ASSUME NEW s \in State
    PROVE  LET t == Resolve(s)
           IN  /\ t \in State /\ t.a = s.a /\ t.hw = s.hw /\ t.center = s.center /\ t.failed = s.failed
               /\ t.named = s.named /\ t.m.cc = s.m.cc /\ t.m.probe = s.m.probe /\ t.m.sup = s.m.sup /\ t.m.hunt = s.m.hunt /\ t.m.conf = s.m.conf
               /\ t.m.st \in {s.m.st, "hunting"}
               /\ \/ t.m.req = s.m.req /\ t.live = s.live /\ t.m.rxf = s.m.rxf /\ t.m.cur = s.m.cur
                     /\ (t.go => s.m.req = "none") /\ s.m.req # "ok" /\ t.m.st = s.m.st
                  \/ t.m.req = "none" /\ LetGo(s.live, t.live) /\ s.m.req = "ok" /\ t.m.rxf = s.m.probe /\ t.m.cur
                     /\ t.m.st = s.m.st
                  \/ t.m.req = "none" /\ LetGo(s.live, t.live) /\ s.m.req # "ok" /\ t.m.rxf = s.m.rxf /\ t.m.cur = s.m.cur
                     /\ ~t.go
  <1> DEFINE g == [s EXCEPT !.m.req = "none", !.live = Retag(@, "own", "dead")]
  <1>1. /\ g \in State /\ g.a = s.a /\ g.hw = s.hw /\ g.center = s.center /\ g.failed = s.failed
        /\ g.named = s.named /\ g.go = s.go /\ LetGo(s.live, g.live)
        /\ g.m.req = "none" /\ g.m.st = s.m.st /\ g.m.cc = s.m.cc /\ g.m.probe = s.m.probe /\ g.m.rxf = s.m.rxf
        /\ g.m.cur = s.m.cur /\ g.m.sup = s.m.sup /\ g.m.hunt = s.m.hunt /\ g.m.conf = s.m.conf
    <2>1. "dead" \in {"loose", "dead"}
      OBVIOUS
    <2> QED BY <2>1, GoneEffect, Zenon
  <1>d. Resolve(s) = IF s.m.req = "none" THEN Go(s)
        ELSE IF s.m.req = "pending" /\ s.m.t["dl"] = "running" THEN Stop(s)
        ELSE IF s.m.req = "ok" THEN Go(Start([g EXCEPT !.m.rxf = s.m.probe, !.m.cur = TRUE], "aw"))
        ELSE Stop(SetState(Start([g EXCEPT !.m.acq = FALSE], "retry"), "hunting"))
    BY DEF Resolve
  <1> HIDE DEF g
  <1>2. CASE s.m.req = "none"
    BY <1>2, <1>d, GoStop DEF Alike, SameRx, SameAim
  <1>3. CASE s.m.req = "pending" /\ s.m.t["dl"] = "running"
    BY <1>3, <1>d, GoStop DEF Alike, SameRx, SameAim
  <1>4. CASE s.m.req = "ok"
    <2> DEFINE a == [g EXCEPT !.m.rxf = s.m.probe, !.m.cur = TRUE]
               b == Start(a, "aw")
               c == Go(b)
    <2>1. s.m.probe \in Places
      BY Parts
    <2>2. /\ a \in State /\ SameRx(g, a) /\ a.a = g.a /\ a.named = g.named /\ a.m.rxf = s.m.probe /\ a.m.cur = TRUE
          /\ a.m.req = g.m.req /\ a.m.st = g.m.st /\ a.m.cc = g.m.cc /\ a.m.probe = g.m.probe
          /\ a.m.sup = g.m.sup /\ a.m.hunt = g.m.hunt /\ a.m.conf = g.m.conf
      BY <1>1, <2>1 DEF State, Machine, SameRx
    <2> HIDE DEF a
    <2>3. Alike(a, b) /\ b.a = a.a /\ b.named = a.named /\ b.m.st = a.m.st /\ b.m.sup = a.m.sup /\ b.m.hunt = a.m.hunt /\ b.m.conf = a.m.conf
      BY <2>2, StartAlike, TimerNames
    <2> HIDE DEF b
    <2>4. Alike(b, c) /\ c.a = b.a /\ c.named = b.named /\ c.m = b.m
      BY <2>3, GoStop DEF Alike
    <2>5. Resolve(s) = c
      BY <1>4, <1>d DEF b, a
    <2> HIDE DEF c
    <2> QED BY <1>1, <1>4, <2>2, <2>3, <2>4, <2>5 DEF Alike, SameRx, SameAim
  <1>5. CASE s.m.req # "none" /\ ~(s.m.req = "pending" /\ s.m.t["dl"] = "running") /\ s.m.req # "ok"
    <2> DEFINE a == [g EXCEPT !.m.acq = FALSE]
               b == Start(a, "retry")
               c == SetState(b, "hunting")
               d == Stop(c)
    <2>2. /\ a \in State /\ SameRx(g, a) /\ SameAim(g, a) /\ a.a = g.a /\ a.named = g.named
          /\ a.m.st = g.m.st /\ a.m.sup = g.m.sup /\ a.m.hunt = g.m.hunt /\ a.m.conf = g.m.conf
      BY <1>1 DEF State, Machine, SameRx, SameAim
    <2> HIDE DEF a
    <2>3. Alike(a, b) /\ b.a = a.a /\ b.named = a.named /\ b.m.sup = a.m.sup /\ b.m.hunt = a.m.hunt /\ b.m.conf = a.m.conf
      BY <2>2, StartAlike, TimerNames
    <2> HIDE DEF b
    <2>4. /\ c \in State /\ SameRx(b, c) /\ SameAim(b, c) /\ c.a = b.a /\ c.named = b.named /\ c.m.st = "hunting"
          /\ c.m.sup = b.m.sup /\ c.m.hunt = b.m.hunt /\ c.m.conf = b.m.conf
      BY <2>3, SetStateAlike DEF Alike
    <2> HIDE DEF c
    <2>5. Alike(c, d) /\ d.a = c.a /\ d.named = c.named /\ d.m = c.m /\ ~d.go
      BY <2>4, GoStop
    <2>6. Resolve(s) = d
      BY <1>5, <1>d DEF c, b, a
    <2> HIDE DEF d
    <2> QED BY <1>1, <1>5, <2>2, <2>3, <2>4, <2>5, <2>6 DEF Alike, SameRx, SameAim
  <1>6. s.m.req \in {"none", "pending", "ok", "failed"}
    BY Parts
  <1> QED BY <1>2, <1>3, <1>4, <1>5, <1>6

(* Once the request is resolved the machine claims the carrier it asked    *)
(* for, or nothing new.                                                    *)
LEMMA ResolveKeeps ==
    ASSUME NEW s, s \in State, OwnInv(s) \/ s.m.req = "ok"
    PROVE  /\ Sound(Resolve(s)) /\ (StillInv(s) => StillInv(Resolve(s)))
           /\ OwnInv(s) => Keeps(s, Resolve(s))
           /\ Resolve(s).go => Resolve(s).m.req = "none"
           /\ OwnInv(s) /\ Hears(s) => Hears(Resolve(s))
  <1> DEFINE t == Resolve(s)
  <1>1. /\ t \in State /\ t.a = s.a /\ t.hw = s.hw /\ t.center = s.center /\ t.failed = s.failed
        /\ t.named = s.named /\ t.m.cc = s.m.cc /\ t.m.probe = s.m.probe /\ t.m.sup = s.m.sup /\ t.m.hunt = s.m.hunt /\ t.m.conf = s.m.conf
        /\ t.m.st \in {s.m.st, "hunting"}
    BY ResolveEffect
  <1>2. \/ t.m.req = s.m.req /\ t.live = s.live /\ t.m.rxf = s.m.rxf /\ t.m.cur = s.m.cur
           /\ (t.go => s.m.req = "none") /\ s.m.req # "ok" /\ t.m.st = s.m.st
        \/ t.m.req = "none" /\ LetGo(s.live, t.live) /\ s.m.req = "ok" /\ t.m.rxf = s.m.probe /\ t.m.cur
           /\ t.m.st = s.m.st
        \/ t.m.req = "none" /\ LetGo(s.live, t.live) /\ s.m.req # "ok" /\ t.m.rxf = s.m.rxf /\ t.m.cur = s.m.cur /\ ~t.go
    BY ResolveEffect
  <1> HIDE DEF t
  <1>3. CASE /\ t.m.req = s.m.req /\ t.live = s.live /\ t.m.rxf = s.m.rxf /\ t.m.cur = s.m.cur
             /\ (t.go => s.m.req = "none") /\ s.m.req # "ok" /\ t.m.st = s.m.st
             /\ OwnInv(s)
    <2>1. Alike(s, t)
      BY <1>1, <1>3 DEF Alike, Calm, SameRx, SameAim, SameGoal
    <2>2. Keeps(s, t)
      BY <1>3, <2>1, AlikeKeeps DEF Sound
    <2>3. Hears(s) => Hears(t)
      BY <2>1, AlikeHears DEF Alike
    <2> QED BY <1>3, <2>2, <2>3 DEF Keeps, t
  <1>4. CASE /\ t.m.req = "none" /\ LetGo(s.live, t.live) /\ s.m.req = "ok" /\ t.m.rxf = s.m.probe /\ t.m.cur
             /\ t.m.st = s.m.st
    <2>1. Sound(t)
      BY <1>1, <1>4 DEF Sound, OwnInv, LetGo
    <2>2. HasMove(t) <=> HasMove(s)
      BY <1>4 DEF HasMove, LetGo
    <2>q. Len(s.live) \in Nat
      BY Queue
    <2>3. CenterInv(s) => CenterInv(t)
      <3>1. Len(s.live) > 0 => t.live[Len(t.live)].f = s.live[Len(s.live)].f
        BY <2>q, <1>4 DEF LetGo
      <3> QED BY <3>1, <1>1, <1>4 DEF CenterInv, LetGo
    <2>4. MoveInv(s) => MoveInv(t)
      BY <1>4, <2>2 DEF MoveInv, LetGo
    <2>5. ProbeInv(t)
      BY <1>4 DEF ProbeInv, LetGo
    <2>6. ProbeInv(s) => WhereInv(t)
      BY <1>1, <1>4 DEF WhereInv, ProbeInv, LetGo
    <2>7. RestInv(s) => RestInv(t)
      BY <1>1, <1>4 DEF RestInv
    <2>8. NamedInv(s) => NamedInv(t)
      BY <1>1 DEF NamedInv
    <2>9. OwnInv(s) /\ Hears(s) => Hears(t)
      <3> SUFFICES ASSUME OwnInv(s), Hears(s)
                   PROVE  Hears(t)
        OBVIOUS
      <3>1. \A i \in 1 .. Len(s.live) : s.live[i].tag # "own"
        BY <1>4 DEF OwnInv
      <3>2. DOMAIN s.live = 1 .. Len(s.live) /\ DOMAIN t.live = 1 .. Len(t.live) /\ Len(t.live) = Len(s.live)
        BY <1>1, <1>4, Queue DEF LetGo
      <3>3. Settled(s) => Settled(t)
        BY <3>2, <1>1, <1>4 DEF Settled, LetGo
      <3> QED BY <2>2, <3>3 DEF Hears
    <2>10. StillInv(s) => StillInv(t)
      BY <1>1, <1>4 DEF StillInv
    <2>11. Keeps(s, t)
      BY <2>1, <2>3, <2>4, <2>5, <2>6, <2>7, <2>8, <2>10 DEF Keeps, Right, LinkInv
    <2> QED BY <1>4, <2>1, <2>9, <2>10, <2>11 DEF t
  <1>5. CASE /\ t.m.req = "none" /\ LetGo(s.live, t.live) /\ s.m.req # "ok" /\ t.m.rxf = s.m.rxf /\ t.m.cur = s.m.cur
             /\ ~t.go
    <2>1. OwnInv(s) /\ Sound(s)
      BY <1>5 DEF Sound
    <2>2. Calm(s, t) /\ SameGoal(s, t)
      BY <1>1 DEF Calm, SameGoal
    <2>3. Keeps(s, t)
      BY <1>1, <1>5, <2>1, <2>2, FreedKeeps
    <2>4. Hears(s) => Hears(t)
      <3>1. HasMove(t) <=> HasMove(s)
        BY <1>5 DEF HasMove, LetGo
      <3>2. DOMAIN s.live = 1 .. Len(s.live) /\ DOMAIN t.live = 1 .. Len(t.live) /\ Len(t.live) = Len(s.live)
        BY <1>1, <1>5, Queue DEF LetGo
      <3>3. Settled(s) => Settled(t)
        BY <3>2, <1>1, <1>5 DEF Settled, LetGo
      <3> QED BY <3>1, <3>3 DEF Hears
    <2> QED BY <1>5, <2>3, <2>4 DEF Keeps, t
  <1> QED BY <1>2, <1>3, <1>4, <1>5

-----------------------------------------------------------------------------
(* Tunes.                                                                  *)

(* A tune is done in its call, or left with the backend.                   *)
Done(s, t, f) ==
    /\ Len(s.live) = 0 /\ t.live = s.live /\ t.hw = f /\ t.center = f /\ ~t.failed /\ ~t.m.cur

Left(s, t, f, tag) ==
    /\ t.hw = s.hw /\ t.failed = s.failed /\ t.m.cur = s.m.cur /\ t.center = f
    /\ Len(t.live) = Len(s.live) + 1
    /\ t.live[Len(t.live)].f = f /\ t.live[Len(t.live)].tag = tag
    /\ \A i \in 1 .. Len(s.live) :
          /\ t.live[i].f = s.live[i].f /\ (t.live[i].tag = "move" <=> s.live[i].tag = "move")
          /\ t.live[i].tag = "own" <=> s.live[i].tag = "own" /\ tag # "own"

(* What a tune leaves alone.                                               *)
SameMachine(s, t) ==
    /\ t.m.st = s.m.st /\ t.m.cc = s.m.cc /\ t.m.probe = s.m.probe /\ t.m.rxf = s.m.rxf
    /\ t.m.sup = s.m.sup /\ t.m.hunt = s.m.hunt /\ t.m.conf = s.m.conf
    /\ t.a = s.a /\ t.named = s.named

(* A tune through the hooks.                                               *)
LEMMA TuneEffect ==
    ASSUME NEW s \in State, NEW f \in Freqs, NEW tag \in {"own", "loose"}, NEW t \in Tune(s, f, tag)
    PROVE  /\ t \in State /\ SameMachine(s, t)
           /\ \/ t = Stop(s) /\ ~t.go
              \/ t.go /\ Done(s, t, f) /\ t.m.req = (IF tag = "own" THEN "ok" ELSE s.m.req)
              \/ t.go /\ Left(s, t, f, tag) /\ t.m.req = (IF tag = "own" THEN "pending" ELSE s.m.req)
  <1> DEFINE r == IF tag = "own" THEN "ok" ELSE s.m.req
             d == [s EXCEPT !.hw = f, !.center = f, !.failed = FALSE, !.m.cur = FALSE, !.m.req = r]
             l == IF tag = "own" THEN [Loosen(s) EXCEPT !.m.req = "pending"] ELSE s
             w == [l EXCEPT !.center = f, !.live = Append(@, [f |-> f, tag |-> tag])]
  <1>0. s.m.req \in {"none", "pending", "ok", "failed"} /\ (Len(s.live) = 0 <=> s.live = <<>>)
    BY Parts, Queue
  <1>1. \/ t = Stop(s)
        \/ s.live = <<>> /\ t = Go(d)
        \/ t = Go(w)
    <2>1. [s EXCEPT !.hw = f, !.center = f, !.failed = FALSE, !.m.cur = FALSE, !.m.req = IF tag = "own" THEN "ok" ELSE @] = d
      BY DEF State, Machine
    <2>2. \/ t = Stop(s)
          \/ /\ s.live = <<>>
             /\ t = Go([s EXCEPT !.hw = f, !.center = f, !.failed = FALSE, !.m.cur = FALSE,
                                 !.m.req = IF tag = "own" THEN "ok" ELSE @])
          \/ t = Go(w)
      BY Zenon DEF Tune
    <2> QED BY <2>1, <2>2
  <1>2. CASE t = Stop(s)
    BY <1>2, GoStop DEF Alike, SameAim, SameMachine
  <1>3. CASE s.live = <<>> /\ t = Go(d)
    <2>1. /\ d \in State /\ d.hw = f /\ d.center = f /\ ~d.failed /\ d.live = s.live /\ d.a = s.a /\ d.named = s.named
          /\ d.m.req = r /\ ~d.m.cur
      BY <1>0 DEF State, Machine
    <2>2. /\ d.m.st = s.m.st /\ d.m.cc = s.m.cc /\ d.m.probe = s.m.probe /\ d.m.rxf = s.m.rxf
          /\ d.m.sup = s.m.sup /\ d.m.hunt = s.m.hunt /\ d.m.conf = s.m.conf
      BY DEF State, Machine
    <2> HIDE DEF d, r
    <2>3. Alike(d, t) /\ t.go /\ t.m = d.m /\ t.a = d.a /\ t.named = d.named
      BY <2>1, <1>3, GoStop
    <2>4. Done(s, t, f)
      BY <1>0, <1>3, <2>1, <2>3 DEF Done, Alike, SameRx
    <2> QED BY <2>1, <2>2, <2>3, <2>4 DEF r, SameMachine, Alike
  <1>4. CASE t = Go(w)
    <2>1. /\ l \in State /\ l.hw = s.hw /\ l.failed = s.failed /\ l.a = s.a /\ l.named = s.named
          /\ l.m.cur = s.m.cur /\ l.m.st = s.m.st /\ l.m.cc = s.m.cc /\ l.m.probe = s.m.probe /\ l.m.rxf = s.m.rxf
          /\ l.m.sup = s.m.sup /\ l.m.hunt = s.m.hunt /\ l.m.conf = s.m.conf
          /\ l.m.req = (IF tag = "own" THEN "pending" ELSE s.m.req)
          /\ Len(l.live) = Len(s.live)
          /\ \A i \in 1 .. Len(s.live) :
                /\ l.live[i].f = s.live[i].f /\ (l.live[i].tag = "move" <=> s.live[i].tag = "move")
                /\ l.live[i].tag = "own" <=> s.live[i].tag = "own" /\ tag # "own"
      <3>1. CASE tag = "own"
        <4> DEFINE v == Loosen(s)
        <4>1. /\ v \in State /\ v.a = s.a /\ v.hw = s.hw /\ v.failed = s.failed /\ v.named = s.named
              /\ LetGo(s.live, v.live) /\ v.m.st = s.m.st /\ v.m.cc = s.m.cc /\ v.m.probe = s.m.probe
              /\ v.m.rxf = s.m.rxf /\ v.m.cur = s.m.cur /\ v.m.sup = s.m.sup /\ v.m.hunt = s.m.hunt /\ v.m.conf = s.m.conf
          BY LoosenEffect
        <4>2. l = [v EXCEPT !.m.req = "pending"]
          BY <3>1
        <4> HIDE DEF v, l
        <4>3. /\ l \in State /\ l.hw = v.hw /\ l.failed = v.failed /\ l.a = v.a /\ l.named = v.named /\ l.live = v.live
              /\ l.m.cur = v.m.cur /\ l.m.st = v.m.st /\ l.m.cc = v.m.cc /\ l.m.probe = v.m.probe /\ l.m.rxf = v.m.rxf
              /\ l.m.sup = v.m.sup /\ l.m.hunt = v.m.hunt /\ l.m.conf = v.m.conf /\ l.m.req = "pending"
          BY <4>1, <4>2 DEF State, Machine
        <4> QED BY <3>1, <4>1, <4>3 DEF LetGo
      <3>2. CASE tag # "own"
        BY <3>2
      <3> QED BY <3>1, <3>2
    <2> HIDE DEF l
    <2> DEFINE q == Append(l.live, [f |-> f, tag |-> tag])
    <2>2. l.live \in Seq(Entry)
      BY <2>1, Parts
    <2>3. /\ q \in Seq(Entry) /\ Len(q) = Len(l.live) + 1 /\ Len(l.live) \in Nat
          /\ q[Len(q)].f = f /\ q[Len(q)].tag = tag
          /\ \A i \in 1 .. Len(l.live) : q[i] = l.live[i]
      <3> DEFINE e == [f |-> f, tag |-> tag]
      <3>1. e \in Entry /\ e.f = f /\ e.tag = tag /\ q = Append(l.live, e)
        BY DEF Entry
      <3> HIDE DEF e, q
      <3>2. q \in Seq(Entry) /\ Len(q) = Len(l.live) + 1 /\ Len(l.live) \in Nat
        BY <2>2, <3>1
      <3>3. q[Len(l.live) + 1] = e /\ \A i \in 1 .. Len(l.live) : q[i] = l.live[i]
        BY <2>2, <3>1
      <3> QED BY <3>1, <3>2, <3>3
    <2> HIDE DEF q
    <2>4. w = [l EXCEPT !.center = f, !.live = q]
      BY <2>1 DEF q, State
    <2> HIDE DEF w
    <2>5. /\ w \in State /\ w.hw = l.hw /\ w.center = f /\ w.failed = l.failed /\ w.m = l.m /\ w.a = l.a /\ w.named = l.named
          /\ w.live = q
      BY <2>1, <2>3, <2>4 DEF State
    <2>6. Alike(w, t) /\ t.go /\ t.m = w.m /\ t.a = w.a /\ t.named = w.named
      BY <2>5, <1>4, GoStop
    <2>7. Left(s, t, f, tag)
      BY <2>1, <2>3, <2>5, <2>6 DEF Left, Alike, SameRx
    <2> QED BY <2>1, <2>5, <2>6, <2>7 DEF SameMachine, Alike
  <1> QED BY <1>1, <1>2, <1>3, <1>4

(* w is what a handler makes of an accepted tune to the carrier it probes. *)
Aimed(t, w, f) ==
    /\ w \in State /\ SameRx(t, w) /\ w.m.req = t.m.req /\ w.m.probe = f /\ w.m.rxf \in {t.m.rxf, 0}
    /\ w.m.cur => t.m.cur

(* A tracked tune that was accepted is the newest request, or was done.    *)
LEMMA OwnTuned ==
    ASSUME NEW s, NEW f \in Freqs, NEW t \in Tune(s, f, "own"), NEW w, Sound(s), t.go, Aimed(t, w, f)
    PROVE  Sound(w) /\ (LinkInv(s) => LinkInv(w))
  <1>1. t \in State /\ SameMachine(s, t) /\ s \in State /\ w \in State
    BY TuneEffect DEF Sound, Aimed
  <1>2. \/ Done(s, t, f) /\ t.m.req = "ok"
        \/ Left(s, t, f, "own") /\ t.m.req = "pending"
    BY <1>1, TuneEffect
  <1>q. Len(s.live) \in Nat /\ Len(t.live) \in Nat
    BY <1>1, Queue
  <1>3. CASE Done(s, t, f) /\ t.m.req = "ok"
    <2>1. Len(w.live) = 0 /\ w.hw = f /\ w.center = f /\ ~w.failed /\ ~w.m.cur /\ w.m.req = "ok" /\ w.m.probe = f
      BY <1>3 DEF Done, Aimed, SameRx
    <2>2. OwnInv(w)
      BY <2>1 DEF OwnInv
    <2>3. LinkInv(w)
      BY <2>1 DEF LinkInv, CenterInv, MoveInv, ProbeInv, WhereInv, HasMove
    <2> QED BY <1>1, <2>2, <2>3 DEF Sound
  <1>4. CASE Left(s, t, f, "own") /\ t.m.req = "pending"
    <2> DEFINE n == Len(w.live)
    <2>1. /\ n = Len(s.live) + 1 /\ w.live[n].f = f /\ w.live[n].tag = "own" /\ w.center = f /\ w.hw = s.hw
          /\ w.m.req = "pending" /\ w.m.probe = f
          /\ \A i \in 1 .. Len(s.live) : /\ w.live[i].tag = "move" <=> s.live[i].tag = "move"
                                         /\ w.live[i].tag # "own"
      BY <1>4 DEF Left, Aimed, SameRx
    <2>2. OwnInv(w)
      BY <2>1, <1>q DEF OwnInv
    <2>3. HasMove(w) => HasMove(s)
      <3> SUFFICES ASSUME NEW i \in 1 .. n, w.live[i].tag = "move"
                   PROVE  HasMove(s)
        BY DEF HasMove
      <3>1. i \in 1 .. Len(s.live)
        BY <2>1, <1>q
      <3> QED BY <2>1, <3>1 DEF HasMove
    <2>4. CenterInv(w) /\ WhereInv(w) /\ ProbeInv(w)
      BY <2>1, <1>q DEF CenterInv, WhereInv, ProbeInv
    <2>5. MoveInv(s) => MoveInv(w)
      <3> SUFFICES ASSUME MoveInv(s)
                   PROVE  MoveInv(w)
        OBVIOUS
      <3>1. HasMove(w) => w.m.rxf = 0 /\ (w.m.req = "ok" => w.m.probe = 0)
        BY <2>1, <2>3, <1>1 DEF MoveInv, Aimed, SameMachine
      <3>2. \A j, k \in 1 .. n : w.live[j].tag = "own" /\ w.live[k].tag = "move" /\ k > j => w.m.probe = 0
        BY <2>1, <1>q
      <3> QED BY <3>1, <3>2 DEF MoveInv
    <2> QED BY <1>1, <2>2, <2>4, <2>5 DEF Sound, LinkInv
  <1> QED BY <1>2, <1>3, <1>4

(* An untracked tune that was accepted, to a voice channel.                *)
LEMMA LooseTuned ==
    ASSUME NEW s, NEW f \in Freqs, NEW t \in Tune(s, f, "loose"), NEW w, Sound(s), t.go,
           w \in State, SameRx(t, w), SameAim(t, w), w.a.tuned
    PROVE  Sound(w) /\ (LinkInv(s) => LinkInv(w))
  <1>1. t \in State /\ SameMachine(s, t) /\ s \in State /\ w \in State
    BY TuneEffect DEF Sound
  <1>2. Done(s, t, f) \/ Left(s, t, f, "loose")
    BY <1>1, TuneEffect
  <1>3. w.m.req = s.m.req /\ w.m.probe = s.m.probe /\ w.m.rxf = s.m.rxf
    BY <1>1, TuneEffect DEF SameAim, SameMachine
  <1>q. Len(s.live) \in Nat /\ Len(t.live) \in Nat
    BY <1>1, Queue
  <1>4. CASE Done(s, t, f)
    <2>1. Len(w.live) = 0 /\ w.live = s.live /\ w.hw = f /\ w.center = f /\ ~w.failed
      BY <1>4 DEF Done, SameRx
    <2>2. OwnInv(w)
      BY <2>1, <1>3 DEF OwnInv, Sound
    <2>3. LinkInv(w)
      BY <2>1 DEF LinkInv, CenterInv, MoveInv, ProbeInv, WhereInv, HasMove
    <2> QED BY <1>1, <2>2, <2>3 DEF Sound
  <1>5. CASE Left(s, t, f, "loose")
    <2> DEFINE n == Len(w.live)
    <2>1. /\ n = Len(s.live) + 1 /\ w.live[n].f = f /\ w.live[n].tag = "loose" /\ w.center = f
          /\ \A i \in 1 .. Len(s.live) : /\ w.live[i].f = s.live[i].f
                                         /\ w.live[i].tag = "move" <=> s.live[i].tag = "move"
                                         /\ w.live[i].tag = "own" <=> s.live[i].tag = "own"
      BY <1>5 DEF Left, SameRx
    <2>2. \A i \in 1 .. n : i = n \/ i \in 1 .. Len(s.live)
      BY <2>1, <1>q
    <2>3. \A i \in 1 .. Len(s.live) : i \in 1 .. n
      BY <2>1, <1>q
    <2>4. OwnInv(w)
      BY <2>1, <2>2, <2>3, <1>3 DEF OwnInv, Sound
    <2>5. CenterInv(w) /\ WhereInv(w)
      BY <2>1, <1>q DEF CenterInv, WhereInv
    <2>6. MoveInv(s) => MoveInv(w)
      <3> SUFFICES ASSUME MoveInv(s)
                   PROVE  MoveInv(w)
        OBVIOUS
      <3>1. HasMove(w) => HasMove(s)
        BY <2>1, <2>2 DEF HasMove
      <3>2. \A j, k \in 1 .. n : w.live[j].tag = "own" /\ w.live[k].tag = "move" /\ k > j => w.m.probe = 0
        BY <2>1, <2>2, <1>3 DEF MoveInv
      <3> QED BY <1>3, <3>1, <3>2 DEF MoveInv
    <2>7. ProbeInv(s) => ProbeInv(w)
      BY <2>1, <2>2, <1>3 DEF ProbeInv
    <2> QED BY <1>1, <2>4, <2>5, <2>6, <2>7 DEF Sound, LinkInv
  <1> QED BY <1>2, <1>4, <1>5

-----------------------------------------------------------------------------
(* The return to a control channel.                                        *)

(* The machine as dmr_sm_begin_cc_acquisition() starts it over.            *)
Begun(s, f) ==
    [s EXCEPT !.m = [Blank EXCEPT !.xpt = s.m.xpt, !.cc = f, !.probe = f, !.acq = TRUE, !.req = s.m.req,
                                  !.st = "cc", !.t = [@ EXCEPT !["aw"] = "running", !["dl"] = "running",
                                                               !["sw"] = "running"]]]

(* dmr_sm_init_ctx()                                                       *)
LEMMA BlankTyped == Blank \in Machine
  BY DEF Blank, Machine, Places, Rows, Period, Timers

(* dmr_sm_begin_cc_acquisition(), up to the tune's result                  *)
LEMMA BegunEffect ==
    ASSUME NEW s \in State, NEW f \in Freqs
    PROVE  LET w == Begun(s, f)
           IN  /\ BeginAcquisition(s, f) = Resolve(w)
               /\ w \in State /\ SameRx(s, w) /\ w.a = s.a /\ w.named = s.named
               /\ w.m.st = "cc" /\ w.m.cc = f /\ w.m.probe = f /\ w.m.rxf = 0 /\ ~w.m.cur /\ w.m.req = s.m.req
               /\ ~w.m.sup /\ ~w.m.hunt /\ StillInv(w)
  <1> DEFINE n == [Blank EXCEPT !.xpt = s.m.xpt, !.cc = f, !.probe = f, !.acq = TRUE, !.req = s.m.req,
                                  !.st = "cc", !.t = [@ EXCEPT !["aw"] = "running", !["dl"] = "running",
                                                               !["sw"] = "running"]]
  <1>1. s.m.xpt \in BOOLEAN /\ s.m.req \in {"none", "pending", "ok", "failed"} /\ f \in Places
    BY Parts DEF Places
  <1>2. n \in Machine
    BY <1>1, BlankTyped DEF Machine, Timers, Period
  <1>3. /\ n.st = "cc" /\ n.cc = f /\ n.probe = f /\ n.rxf = 0 /\ ~n.cur /\ n.req = s.m.req /\ ~n.sup /\ ~n.hunt
    BY DEF Blank
  <1> HIDE DEF n
  <1>4. Begun(s, f) = [s EXCEPT !.m = n]
    BY DEF Begun, n
  <1>5. LET w == [s EXCEPT !.m = n]
        IN w \in State /\ SameRx(s, w) /\ w.a = s.a /\ w.named = s.named /\ w.m = n
    BY <1>2 DEF State, SameRx
  <1>6. BeginAcquisition(s, f) = Resolve(Begun(s, f))
    BY DEF BeginAcquisition, Begun
  <1> QED BY <1>3, <1>4, <1>5, <1>6 DEF StillInv

(* dmr_sm_begin_cc_acquisition() after a tracked tune that was accepted    *)
LEMMA BeginKeeps ==
    ASSUME NEW s, Sound(s), NEW f \in Freqs, NEW u \in Tune(s, f, "own"), u.go, NEW v, v \in State, SameRx(u, v),
           v.m.req = u.m.req, ~v.a.tuned
    PROVE  LET t == BeginAcquisition(v, f)
           IN  /\ Sound(t) /\ StillInv(t) /\ t.a = v.a
               /\ trunk /\ LinkInv(s) /\ NamedInv(v) /\ (~Loops => f \in v.named) => Right(t)
  <1> DEFINE w == Begun(v, f)
  <1>1. /\ BeginAcquisition(v, f) = Resolve(w)
        /\ w \in State /\ SameRx(v, w) /\ w.a = v.a /\ w.named = v.named
        /\ w.m.st = "cc" /\ w.m.cc = f /\ w.m.probe = f /\ w.m.rxf = 0 /\ ~w.m.cur /\ w.m.req = v.m.req
        /\ ~w.m.sup /\ ~w.m.hunt /\ StillInv(w)
    BY BegunEffect
  <1> HIDE DEF w
  <1>2. Aimed(u, w, f)
    BY <1>1 DEF Aimed, SameRx
  <1>3. Sound(w) /\ (LinkInv(s) => LinkInv(w))
    BY <1>2, OwnTuned
  <1>4. RestInv(w)
    BY <1>1 DEF RestInv
  <1>5. NamedInv(v) /\ (~Loops => f \in v.named) => NamedInv(w)
    BY <1>1 DEF NamedInv
  <1>6. Sound(Resolve(w)) /\ Resolve(w).a = w.a
    BY <1>3, ResolveKeeps, ResolveEffect DEF Sound
  <1>7. Keeps(w, Resolve(w))
    BY <1>3, ResolveKeeps DEF Sound
  <1> QED BY <1>1, <1>3, <1>4, <1>5, <1>6, <1>7 DEF Right, Keeps

(* dmr_sm_return_to_cc()                                                   *)
LEMMA ReturnKeeps ==
    ASSUME NEW s, Sound(s), NEW f \in Freqs, NEW t \in ReturnToCc(s, f), trunk \in BOOLEAN
    PROVE  /\ Sound(t) /\ (StillInv(s) => StillInv(t))
           /\ t.go => ~t.a.tuned /\ t.a.alias = f
           /\ trunk /\ Right(s) /\ (~Loops => f \in s.named) => Right(t)
  <1> DEFINE T == IF trunk THEN Tune(s, f, "own") ELSE {Go([s EXCEPT !.m.req = "ok", !.m.cur = FALSE, !.failed = FALSE])}
             V(u) == [u EXCEPT !.a.alias = f, !.a.tuned = FALSE]
  <1>0. s \in State /\ f \in Places
    BY DEF Sound, Places
  <1>1. PICK u \in T : t = IF ~u.go THEN Stop(s) ELSE Go(BeginAcquisition(V(u), f))
    BY Zenon DEF ReturnToCc
  <1>2. CASE ~u.go
    <2>1. t = Stop(s)
      BY <1>1, <1>2
    <2>2. Alike(s, t) /\ ~t.go
      BY <1>0, <2>1, GoStop
    <2> QED BY <2>2, AlikeKeeps DEF Keeps
  <1>3. CASE u.go
    <2> DEFINE v == V(u)
               b == BeginAcquisition(v, f)
    <2>1. t = Go(b)
      BY <1>1, <1>3
    <2>2. u \in State
      <3>1. CASE trunk
        BY <3>1, <1>0, TuneEffect
      <3>2. CASE ~trunk
        <4> DEFINE x == [s EXCEPT !.m.req = "ok", !.m.cur = FALSE, !.failed = FALSE]
        <4>1. x \in State
          BY <1>0 DEF State, Machine
        <4>2. u = Go(x)
          BY <3>2
        <4> HIDE DEF x
        <4> QED BY <4>1, <4>2, GoStop DEF Alike
      <3> QED BY <3>1, <3>2
    <2>3. /\ v \in State /\ SameRx(u, v) /\ v.m = u.m /\ ~v.a.tuned /\ v.a.alias = f /\ v.a.rest = u.a.rest
          /\ v.named = u.named
      BY <1>0, <2>2 DEF State, Shared, SameRx
    <2> HIDE DEF v
    <2>4. CASE trunk
      <3>1. u \in Tune(s, f, "own") /\ SameMachine(s, u)
        BY <2>4, <1>0, TuneEffect
      <3>2. /\ Sound(b) /\ StillInv(b) /\ b.a = v.a
            /\ trunk /\ LinkInv(s) /\ NamedInv(v) /\ (~Loops => f \in v.named) => Right(b)
        BY <1>3, <2>3, <3>1, BeginKeeps
      <3>3. v.named = s.named /\ v.m.cc = s.m.cc /\ v.a.rest = s.a.rest
        BY <2>3, <3>1 DEF SameMachine
      <3>4. NamedInv(s) /\ (~Loops => f \in s.named) => NamedInv(v)
        BY <2>3, <3>3 DEF NamedInv
      <3> HIDE DEF b
      <3>5. Alike(b, t) /\ t.a = b.a
        BY <3>2, <2>1, GoStop DEF Sound
      <3>6. Keeps(b, t)
        BY <3>2, <3>5, AlikeKeeps
      <3> QED BY <2>3, <3>2, <3>3, <3>4, <3>5, <3>6 DEF Keeps, Right
    <2>5. CASE ~trunk
      <3> DEFINE x == [s EXCEPT !.m.req = "ok", !.m.cur = FALSE, !.failed = FALSE]
                 w == Begun(v, f)
      <3>1. x \in State /\ x.m.req = "ok" /\ u = Go(x)
        BY <1>0, <2>5 DEF State, Machine
      <3>2. u.m.req = "ok"
        <4> HIDE DEF x
        <4> QED BY <3>1, GoStop
      <3>3. b = Resolve(w) /\ w \in State /\ w.m.req = v.m.req /\ w.a = v.a /\ StillInv(w)
        BY <2>3, BegunEffect
      <3> HIDE DEF w
      <3>4. Sound(Resolve(w)) /\ Resolve(w).a = w.a /\ StillInv(Resolve(w))
        BY <2>3, <3>2, <3>3, ResolveKeeps, ResolveEffect
      <3> HIDE DEF b
      <3>5. Alike(b, t) /\ t.a = b.a /\ Sound(b)
        BY <3>3, <3>4, <2>1, GoStop DEF Sound
      <3>6. Keeps(b, t)
        BY <3>5, AlikeKeeps
      <3> QED BY <2>3, <2>5, <3>3, <3>4, <3>5, <3>6 DEF Keeps
    <2> QED BY <2>4, <2>5
  <1>4. u.go \in BOOLEAN
    <2>1. CASE trunk
      BY <2>1, <1>0, TuneEffect, Parts
    <2>2. CASE ~trunk
      <3> DEFINE x == [s EXCEPT !.m.req = "ok", !.m.cur = FALSE, !.failed = FALSE]
      <3>1. x \in State /\ u = Go(x)
        BY <1>0, <2>2 DEF State, Machine
      <3> HIDE DEF x
      <3> QED BY <3>1, GoStop
    <2> QED BY <2>1, <2>2
  <1> QED BY <1>2, <1>3, <1>4

-----------------------------------------------------------------------------
(* Control heard.                                                          *)

(* dmr_cc_current_frequency(): where the receiver is, once it has settled  *)
LEMMA CurrentIs ==
    ASSUME NEW s \in State
    PROVE  /\ Current(s) \in Freqs
           /\ LinkInv(s) /\ ~s.a.tuned /\ Len(s.live) = 0 /\ ~s.failed => Current(s) = s.hw
  <1>1. s.m.rxf \in Freqs \cup {0} /\ s.center \in Freqs /\ s.hw \in Freqs
    BY Parts DEF Places
  <1>2. s.m.rxf > 0 => s.m.rxf \in Freqs /\ s.m.rxf # 0
    BY <1>1
  <1>3. CASE s.m.rxf > 0 /\ s.m.cur
    <2>1. Current(s) = s.m.rxf
      BY <1>3 DEF Current
    <2> QED BY <1>2, <1>3, <2>1 DEF LinkInv, WhereInv
  <1>4. CASE ~(s.m.rxf > 0 /\ s.m.cur)
    <2>1. Current(s) = s.center
      BY <1>4 DEF Current
    <2> QED BY <1>1, <2>1 DEF LinkInv, CenterInv
  <1> QED BY <1>3, <1>4

(* Outside a voice loop a burst is heard where nothing is left to do.      *)
LEMMA HearsSettled ==
    ASSUME NEW s \in State, Hears(s), ~Loops
    PROVE  Len(s.live) = 0 /\ ~s.failed
  <1>1. Settled(s) /\ DOMAIN s.live = 1 .. Len(s.live) /\ Len(s.live) \in Nat
    BY Queue DEF Hears
  <1>2. \A i \in 1 .. Len(s.live) : FALSE
    BY <1>1 DEF Settled, Hears, HasMove
  <1>3. Len(s.live) > 0 => 1 \in 1 .. Len(s.live)
    BY <1>1
  <1> QED BY <1>1, <1>2, <1>3 DEF Settled

(* The cold hunt is over.                                                  *)
LEMMA ColdClearAlike ==
    ASSUME NEW s \in State
    PROVE  LET t == ColdClear(s)
           IN  /\ Alike(s, t) /\ t.a = s.a /\ t.named = s.named /\ t.go = s.go /\ t.m.st = s.m.st
               /\ t.m.sup = s.m.sup /\ t.m.conf = s.m.conf /\ ~t.m.hunt
  <1>0. 0 \in 0 .. 2
    OBVIOUS
  <1> SUFFICES ASSUME NEW p \in 0 .. 2, NEW t, p = 0,
                      t = [s EXCEPT !.m.hunt = FALSE, !.m.park = p, !.m.t["armed"] = "off"]
               PROVE  /\ Alike(s, t) /\ t.a = s.a /\ t.named = s.named /\ t.go = s.go /\ t.m.st = s.m.st
                      /\ t.m.sup = s.m.sup /\ t.m.conf = s.m.conf /\ ~t.m.hunt
    BY <1>0 DEF ColdClear
  <1>1. t \in State
    BY DEF State, Machine, Timers, Period
  <1>2. /\ SameRx(s, t) /\ SameAim(s, t) /\ t.a = s.a /\ t.named = s.named /\ t.go = s.go /\ t.m.st = s.m.st
        /\ t.m.sup = s.m.sup /\ ~t.m.hunt /\ t.m.conf = s.m.conf
    BY DEF State, Machine, SameRx, SameAim
  <1> QED BY <1>1, <1>2 DEF Alike, Calm, SameGoal

(* dmr_cc_note_activity_ctx()                                              *)
LEMMA ActivityKeeps ==
    ASSUME NEW s, Sound(s), NEW f \in Places, s.m.req = "none"
    PROVE  LET t == NoteActivity(s, f)
           IN  /\ Sound(t) /\ SameRx(s, t) /\ t.m.req = "none" /\ t.a.tuned = s.a.tuned /\ t.a.rest = s.a.rest
               /\ s.a.alias # 0 => t.a.alias # 0
               /\ StillInv(s) => StillInv(t)
               /\ Right(s) /\ ~s.a.tuned /\ Hears(s) => Right(t)
  <1> DEFINE c == Current(s)
             k == ColdClear(s)
             x == [k EXCEPT !.m.cc = c, !.m.probe = c, !.m.rxf = c, !.m.cur = TRUE, !.m.conf = TRUE,
                            !.m.acq = FALSE, !.m.t["retry"] = "off", !.a.alias = c,
                            !.a.owner = "dmr", !.named = @ \cup {s.hw}]
             y == Start(x, "sw")
             z == SetState(y, "cc")
  <1>0. s \in State
    BY DEF Sound
  <1>1. NoteActivity(s, f) \in {s, z}
    BY Zenon DEF NoteActivity
  <1>2. CASE NoteActivity(s, f) = s
    BY <1>2 DEF SameRx
  <1>3. CASE NoteActivity(s, f) = z
    <2>1. c \in Freqs /\ c \in Places /\ c # 0 /\ s.hw \in Places
      BY <1>0, CurrentIs, Carriers, Parts
    <2>2. /\ k \in State /\ SameRx(s, k) /\ SameAim(s, k) /\ k.a = s.a /\ k.named = s.named /\ k.m.st = s.m.st
          /\ k.m.sup = s.m.sup /\ ~k.m.hunt
      BY <1>0, ColdClearAlike DEF Alike
    <2> HIDE DEF k, c
    <2>3. /\ x \in State /\ SameRx(k, x) /\ x.m.cc = c /\ x.m.probe = c /\ x.m.rxf = c /\ x.m.cur = TRUE
          /\ x.m.req = k.m.req /\ x.m.sup = k.m.sup /\ x.m.hunt = k.m.hunt /\ x.m.st = k.m.st
          /\ x.a.alias = c /\ x.a.tuned = k.a.tuned /\ x.a.rest = k.a.rest /\ x.named = k.named \cup {s.hw}
      <3> DEFINE n == [k.m EXCEPT !.cc = c, !.probe = c, !.rxf = c, !.cur = TRUE, !.conf = TRUE, !.acq = FALSE,
                                  !.t["retry"] = "off"]
                 v == [k EXCEPT !.m.cc = c, !.m.probe = c, !.m.rxf = c, !.m.cur = TRUE, !.m.conf = TRUE,
                                !.m.acq = FALSE, !.m.t["retry"] = "off"]
      <3>1. k.m \in Machine /\ k.a \in Shared /\ k.named \subseteq Places
        BY <2>2, Parts
      <3>2. n \in Machine
        BY <2>1, <3>1 DEF Machine, Timers, Period
      <3>3. /\ n.cc = c /\ n.probe = c /\ n.rxf = c /\ n.cur = TRUE /\ n.req = k.m.req /\ n.sup = k.m.sup
            /\ n.hunt = k.m.hunt /\ n.st = k.m.st
        BY <3>1 DEF Machine
      <3>4. v = [k EXCEPT !.m = n]
        <4>1. n = [k.m EXCEPT !.cc = c, !.probe = c, !.rxf = c, !.cur = TRUE, !.conf = TRUE, !.acq = FALSE,
                              !.t["retry"] = "off"]
          OBVIOUS
        <4> HIDE DEF n
        <4> QED BY <2>2, <4>1 DEF State, Machine
      <3>5. x = [v EXCEPT !.a.alias = c, !.a.owner = "dmr", !.named = @ \cup {s.hw}]
        OBVIOUS
      <3> HIDE DEF n, v, x
      <3>6. v \in State /\ SameRx(k, v) /\ v.m = n /\ v.a = k.a /\ v.named = k.named
        BY <2>2, <3>2, <3>4 DEF State, SameRx
      <3>7. /\ x \in State /\ SameRx(v, x) /\ x.m = v.m /\ x.named = v.named \cup {s.hw}
            /\ x.a.alias = c /\ x.a.tuned = v.a.tuned /\ x.a.rest = v.a.rest
        BY <2>1, <3>5, <3>6 DEF State, SameRx, Shared
      <3> QED BY <3>3, <3>6, <3>7 DEF SameRx
    <2> HIDE DEF x
    <2>4. Alike(x, y)
      BY <2>3, StartAlike, TimerNames
    <2> HIDE DEF y
    <2>5. Alike(y, z) /\ z.m.st = "cc"
      BY <2>4, SetStateAlike DEF Alike
    <2> HIDE DEF z
    <2>6. /\ z \in State /\ SameRx(s, z) /\ z.m.cc = c /\ z.m.probe = c /\ z.m.rxf = c /\ z.m.cur = TRUE
          /\ z.m.req = "none" /\ ~z.m.hunt /\ z.m.st = "cc"
          /\ z.a.alias = c /\ z.a.tuned = s.a.tuned /\ z.a.rest = s.a.rest /\ s.named \cup {s.hw} \subseteq z.named
      BY <2>2, <2>3, <2>4, <2>5 DEF Alike, Calm, SameRx, SameAim, SameGoal
    <2>7. OwnInv(z)
      BY <2>6 DEF OwnInv, Sound, SameRx
    <2>8. ASSUME Right(s), ~s.a.tuned, Hears(s)
          PROVE  Right(z)
      <3>0. ~HasMove(z) /\ \A i \in 1 .. Len(z.live) : z.live[i].tag # "own"
        BY <2>6, <2>7, <2>8 DEF Hears, HasMove, SameRx, OwnInv
      <3>1. CenterInv(z)
        BY <2>6, <2>8 DEF Right, LinkInv, CenterInv, SameRx
      <3>2. MoveInv(z) /\ ProbeInv(z)
        BY <2>6, <3>0 DEF MoveInv, ProbeInv
      <3>3. WhereInv(z)
        BY <1>0, <2>6, <2>8, CurrentIs DEF WhereInv, SameRx, c, Right
      <3>4. RestInv(z)
        BY <2>1, <2>6, <2>8 DEF RestInv
      <3>5. NamedInv(z)
        <4> SUFFICES ASSUME ~Loops
                     PROVE  NamedInv(z)
          BY DEF NamedInv
        <4>1. c = s.hw
          BY <1>0, <2>8, HearsSettled, CurrentIs DEF c, Right
        <4> QED BY <2>6, <2>8, <4>1 DEF NamedInv, Right
      <3> QED BY <3>1, <3>2, <3>3, <3>4, <3>5 DEF Right, LinkInv
    <2>9. StillInv(z)
      BY <2>6 DEF StillInv
    <2> QED BY <1>3, <2>1, <2>6, <2>7, <2>8, <2>9 DEF Sound
  <1> QED BY <1>1, <1>2, <1>3

(* dmr_sm_note_cc_activity()                                               *)
LEMMA NoteCcKeeps ==
    ASSUME NEW s, Sound(s), NEW f \in Places, trunk \in BOOLEAN, Hears(s)
    PROVE  LET t == NoteCc(s, f)
           IN  Keeps(s, t) /\ t.a.rest = s.a.rest
  <1> DEFINE r == Resolve(s)
             t == NoteCc(s, f)
             x == [s EXCEPT !.a.alias = s.center, !.named = @ \cup {s.hw}]
  <1>0. s \in State
    BY DEF Sound
  <1>1. Keeps(s, r) /\ Hears(r) /\ r.a = s.a /\ (r.go => r.m.req = "none")
    BY <1>0, ResolveKeeps, ResolveEffect DEF Sound
  <1>2. \/ t = s
        \/ ~trunk /\ t = x
        \/ ~s.a.tuned /\ r.go /\ t = NoteActivity(r, f)
        \/ t = r
    BY Zenon DEF NoteCc
  <1> HIDE DEF r
  <1>3. CASE t = s
    BY <1>3, KeepsSelf
  <1>4. CASE ~trunk /\ t = x
    <2>1. s.center \in Places /\ s.hw \in Places
      BY <1>0, Parts DEF Places
    <2>2. x \in State /\ SameRx(s, x) /\ x.m = s.m /\ x.a.rest = s.a.rest
      BY <1>0, <2>1 DEF State, Shared, SameRx
    <2> HIDE DEF x
    <2>3. Sound(x)
      BY <2>2 DEF Sound, OwnInv, SameRx
    <2> QED BY <1>4, <2>2, <2>3 DEF Keeps, StillInv
  <1>5. CASE ~s.a.tuned /\ r.go /\ t = NoteActivity(r, f)
    <2>1. Sound(r) /\ r.m.req = "none" /\ ~r.a.tuned
      BY <1>1, <1>5 DEF Keeps
    <2>2. Sound(t) /\ t.a.rest = r.a.rest /\ (StillInv(r) => StillInv(t))
          /\ (Right(r) /\ ~r.a.tuned /\ Hears(r) => Right(t))
      BY <1>5, <2>1, ActivityKeeps
    <2> QED BY <1>1, <2>1, <2>2 DEF Keeps
  <1>6. CASE t = r
    BY <1>1, <1>6
  <1> QED BY <1>2, <1>3, <1>4, <1>5, <1>6

(* dmr_sm_note_cc_heartbeat()                                              *)
LEMMA HeartbeatKeeps ==
    ASSUME NEW s, Sound(s)
    PROVE  LET t == Heartbeat(s)
           IN  Keeps(s, t) /\ t.a = s.a /\ t.named = s.named /\ t.hw = s.hw /\ (Hears(s) => Hears(t))
  <1> DEFINE r == Resolve(s)
             y == Start(r, "sw")
             z == SetState(y, "cc")
             t == Heartbeat(s)
  <1>0. s \in State
    BY DEF Sound
  <1>1. Keeps(s, r) /\ (Hears(s) => Hears(r)) /\ r.a = s.a /\ r.named = s.named /\ r.hw = s.hw
    BY <1>0, ResolveKeeps, ResolveEffect DEF Sound
  <1>2. t \in {s, r, z}
    BY Zenon DEF Heartbeat
  <1> HIDE DEF r
  <1>3. CASE t = s
    BY <1>3, KeepsSelf
  <1>4. CASE t = r
    BY <1>1, <1>4
  <1>5. CASE t = z
    <2>1. Alike(r, y) /\ y.a = r.a /\ y.named = r.named
      BY <1>1, StartAlike, TimerNames DEF Keeps, Sound
    <2> HIDE DEF y
    <2>2. Alike(y, z) /\ z.a = y.a /\ z.named = y.named
      BY <2>1, SetStateAlike DEF Alike
    <2> HIDE DEF z
    <2>3. Alike(r, z)
      BY <2>1, <2>2, AlikeThen
    <2>4. Keeps(r, z)
      BY <1>1, <2>3, AlikeKeeps DEF Keeps
    <2>5. Hears(r) => Hears(z)
      BY <2>3, AlikeHears DEF Alike
    <2>6. Keeps(s, z)
      BY <1>1, <2>4, KeepsThen
    <2> QED BY <1>1, <1>5, <2>1, <2>2, <2>3, <2>5, <2>6 DEF Alike, SameRx
  <1> QED BY <1>2, <1>3, <1>4, <1>5

(* The trunk is DMR's.                                                     *)
LEMMA OwnedAlike ==
    ASSUME NEW s \in State
    PROVE  LET t == [s EXCEPT !.a.owner = "dmr"]
           IN  /\ Alike(s, t) /\ t.m = s.m /\ t.a.alias = s.a.alias /\ t.a.tuned = s.a.tuned /\ t.a.rest = s.a.rest
               /\ t.named = s.named
  BY DEF Alike, Calm, SameRx, SameAim, SameGoal, State, Shared

(* dmr_cspdu()                                                             *)
LEMMA CsbkKeeps ==
    ASSUME NEW s, Sound(s), Hears(s)
    PROVE  LET t == Csbk(s)
           IN  Keeps(s, t) /\ t.a.rest = s.a.rest /\ Hears(t)
  <1> DEFINE o == [s EXCEPT !.a.owner = "dmr"]
             h == Heartbeat(o)
             x == [h EXCEPT !.a.alias = h.center, !.named = @ \cup {s.hw}]
             t == Csbk(s)
  <1>0. s \in State
    BY DEF Sound
  <1>1. Alike(s, o) /\ o.a.rest = s.a.rest
    BY <1>0, OwnedAlike
  <1>2. \/ t = h
        \/ trunk /\ ~h.a.tuned /\ h.a.alias = 0 /\ t = x
    BY Zenon DEF Csbk
  <1> HIDE DEF o
  <1>3. Keeps(s, o) /\ Hears(o) /\ o.hw = s.hw
    BY <1>1, AlikeKeeps, AlikeHears DEF Alike, SameRx
  <1>4. Keeps(o, h) /\ Hears(h) /\ h.a = o.a /\ h.hw = s.hw
    BY <1>3, HeartbeatKeeps DEF Keeps
  <1> HIDE DEF h
  <1>5. Keeps(s, h) /\ Sound(h) /\ h \in State
    BY <1>3, <1>4, KeepsThen DEF Keeps, Sound
  <1>6. CASE t = h
    BY <1>1, <1>4, <1>5, <1>6
  <1>7. CASE trunk /\ ~h.a.tuned /\ h.a.alias = 0 /\ t = x
    <2>1. h.center \in Places /\ h.center # 0 /\ s.hw \in Places
      BY <1>0, <1>5, Parts, Carriers
    <2>2. /\ x \in State /\ SameRx(h, x) /\ x.m = h.m /\ x.a.alias = h.center /\ x.a.tuned = h.a.tuned
          /\ x.a.rest = h.a.rest /\ x.named = h.named \cup {s.hw}
      BY <1>5, <2>1 DEF State, Shared, SameRx
    <2> HIDE DEF x
    <2>3. OwnInv(x) /\ (LinkInv(h) => LinkInv(x))
      BY <1>5, <2>2, AlikeLink DEF SameAim, Sound
    <2>4. Hears(x)
      BY <1>4, <2>2, AlikeHears
    <2>5. RestInv(h) => RestInv(x)
      BY <2>1, <2>2 DEF RestInv
    <2>6. Right(h) => NamedInv(x)
      <3> SUFFICES ASSUME Right(h), ~Loops
                   PROVE  NamedInv(x)
        BY DEF NamedInv
      <3>1. Len(h.live) = 0 /\ ~h.failed
        BY <1>4, <1>5, HearsSettled
      <3>2. h.center = s.hw
        BY <1>4, <3>1 DEF Right, LinkInv, CenterInv
      <3> QED BY <2>2, <3>2 DEF NamedInv, Right
    <2>7. Keeps(h, x)
      BY <2>2, <2>3, <2>5, <2>6 DEF Keeps, Right, Sound, StillInv
    <2>8. Keeps(s, x)
      BY <1>5, <2>7, KeepsThen
    <2> QED BY <1>1, <1>4, <1>7, <2>2, <2>4, <2>8
  <1> QED BY <1>2, <1>6, <1>7

-----------------------------------------------------------------------------
(* Release.                                                                *)

(* dmr_sm_clear_released_carrier()                                         *)
LEMMA ClearEffect ==
    ASSUME NEW s \in State, NEW returned \in BOOLEAN, NEW st \in {"cc", "hunting"}
    PROVE  LET t == ClearCarrier(s, returned, st)
           IN  /\ t \in State /\ t.m.st = st /\ ~t.a.tuned /\ t.a.alias = s.a.alias /\ t.a.rest = s.a.rest
               /\ t.m.cc = s.m.cc /\ t.m.probe = s.m.probe /\ t.m.rxf = s.m.rxf /\ t.m.cur = s.m.cur
               /\ t.m.sup = s.m.sup /\ t.m.hunt = s.m.hunt /\ (t.m.conf => s.m.conf) /\ t.named = s.named
               /\ t.hw = s.hw /\ t.center = s.center /\ t.failed = s.failed
               /\ returned => t.m.req = s.m.req /\ t.live = s.live
               /\ ~returned => t.m.req = "none" /\ LetGo(s.live, t.live)
  <1> DEFINE g == [k \in Timers |-> IF k \in {"tune", "voice", "rc"} THEN "off" ELSE s.m.t[k]]
             t == [s EXCEPT !.m.vc = 0, !.m.follow = FALSE, !.m.talk = FALSE, !.a.tuned = FALSE, !.m.t = g]
             l == Loosen(t)
             w == [l EXCEPT !.m.acq = FALSE, !.m.conf = FALSE]
             u == IF returned THEN t ELSE w
             z == SetState(u, st)
  <1>1. g \in [Timers -> Period]
    BY Parts DEF Period
  <1>2. [s EXCEPT !.m.vc = 0, !.m.follow = FALSE, !.m.talk = FALSE, !.a.tuned = FALSE,
                  !.m.t = [k \in Timers |-> IF k \in {"tune", "voice", "rc"} THEN "off" ELSE @[k]]] = t
    BY DEF State, Machine
  <1>3. ClearCarrier(s, returned, st) = z
    BY <1>2, Zenon DEF ClearCarrier
  <1> HIDE DEF g
  <1>4. 0 \in Places
    BY DEF Places
  <1>5. /\ t \in State /\ SameRx(s, t) /\ SameAim(s, t) /\ t.m.sup = s.m.sup /\ t.m.hunt = s.m.hunt
        /\ t.m.conf = s.m.conf /\ t.named = s.named /\ ~t.a.tuned /\ t.a.alias = s.a.alias /\ t.a.rest = s.a.rest
    <2>1. t \in State
      <3> DEFINE y == [s.m EXCEPT !.vc = 0, !.follow = FALSE, !.talk = FALSE, !.t = g]
      <3>1. s.m \in Machine /\ s.a \in Shared
        BY DEF State
      <3>2. y \in Machine
        BY <1>1, <1>4, <3>1 DEF Machine
      <3>3. [s.a EXCEPT !.tuned = FALSE] \in Shared
        BY <3>1 DEF Shared
      <3>4. t = [s EXCEPT !.m = y, !.a = [s.a EXCEPT !.tuned = FALSE]]
        BY DEF State, Machine, Shared
      <3> HIDE DEF y
      <3> QED BY <3>2, <3>3, <3>4 DEF State
    <2>2. SameRx(s, t) /\ t.named = s.named /\ ~t.a.tuned /\ t.a.alias = s.a.alias /\ t.a.rest = s.a.rest
      BY DEF State, Shared, SameRx
    <2>3. SameAim(s, t) /\ t.m.sup = s.m.sup /\ t.m.hunt = s.m.hunt /\ t.m.conf = s.m.conf
      BY DEF State, Machine, SameAim
    <2> QED BY <2>1, <2>2, <2>3
  <1> HIDE DEF t
  <1>6. /\ l \in State /\ l.a = t.a /\ l.hw = t.hw /\ l.center = t.center /\ l.failed = t.failed /\ l.named = t.named
        /\ LetGo(t.live, l.live) /\ l.m.req = "none" /\ l.m.cc = t.m.cc /\ l.m.probe = t.m.probe /\ l.m.rxf = t.m.rxf
        /\ l.m.cur = t.m.cur /\ l.m.sup = t.m.sup /\ l.m.hunt = t.m.hunt /\ l.m.conf = t.m.conf
    BY <1>5, LoosenEffect
  <1> HIDE DEF l
  <1>7. /\ w \in State /\ SameRx(l, w) /\ SameAim(l, w) /\ w.m.sup = l.m.sup /\ w.m.hunt = l.m.hunt /\ ~w.m.conf /\ w.named = l.named
        /\ w.a = l.a
    BY <1>6 DEF State, Machine, SameRx, SameAim
  <1> HIDE DEF w
  <1>8. u \in State
    BY <1>5, <1>7
  <1>9. /\ z \in State /\ SameRx(u, z) /\ SameAim(u, z) /\ z.a = u.a /\ z.named = u.named
        /\ z.m.st = st /\ z.m.sup = u.m.sup /\ z.m.hunt = u.m.hunt /\ z.m.conf = u.m.conf
    BY <1>8, SetStateAlike
  <1> HIDE DEF z
  <1>10. CASE returned
    BY <1>3, <1>5, <1>9, <1>10 DEF SameRx, SameAim
  <1>11. CASE ~returned
    BY <1>3, <1>5, <1>6, <1>7, <1>9, <1>11 DEF SameRx, SameAim
  <1> QED BY <1>10, <1>11

(* do_release(): back to a channel that was heard or announced             *)
LEMMA ReleaseKeeps ==
    ASSUME NEW s, Sound(s), NEW t \in Release(s), trunk \in BOOLEAN
    PROVE  Sound(t) /\ (StillInv(s) => StillInv(t)) /\ (trunk /\ Right(s) /\ s.a.alias # 0 => Right(t))
  <1> DEFINE v == [s EXCEPT !.a.force = FALSE]
             d == Destination(s)
  <1>0. s \in State /\ s.a.alias \in Freqs \cup {0} /\ s.a.rest \in Freqs \cup {0} /\ s.m.cc \in Freqs \cup {0}
    BY Parts DEF Sound, Places
  <1>1. Alike(s, v) /\ v.named = s.named
    BY <1>0 DEF Alike, Calm, SameRx, SameAim, SameGoal, State, Shared
  <1>2. \/ d = 0 /\ t = ClearCarrier(v, FALSE, "hunting")
        \/ d # 0 /\ \E u \in ReturnToCc(v, d) : t = IF u.go THEN ClearCarrier(u, TRUE, "cc") ELSE s
    BY Zenon DEF Release
  <1>3. d \in {s.a.rest, s.a.alias, s.m.cc} /\ (s.a.alias # 0 => d # 0)
    BY <1>0, Carriers DEF Destination
  <1> HIDE DEF v, d
  <1>4. Keeps(s, v) /\ v \in State
    BY <1>1, AlikeKeeps DEF Alike
  <1>5. CASE d = 0 /\ t = ClearCarrier(v, FALSE, "hunting")
    <2>1. /\ t \in State /\ t.m.req = "none" /\ LetGo(v.live, t.live)
          /\ t.m.st = "hunting" /\ t.m.sup = v.m.sup /\ t.m.hunt = v.m.hunt /\ (t.m.conf => v.m.conf)
      BY <1>4, <1>5, ClearEffect
    <2>2. Sound(t)
      BY <2>1 DEF Sound, OwnInv, LetGo
    <2>3. StillInv(s) => StillInv(t)
      BY <1>4, <2>1 DEF Keeps, StillInv
    <2> QED BY <1>3, <1>5, <2>2, <2>3
  <1>6. CASE d # 0 /\ \E u \in ReturnToCc(v, d) : t = IF u.go THEN ClearCarrier(u, TRUE, "cc") ELSE s
    <2>1. PICK u \in ReturnToCc(v, d) : t = IF u.go THEN ClearCarrier(u, TRUE, "cc") ELSE s
      BY <1>6
    <2>2. d \in Freqs
      BY <1>0, <1>3, <1>6
    <2>3. /\ Sound(u) /\ (u.go => ~u.a.tuned /\ u.a.alias = d) /\ (StillInv(v) => StillInv(u))
          /\ trunk /\ Right(v) /\ (~Loops => d \in v.named) => Right(u)
      BY <1>4, <2>2, ReturnKeeps DEF Keeps
    <2>4. Right(s) => (~Loops => d \in v.named)
      BY <1>1, <1>3, <1>6 DEF Right, NamedInv
    <2>5. CASE u.go
      <3> DEFINE z == ClearCarrier(u, TRUE, "cc")
      <3>1. /\ z \in State /\ z.m.st = "cc" /\ ~z.a.tuned /\ z.a.alias = u.a.alias /\ z.a.rest = u.a.rest
            /\ z.m.cc = u.m.cc /\ z.m.probe = u.m.probe /\ z.m.rxf = u.m.rxf /\ z.m.cur = u.m.cur
            /\ z.m.sup = u.m.sup /\ z.m.hunt = u.m.hunt /\ (z.m.conf => u.m.conf) /\ z.named = u.named
            /\ z.hw = u.hw /\ z.center = u.center /\ z.failed = u.failed
            /\ z.m.req = u.m.req /\ z.live = u.live
        <4>1. u \in State
          BY <2>3 DEF Sound
        <4>2. TRUE \in BOOLEAN /\ "cc" \in {"cc", "hunting"}
          OBVIOUS
        <4>3. TRUE => z.m.req = u.m.req /\ z.live = u.live
          BY <4>1, <4>2, ClearEffect, Zenon
        <4> QED BY <4>1, <4>2, <4>3, ClearEffect, Zenon
      <3> HIDE DEF z
      <3>2. u.a.tuned = FALSE /\ z.a.tuned = FALSE
        <4>1. u \in State /\ ~u.a.tuned /\ ~z.a.tuned
          BY <2>3, <2>5, <3>1, Zenon DEF Sound
        <4>2. u.a.tuned \in BOOLEAN /\ z.a.tuned \in BOOLEAN
          BY <3>1, <4>1, Parts
        <4> QED BY <4>1, <4>2, Zenon
      <3>3. Alike(u, z)
        BY <3>1, <3>2 DEF Alike, Calm, SameRx, SameAim, SameGoal
      <3>4. Keeps(u, z)
        BY <2>3, <3>3, AlikeKeeps
      <3>5. t = z
        BY <2>1, <2>5 DEF z
      <3> QED BY <1>4, <2>3, <2>4, <3>4, <3>5 DEF Keeps
    <2>6. CASE ~u.go
      BY <2>1, <2>6
    <2> QED BY <2>5, <2>6
  <1> QED BY <1>2, <1>5, <1>6

-----------------------------------------------------------------------------
(* The startup hunt, and settling the tuning layer.                        *)

(* dmr_sm_cold_start_park_now()                                            *)
LEMMA ParkKeeps ==
    ASSUME NEW s, Sound(s), NEW keep \in BOOLEAN
    PROVE  LET t == ParkNow(s, keep)
           IN  Sound(t) /\ (~s.m.sup /\ ~s.m.conf => StillInv(t)) /\ (Right(s) /\ ~s.m.sup => Right(t))
  <1> DEFINE l == Loosen(s)
             x == [l EXCEPT !.m.acq = FALSE, !.m.probe = 0, !.m.rxf = 0, !.m.t["retry"] = "off"]
             c == ColdClear(x)
             armed == s.m.t["armed"]
             k == [c EXCEPT !.m.t["armed"] = armed]
             u == IF keep THEN k ELSE c
             z == SetState(u, "idle")
  <1>0. s \in State /\ 0 \in Places
    BY DEF Sound, Places
  <1>1. /\ l \in State /\ l.a = s.a /\ l.hw = s.hw
        /\ l.center = s.center /\ l.failed = s.failed /\ l.named = s.named
        /\ LetGo(s.live, l.live) /\ l.m.req = "none" /\ l.m.cc = s.m.cc /\ l.m.sup = s.m.sup /\ l.m.conf = s.m.conf
    BY <1>0, LoosenEffect, Zenon
  <1>2. ParkNow(s, keep) = z
    BY Zenon DEF ParkNow
  <1> HIDE DEF l
  <1>3. /\ x \in State /\ SameRx(l, x) /\ x.a = l.a /\ x.named = l.named /\ x.m.req = l.m.req /\ x.m.cc = l.m.cc
        /\ x.m.sup = l.m.sup /\ x.m.conf = l.m.conf /\ x.m.probe = 0 /\ x.m.rxf = 0
    <2>1. x \in State
      <3> DEFINE g == [l.m.t EXCEPT !["retry"] = "off"]
                 y == [l.m EXCEPT !.acq = FALSE, !.probe = 0, !.rxf = 0, !.t = g]
      <3>1. l.m \in Machine /\ l.m.t \in [Timers -> Period]
        BY <1>1, Parts DEF State
      <3>2. g \in [Timers -> Period]
        BY <3>1 DEF Period
      <3>3. x = [l EXCEPT !.m = y]
        BY <1>1 DEF State, Machine
      <3> HIDE DEF g
      <3>4. y \in Machine
        BY <1>0, <3>1, <3>2 DEF Machine
      <3> HIDE DEF y
      <3> QED BY <1>1, <3>3, <3>4 DEF State
    <2>2. SameRx(l, x) /\ x.a = l.a /\ x.named = l.named
      BY <1>1 DEF State, SameRx
    <2>3. x.m.req = l.m.req /\ x.m.cc = l.m.cc /\ x.m.sup = l.m.sup /\ x.m.conf = l.m.conf /\ x.m.probe = 0 /\ x.m.rxf = 0
      BY <1>1 DEF State, Machine
    <2> QED BY <2>1, <2>2, <2>3
  <1> HIDE DEF x
  <1>4. Alike(x, c) /\ c.a = x.a /\ c.named = x.named /\ c.m.sup = x.m.sup /\ c.m.conf = x.m.conf /\ ~c.m.hunt
    BY <1>3, ColdClearAlike
  <1> HIDE DEF c
  <1>5. armed \in Period
    BY <1>0, Parts, TimerNames
  <1> HIDE DEF armed
  <1>6. /\ k \in State /\ SameRx(c, k) /\ SameAim(c, k) /\ k.a = c.a /\ k.named = c.named /\ k.m.sup = c.m.sup
        /\ k.m.hunt = c.m.hunt /\ k.m.conf = c.m.conf
    BY <1>4, <1>5 DEF Alike, State, Machine, SameRx, SameAim, Timers
  <1> HIDE DEF k
  <1>7. /\ u \in State /\ SameRx(c, u) /\ SameAim(c, u) /\ u.a = c.a /\ u.named = c.named /\ u.m.sup = c.m.sup
        /\ u.m.hunt = c.m.hunt /\ u.m.conf = c.m.conf
    BY <1>4, <1>6 DEF Alike, SameRx, SameAim
  <1> HIDE DEF u
  <1>8. /\ z \in State /\ SameRx(u, z) /\ SameAim(u, z) /\ z.a = u.a /\ z.named = u.named
        /\ z.m.st = "idle" /\ z.m.sup = u.m.sup /\ z.m.hunt = u.m.hunt /\ z.m.conf = u.m.conf
    BY <1>7, SetStateAlike
  <1> HIDE DEF z
  <1>9. /\ z \in State /\ z.a = s.a /\ z.hw = s.hw /\ z.center = s.center /\ z.failed = s.failed /\ z.named = s.named
        /\ LetGo(s.live, z.live) /\ z.m.req = "none" /\ z.m.cc = s.m.cc /\ z.m.sup = s.m.sup /\ z.m.conf = s.m.conf
        /\ z.m.probe = 0 /\ z.m.rxf = 0 /\ ~z.m.hunt /\ z.m.st = "idle"
    BY <1>1, <1>3, <1>4, <1>7, <1>8 DEF Alike, SameRx, SameAim
  <1>10. OwnInv(z)
    BY <1>9 DEF OwnInv, LetGo
  <1>11. ASSUME Right(s), ~s.m.sup
         PROVE  Right(z)
    <2>q. Len(s.live) \in Nat
      BY <1>0, Queue
    <2>1. CenterInv(z)
      <3>1. Len(s.live) > 0 => z.live[Len(z.live)].f = s.live[Len(s.live)].f
        BY <2>q, <1>9 DEF LetGo
      <3> QED BY <3>1, <1>9, <1>11 DEF Right, LinkInv, CenterInv, LetGo
    <2>2. MoveInv(z) /\ ProbeInv(z) /\ WhereInv(z)
      BY <1>9 DEF MoveInv, ProbeInv, WhereInv
    <2>3. RestInv(z)
      BY <1>9, <1>11 DEF RestInv, Right
    <2>4. NamedInv(z)
      BY <1>9, <1>11 DEF NamedInv, Right
    <2> QED BY <2>1, <2>2, <2>3, <2>4 DEF Right, LinkInv
  <1>12. ~s.m.sup /\ ~s.m.conf => StillInv(z)
    BY <1>9 DEF StillInv
  <1> QED BY <1>2, <1>9, <1>10, <1>11, <1>12 DEF Sound

(* dmr_sm_settle_step(): a settle tune is for the frequency the decoder    *)
(* reads, and is probed                                                    *)
LEMMA SettleStepKeeps ==
    ASSUME NEW s, Sound(s), NEW t \in SettleStep(s)
    PROVE  /\ Sound(t) /\ t.a = s.a /\ t.named = s.named /\ t.m.sup = s.m.sup /\ t.m.hunt = s.m.hunt /\ t.m.conf = s.m.conf
           /\ t.m.st \in {s.m.st, "hunting"}
           /\ trunk /\ Right(s) /\ s.m.st # "idle" => Right(t)
  <1> DEFINE r == Resolve(s)
             X(u) == [u EXCEPT !.m.probe = r.center]
  <1>0. s \in State
    BY DEF Sound
  <1>1. /\ Keeps(s, r) /\ r.a = s.a /\ r.named = s.named /\ r.m.sup = s.m.sup /\ r.m.hunt = s.m.hunt /\ r.m.conf = s.m.conf
        /\ r.m.st \in {s.m.st, "hunting"}
    BY <1>0, ResolveKeeps, ResolveEffect DEF Sound
  <1>2. \/ t \in {Stop(r), Go(r)}
        \/ \E u \in Tune(r, r.center, "own") : t = Stop(IF u.go THEN Start(X(u), "dl") ELSE r)
    BY Zenon DEF SettleStep
  <1> HIDE DEF r
  <1>3. Sound(r) /\ r \in State /\ r.center \in Freqs /\ r.center \in Places
    BY <1>1, Parts DEF Keeps, Sound, Places
  <1>4. Alike(r, Stop(r)) /\ Alike(r, Go(r)) /\ Stop(r).m = r.m /\ Go(r).m = r.m /\ Stop(r).a = r.a /\ Go(r).a = r.a
        /\ Stop(r).named = r.named /\ Go(r).named = r.named
    BY <1>3, GoStop
  <1>5. CASE t \in {Stop(r), Go(r)}
    <2>1. Alike(r, t) /\ t.m = r.m /\ t.a = r.a /\ t.named = r.named
      BY <1>4, <1>5
    <2>2. Keeps(r, t)
      BY <1>3, <2>1, AlikeKeeps
    <2> QED BY <1>1, <2>1, <2>2 DEF Keeps
  <1>6. CASE \E u \in Tune(r, r.center, "own") : t = Stop(IF u.go THEN Start(X(u), "dl") ELSE r)
    <2>1. PICK u \in Tune(r, r.center, "own") : t = Stop(IF u.go THEN Start(X(u), "dl") ELSE r)
      BY <1>6
    <2>2. CASE ~u.go
      <3>1. t = Stop(r)
        BY <2>1, <2>2
      <3> QED BY <1>5, <3>1
    <2>3. CASE u.go
      <3> DEFINE x == X(u)
                 y == Start(x, "dl")
      <3>1. t = Stop(y)
        BY <2>1, <2>3
      <3>2. u \in State /\ SameMachine(r, u)
        BY <1>3, TuneEffect
      <3>3. /\ x \in State /\ SameRx(u, x) /\ x.m.probe = r.center /\ x.m.req = u.m.req /\ x.m.rxf = u.m.rxf
            /\ x.m.cur = u.m.cur /\ x.m.st = u.m.st /\ x.m.sup = u.m.sup /\ x.m.hunt = u.m.hunt /\ x.m.conf = u.m.conf /\ x.m.cc = u.m.cc
            /\ x.a = u.a /\ x.named = u.named
        BY <1>3, <3>2 DEF State, Machine, SameRx
      <3> HIDE DEF x
      <3>4. Sound(x) /\ (LinkInv(r) => LinkInv(x))
        BY <1>3, <2>3, <3>3, OwnTuned DEF Aimed
      <3>5. x.a = s.a /\ x.named = s.named /\ x.m.st = r.m.st /\ x.m.sup = s.m.sup /\ x.m.hunt = s.m.hunt /\ x.m.conf = s.m.conf
            /\ x.m.cc = r.m.cc /\ r.a = x.a /\ r.named = x.named
        BY <1>1, <3>2, <3>3 DEF SameMachine
      <3>6. Alike(x, y) /\ y.a = x.a /\ y.named = x.named /\ y.m.st = x.m.st /\ y.m.sup = x.m.sup /\ y.m.hunt = x.m.hunt /\ y.m.conf = x.m.conf
        BY <3>3, StartAlike, TimerNames
      <3> HIDE DEF y
      <3>7. Alike(y, t) /\ t.m = y.m /\ t.a = y.a /\ t.named = y.named
        BY <3>1, <3>6, GoStop DEF Alike
      <3>8. Alike(x, t)
        BY <3>6, <3>7, AlikeThen
      <3>9. Keeps(x, t)
        BY <3>4, <3>8, AlikeKeeps
      <3>10. ASSUME trunk, Right(s), s.m.st # "idle"
             PROVE  Right(t)
        <4>1. Right(r)
          BY <1>1, <3>10 DEF Keeps
        <4>2. RestInv(x)
          BY <1>1, <3>5, <3>10, <4>1 DEF RestInv, Right
        <4>3. NamedInv(x)
          BY <3>5, <4>1 DEF NamedInv, Right
        <4> QED BY <3>4, <3>9, <3>10, <4>1, <4>2, <4>3 DEF Right, Keeps
      <3> QED BY <1>1, <3>5, <3>6, <3>7, <3>9, <3>10 DEF Keeps
    <2> QED BY <2>2, <2>3
  <1> QED BY <1>2, <1>5, <1>6

(* dmr_sm_cold_start_settle()                                              *)
LEMMA ColdSettleKeeps ==
    ASSUME NEW s, Sound(s), NEW keep \in BOOLEAN, NEW t \in ColdSettle(s, keep), s.m.hunt
    PROVE  Keeps(s, t) /\ ~t.go
  <1> DEFINE p == IF keep THEN 1 ELSE 2
             x == [s EXCEPT !.m.park = p]
  <1>0. s \in State /\ p \in 0 .. 2
    BY DEF Sound
  <1> HIDE DEF p
  <1>1. Alike(s, x) /\ x.m.st = s.m.st /\ x.m.sup = s.m.sup /\ x.m.hunt = s.m.hunt /\ x.m.conf = s.m.conf
    BY <1>0 DEF Alike, Calm, SameRx, SameAim, SameGoal, State, Machine
  <1>2. PICK u \in SettleStep(x) : t = IF u.go THEN Stop(ParkNow(u, keep)) ELSE u
    BY Zenon DEF ColdSettle, p
  <1> HIDE DEF x
  <1>3. Keeps(s, x)
    BY <1>1, AlikeKeeps
  <1>4. /\ Sound(u) /\ u.m.sup = x.m.sup /\ u.m.hunt = x.m.hunt /\ u.m.conf = x.m.conf
        /\ u.m.st \in {x.m.st, "hunting"}
        /\ trunk /\ Right(x) /\ x.m.st # "idle" => Right(u)
    BY <1>3, SettleStepKeeps DEF Keeps
  <1>5. trunk /\ Right(s) => Right(u) /\ ~u.m.sup
    BY <1>1, <1>3, <1>4 DEF Keeps, Right, RestInv
  <1>8. StillInv(s) => StillInv(u) /\ ~u.m.sup /\ ~u.m.conf
    BY <1>1, <1>4 DEF StillInv
  <1>6. CASE u.go
    <2> DEFINE z == ParkNow(u, keep)
    <2>1. Sound(z) /\ (~u.m.sup /\ ~u.m.conf => StillInv(z)) /\ (Right(u) /\ ~u.m.sup => Right(z))
      BY <1>4, ParkKeeps
    <2>2. t = Stop(z)
      BY <1>2, <1>6
    <2> HIDE DEF z
    <2>3. Alike(z, t) /\ ~t.go
      BY <2>1, <2>2, GoStop DEF Sound
    <2>4. Keeps(z, t)
      BY <2>1, <2>3, AlikeKeeps
    <2> QED BY <1>5, <1>8, <2>1, <2>3, <2>4 DEF Keeps
  <1>7. CASE ~u.go
    BY <1>2, <1>4, <1>5, <1>7, <1>8 DEF Keeps
  <1> QED BY <1>6, <1>7

(* dmr_sm_cold_start_gate(): go leaves everything as it was                *)
LEMMA ColdGateKeeps ==
    ASSUME NEW s, Sound(s), NEW decision \in BOOLEAN, NEW t \in ColdGate(s, decision), s.m.hunt
    PROVE  Keeps(s, t) /\ (t.go => t = Go(s))
  <1>0. s \in State
    BY DEF Sound
  <1>1. \/ t = Stop(ColdClear(s))
        \/ t = Stop(ParkNow(s, FALSE))
        \/ \E keep \in BOOLEAN : t \in ColdSettle(s, keep)
        \/ t = Go(s)
    <2>1. (s.m.park = 1) \in BOOLEAN /\ TRUE \in BOOLEAN /\ FALSE \in BOOLEAN
      OBVIOUS
    <2> QED BY <2>1, Zenon DEF ColdGate
  <1>2. CASE t = Stop(ColdClear(s))
    <2> DEFINE c == ColdClear(s)
    <2>1. Alike(s, c)
      BY <1>0, ColdClearAlike
    <2> HIDE DEF c
    <2>2. Alike(c, t) /\ ~t.go
      BY <1>2, <2>1, GoStop DEF Alike, c
    <2> QED BY <2>1, <2>2, AlikeThen, AlikeKeeps
  <1>3. CASE t = Stop(ParkNow(s, FALSE))
    <2> DEFINE c == ParkNow(s, FALSE)
    <2>1. Sound(c) /\ (~s.m.sup /\ ~s.m.conf => StillInv(c)) /\ (Right(s) /\ ~s.m.sup => Right(c))
      BY ParkKeeps
    <2>2. t = Stop(c)
      BY <1>3
    <2> HIDE DEF c
    <2>3. Alike(c, t) /\ ~t.go
      BY <2>1, <2>2, GoStop DEF Sound
    <2>4. Keeps(c, t)
      BY <2>1, <2>3, AlikeKeeps
    <2>5. (Right(s) => ~s.m.sup) /\ (StillInv(s) => ~s.m.sup /\ ~s.m.conf)
      BY DEF Right, RestInv, StillInv
    <2> QED BY <2>1, <2>3, <2>4, <2>5 DEF Keeps
  <1>4. CASE \E keep \in BOOLEAN : t \in ColdSettle(s, keep)
    BY <1>4, ColdSettleKeeps
  <1>5. CASE t = Go(s)
    <2>1. Alike(s, t)
      BY <1>0, <1>5, GoStop
    <2> QED BY <1>5, <2>1, AlikeKeeps
  <1> QED BY <1>1, <1>2, <1>3, <1>4, <1>5

(* dmr_sm_settle_after_move()                                              *)
LEMMA SettleMoveKeeps ==
    ASSUME NEW s, Sound(s), NEW t \in SettleAfterMove(s)
    PROVE  Keeps(s, t)
  <1>0. s \in State
    BY DEF Sound
  <1>1. CASE ~s.m.sup
    <2>1. t = Go(s)
      BY <1>1, Zenon DEF SettleAfterMove
    <2>2. Alike(s, t)
      BY <1>0, <2>1, GoStop
    <2> QED BY <2>2, AlikeKeeps
  <1>2. CASE s.m.sup
    <2> DEFINE W(u) == IF u.m.waited THEN "running" ELSE u.m.t["sw"]
               X(u) == [u EXCEPT !.m.sup = FALSE, !.m.waited = FALSE, !.m.acq = FALSE, !.m.t["retry"] = "off",
                                 !.m.t["sw"] = W(u)]
    <2>1. PICK u \in SettleStep(s) : t = IF ~u.go THEN [u EXCEPT !.m.waited = TRUE] ELSE SetState(X(u), "cc")
      BY <1>2, Zenon DEF SettleAfterMove
    <2>2. /\ Sound(u) /\ trunk /\ Right(s) /\ s.m.st # "idle" => Right(u)
      BY SettleStepKeeps
    <2>3. Keeps(s, u)
      <3>1. Right(s) => s.m.st # "idle"
        BY <1>2 DEF Right, RestInv
      <3>2. Sound(u)
        BY SettleStepKeeps
      <3>3. StillInv(s) => StillInv(u)
        <4>1. u.m.st \in {s.m.st, "hunting"} /\ u.m.sup = s.m.sup /\ u.m.hunt = s.m.hunt /\ u.m.conf = s.m.conf
          BY SettleStepKeeps
        <4> QED BY <1>2, <4>1 DEF StillInv
      <3> QED BY <2>2, <3>1, <3>2, <3>3 DEF Keeps
    <2>4. u \in State
      BY <2>3 DEF Keeps, Sound
    <2>5. Alike(u, t)
      <3>1. CASE ~u.go
        <4>1. Alike(u, [u EXCEPT !.m.waited = TRUE])
          BY <2>4 DEF Alike, Calm, SameRx, SameAim, SameGoal, State, Machine
        <4> QED BY <2>1, <3>1, <4>1
      <3>2. CASE u.go
        <4> DEFINE w == W(u)
                   x == [u EXCEPT !.m.sup = FALSE, !.m.waited = FALSE, !.m.acq = FALSE, !.m.t["retry"] = "off",
                                  !.m.t["sw"] = w]
        <4>1. w \in Period
          BY <2>4, Parts, TimerNames DEF Period
        <4>2. x = X(u)
          OBVIOUS
        <4> HIDE DEF w
        <4>3. Alike(u, x)
          <5> DEFINE v == [u EXCEPT !.m.sup = FALSE, !.m.waited = FALSE, !.m.acq = FALSE]
          <5>1. x = [v EXCEPT !.m.t["retry"] = "off", !.m.t["sw"] = w]
            OBVIOUS
          <5>2. Alike(u, v)
            BY <2>4 DEF Alike, Calm, SameRx, SameAim, SameGoal, State, Machine
          <5> HIDE DEF v, x
          <5>3. v \in State /\ "off" \in Period
            BY <5>2 DEF Alike, Period
          <5>4. x \in State
            BY <4>1, <5>1, <5>3 DEF State, Machine, Timers
          <5>5. SameRx(v, x) /\ SameAim(v, x) /\ SameGoal(v, x) /\ Calm(v, x)
            BY <5>1, <5>3 DEF State, Machine, SameRx, SameAim, SameGoal, Calm
          <5> QED BY <5>2, <5>4, <5>5, AlikeThen DEF Alike
        <4>4. t = SetState(x, "cc")
          BY <2>1, <3>2, <4>2
        <4> HIDE DEF x
        <4>5. Alike(x, t)
          BY <4>3, <4>4, SetStateAlike DEF Alike
        <4> QED BY <4>3, <4>5, AlikeThen
      <3> QED BY <3>1, <3>2
    <2>6. Keeps(u, t)
      BY <2>3, <2>5, AlikeKeeps DEF Keeps
    <2> QED BY <2>3, <2>6, KeepsThen
  <1> QED BY <1>1, <1>2

-----------------------------------------------------------------------------
(* The hunt for the control channel.                                       *)

(* What the assumption says of the session's channel map.                  *)
LEMMA MapTyped ==
    ASSUME site \in Sites
    PROVE  /\ Map \in Seq(Freqs) /\ Len(Map) \in Nat /\ (Map # <<>> => Len(Map) > 0)
           /\ \A i \in 1 .. Len(Map) : Map[i] \in Places
  <1>1. Map \in Seq(Freqs)
    BY DmrAssumption DEF Map
  <1>2. Len(Map) \in Nat /\ \A i \in 1 .. Len(Map) : Map[i] \in Freqs
    BY <1>1
  <1>3. Map # <<>> => Len(Map) # 0
    BY <1>1, EmptySeq
  <1> QED BY <1>1, <1>2, <1>3 DEF Places

(* A row of the map by its number.                                         *)
LEMMA ModRange ==
    ASSUME NEW a \in Int, NEW n \in Nat, n > 0
    PROVE  a % n \in 0 .. n - 1
  OBVIOUS

(* dmr_cc_next_mapped_candidate()                                          *)
LEMMA NextMappedTyped ==
    ASSUME site \in Sites, NEW s \in State, Map # <<>>
    PROVE  NextMapped(s).f \in Places /\ NextMapped(s).idx \in Rows
  <1> DEFINE n == Len(Map)
             Row(k) == ((s.m.idx + k - 2) % n) + 1
             other == {k \in 1 .. n : Map[Row(k)] # s.m.probe}
             k == CHOOSE k \in other : \A j \in other : k <= j
  <1>0. s.m.probe \in Places /\ s.m.idx \in Rows /\ 0 \in Places
    BY Parts DEF Places
  <1>1. n \in Nat /\ n > 0 /\ \A i \in 1 .. n : Map[i] \in Places
    BY MapTyped
  <1>2. \A j \in 1 .. n : Row(j) \in 1 .. n
    <2> SUFFICES ASSUME NEW j \in 1 .. n
                 PROVE  Row(j) \in 1 .. n
      OBVIOUS
    <2> DEFINE a == s.m.idx + j - 2
    <2>1. a \in Int
      BY <1>0, <1>1 DEF Rows
    <2> HIDE DEF a
    <2>2. a % n \in 0 .. n - 1
      BY <1>1, <2>1, ModRange
    <2>3. (a % n) + 1 \in 1 .. n
      BY <1>1, <2>2
    <2> QED BY <2>3 DEF a
  <1>3. CASE other = {}
    <2>1. NextMapped(s) = [f |-> IF s.m.rxf # s.m.probe \/ ~RxCurrent(s) THEN s.m.probe ELSE 0, idx |-> s.m.idx]
      BY <1>3, Zenon DEF NextMapped
    <2> QED BY <1>0, <2>1
  <1>4. CASE other # {}
    <2>1. NextMapped(s) = [f |-> Map[Row(k)], idx |-> (Row(k) % n) + 1]
      BY <1>4, Zenon DEF NextMapped
    <2>2. k \in 1 .. n
      <3>1. other \subseteq Nat /\ other # {}
        BY <1>1, <1>4
      <3>2. \E i \in other : \A j \in other : i <= j
        <4> HIDE DEF other
        <4>1. \E i \in other : \A j \in other : ~(<<j, i>> \in OpToRel(<, Nat))
          BY <3>1, NatLessThanWellFounded, WFMin
        <4>2. PICK i \in other : \A j \in other : ~(<<j, i>> \in OpToRel(<, Nat))
          BY <4>1
        <4>3. \A j \in other : ~(j < i)
          BY <3>1, <4>2 DEF OpToRel
        <4>4. \A j \in other : i <= j
          BY <3>1, <4>3
        <4> QED BY <4>4
      <3>3. k \in other
        <4> HIDE DEF other
        <4> QED BY <3>2, Zenon
      <3> QED BY <3>3
    <2> HIDE DEF k
    <2>3. Row(k) \in 1 .. n
      BY <1>2, <2>2
    <2>4. Map[Row(k)] \in Places
      BY <1>1, <2>3
    <2>5. (Row(k) % n) + 1 \in Rows
      <3> HIDE DEF Row
      <3>1. Row(k) \in Int
        BY <2>3, <1>1
      <3>2. Row(k) % n \in 0 .. n - 1
        BY <1>1, <3>1, ModRange
      <3> QED BY <1>1, <3>2 DEF Rows
    <2> HIDE DEF Row
    <2> QED BY <2>1, <2>4, <2>5
  <1> HIDE DEF other
  <1> QED BY <1>3, <1>4

(* dmr_cc_next_candidate()                                                 *)
LEMMA CandidateTyped ==
    ASSUME site \in Sites, NEW s \in State, NEW c \in Candidates(s)
    PROVE  c.f \in Places /\ c.idx \in Rows
  <1> DEFINE anchor == IF s.m.cc > 0 THEN s.m.cc ELSE IF s.m.hunt THEN 0 ELSE s.a.alias
             back == [f |-> anchor, idx |-> s.m.idx]
  <1>0. s.m.cc \in Places /\ s.a.alias \in Places /\ s.m.idx \in Rows /\ 0 \in Places
    BY Parts DEF Places
  <1>1. anchor \in Places
    BY <1>0
  <1>2. \/ c = back
        \/ Map # <<>> /\ c = NextMapped(s)
        \/ \E f \in Freqs : c = [f |-> f, idx |-> s.m.idx]
    BY Zenon DEF Candidates
  <1> HIDE DEF anchor
  <1>3. CASE c = back
    BY <1>0, <1>1, <1>3
  <1>4. CASE Map # <<>> /\ c = NextMapped(s)
    BY <1>4, NextMappedTyped
  <1>5. CASE \E f \in Freqs : c = [f |-> f, idx |-> s.m.idx]
    BY <1>0, <1>5 DEF Places
  <1> QED BY <1>2, <1>3, <1>4, <1>5

(* A probe, of dmr_cc_hunt()                                               *)
LEMMA ProbeKeeps ==
    ASSUME NEW s, Sound(s), NEW f \in Freqs, NEW t \in Probe(s, f)
    PROVE  Keeps(s, t)
  <1> DEFINE X(u) == [u EXCEPT !.m.probe = f, !.m.acq = TRUE]
             Z(u) == SetState(Start(Start(X(u), "aw"), "dl"), "cc")
  <1>0. s \in State /\ f \in Places
    BY DEF Sound, Places
  <1>1. PICK u \in Tune(s, f, "own") : t \in (IF ~u.go THEN {s} ELSE {Resolve(Z(u))})
    BY Zenon DEF Probe, Then
  <1>2. CASE ~u.go
    BY <1>1, <1>2, KeepsSelf
  <1>3. CASE u.go
    <2> DEFINE x == X(u)
               y == Start(x, "aw")
               v == Start(y, "dl")
               z == SetState(v, "cc")
    <2>1. t = Resolve(z)
      BY <1>1, <1>3
    <2>2. u \in State /\ SameMachine(s, u)
      BY <1>0, TuneEffect
    <2>3. /\ x \in State /\ SameRx(u, x) /\ x.m.probe = f /\ x.m.req = u.m.req /\ x.m.rxf = u.m.rxf
          /\ x.m.cur = u.m.cur /\ x.m.sup = u.m.sup /\ x.m.hunt = u.m.hunt /\ x.m.conf = u.m.conf /\ x.m.cc = u.m.cc
          /\ x.a = u.a /\ x.named = u.named
      BY <1>0, <2>2 DEF State, Machine, SameRx
    <2> HIDE DEF x
    <2>4. Alike(x, y) /\ y.a = x.a /\ y.named = x.named
      BY <2>3, StartAlike, TimerNames
    <2> HIDE DEF y
    <2>5. Alike(y, v) /\ v.a = y.a /\ v.named = y.named
      BY <2>4, StartAlike, TimerNames DEF Alike
    <2> HIDE DEF v
    <2>6. Alike(v, z) /\ z.a = v.a /\ z.named = v.named /\ z.m.st = "cc"
      BY <2>5, SetStateAlike DEF Alike
    <2> HIDE DEF z
    <2>7. Alike(x, z)
      BY <2>4, <2>5, <2>6, AlikeThen
    <2>8. Aimed(u, z, f)
      BY <2>3, <2>7 DEF Aimed, Alike, SameRx, SameAim
    <2>9. Sound(z) /\ (LinkInv(s) => LinkInv(z))
      BY <1>3, <2>8, OwnTuned
    <2>10. /\ z.a = s.a /\ z.named = s.named /\ z.m.cc = s.m.cc
           /\ (z.m.sup => s.m.sup) /\ (z.m.hunt => s.m.hunt) /\ (z.m.conf => s.m.conf)
      BY <2>2, <2>3, <2>4, <2>5, <2>6, <2>7 DEF SameMachine, Alike, Calm, SameAim
    <2>11. Right(s) => RestInv(z) /\ NamedInv(z)
      BY <2>6, <2>10 DEF Right, RestInv, NamedInv
    <2>14. StillInv(s) => StillInv(z)
      BY <2>6, <2>10 DEF StillInv
    <2>12. Keeps(s, z)
      BY <2>9, <2>11, <2>14 DEF Keeps, Right
    <2>13. Keeps(z, t)
      BY <2>1, <2>9, ResolveKeeps DEF Sound
    <2> QED BY <2>12, <2>13, KeepsThen
  <1> QED BY <1>2, <1>3

(* dmr_cc_hunt(), once it may look for a candidate                         *)
LEMMA HuntFromKeeps ==
    ASSUME site \in Sites, NEW s, Sound(s), s.m.req = "none", NEW t \in HuntFrom(s)
    PROVE  Keeps(s, t)
  <1> DEFINE X(c) == [s EXCEPT !.m.lost = FALSE, !.m.idx = c.idx]
             T(c) == Start(X(c), "retry")
             P(c) == [T(c) EXCEPT !.m.probe = c.f, !.m.acq = TRUE]
  <1>0. s \in State
    BY DEF Sound
  <1>1. \/ t = SetState(s, "cc")
        \/ \E c \in Candidates(s) :
              \/ t = T(c)
              \/ c.f = T(c).m.rxf /\ t = SetState(Start(P(c), "aw"), "cc")
              \/ c.f # 0 /\ t \in Probe(T(c), c.f)
    BY Zenon DEF HuntFrom, Then
  <1>2. CASE t = SetState(s, "cc")
    <2>1. Alike(s, t)
      BY <1>0, <1>2, SetStateAlike
    <2> QED BY <2>1, AlikeKeeps
  <1>3. ASSUME NEW c \in Candidates(s),
               \/ t = T(c)
               \/ c.f = T(c).m.rxf /\ t = SetState(Start(P(c), "aw"), "cc")
               \/ c.f # 0 /\ t \in Probe(T(c), c.f)
        PROVE  Keeps(s, t)
    <2> DEFINE x == X(c)
               w == Start(x, "retry")
               p == [w EXCEPT !.m.probe = c.f, !.m.acq = TRUE]
               y == Start(p, "aw")
               z == SetState(y, "cc")
    <2>1. c.f \in Places /\ c.idx \in Rows
      BY <1>0, CandidateTyped
    <2>2. t = w \/ (c.f = w.m.rxf /\ t = z) \/ (c.f # 0 /\ t \in Probe(w, c.f))
      BY <1>3
    <2>3. Alike(s, x)
      BY <1>0, <2>1 DEF Alike, Calm, SameRx, SameAim, SameGoal, State, Machine
    <2> HIDE DEF x
    <2>4. Alike(x, w)
      BY <2>3, StartAlike, TimerNames DEF Alike
    <2> HIDE DEF w
    <2>5. Alike(s, w) /\ Keeps(s, w) /\ w \in State /\ Sound(w) /\ w.m.req = "none"
      BY <2>3, <2>4, AlikeThen, AlikeKeeps DEF Alike, Keeps, SameAim
    <2>6. CASE t = w
      BY <2>5, <2>6
    <2>7. CASE t = z
      <3>1. /\ p \in State /\ SameRx(w, p) /\ p.a = w.a /\ p.named = w.named /\ p.m.st = w.m.st /\ p.m.sup = w.m.sup
            /\ p.m.hunt = w.m.hunt /\ p.m.conf = w.m.conf /\ p.m.rxf = w.m.rxf /\ p.m.cur = w.m.cur /\ p.m.cc = w.m.cc /\ p.m.req = w.m.req
        BY <2>1, <2>5 DEF State, Machine, SameRx
      <3> HIDE DEF p
      <3>2. Alike(p, y)
        BY <3>1, StartAlike, TimerNames
      <3> HIDE DEF y
      <3>3. Alike(y, z) /\ z.m.st = "cc"
        BY <3>2, SetStateAlike DEF Alike
      <3> HIDE DEF z
      <3>4. Alike(p, z)
        BY <3>2, <3>3, AlikeThen
      <3>5. /\ z \in State /\ z.m.req = "none" /\ z.live = w.live /\ z.hw = w.hw /\ z.center = w.center
            /\ z.failed = w.failed /\ z.m.rxf = w.m.rxf /\ z.m.cur = w.m.cur /\ z.m.cc = w.m.cc
            /\ SameGoal(w, z) /\ Calm(w, z) /\ z.m.st = "cc"
        BY <2>5, <3>1, <3>3, <3>4 DEF Alike, SameRx, SameAim, SameGoal, Calm
      <3>6. LetGo(w.live, z.live)
        BY <2>5, <3>5 DEF LetGo, Sound, OwnInv
      <3>7. Keeps(w, z)
        BY <2>5, <3>5, <3>6, FreedKeeps
      <3> QED BY <2>5, <2>7, <3>7, KeepsThen
    <2>8. CASE c.f # 0 /\ t \in Probe(w, c.f)
      <3>1. c.f \in Freqs
        BY <2>1, <2>8 DEF Places
      <3>2. Keeps(w, t)
        BY <2>5, <2>8, <3>1, ProbeKeeps
      <3> QED BY <2>5, <3>2, KeepsThen
    <2> QED BY <2>2, <2>6, <2>7, <2>8
  <1> QED BY <1>1, <1>2, <1>3

(* dmr_cc_hunt()                                                           *)
LEMMA HuntKeeps ==
    ASSUME site \in Sites, NEW s, Sound(s), s.m.req = "none", NEW t \in Hunt(s)
    PROVE  Keeps(s, t)
  <1>0. s \in State
    BY DEF Sound
  <1>1. \/ t = s
        \/ \E u \in (IF s.m.hunt THEN ColdGate(s, TRUE) ELSE {Go(s)}) : t \in (IF u.go THEN HuntFrom(u) ELSE {u})
    BY Zenon DEF Hunt, Then
  <1>2. CASE t = s
    BY <1>2, KeepsSelf
  <1>3. ASSUME NEW u \in (IF s.m.hunt THEN ColdGate(s, TRUE) ELSE {Go(s)}), t \in (IF u.go THEN HuntFrom(u) ELSE {u})
        PROVE  Keeps(s, t)
    <2>1. Keeps(s, u) /\ (u.go => u = Go(s))
      <3>1. CASE s.m.hunt
        BY <1>3, <3>1, ColdGateKeeps
      <3>2. CASE ~s.m.hunt
        <4>1. u = Go(s)
          BY <1>3, <3>2
        <4>2. Alike(s, u)
          BY <1>0, <4>1, GoStop
        <4> QED BY <4>1, <4>2, AlikeKeeps
      <3> QED BY <3>1, <3>2
    <2>2. CASE u.go
      <3>1. u.m.req = "none" /\ Sound(u)
        BY <1>0, <2>1, <2>2, GoStop DEF Keeps
      <3>2. Keeps(u, t)
        BY <1>3, <2>2, <3>1, HuntFromKeeps
      <3> QED BY <2>1, <3>2, KeepsThen
    <2>3. CASE ~u.go
      BY <1>3, <2>1, <2>3
    <2> QED BY <2>2, <2>3
  <1> QED BY <1>1, <1>2, <1>3

-----------------------------------------------------------------------------
(* The tick.                                                               *)

(* dmr_sm_tick_idle_cold_start()                                           *)
LEMMA TickIdleKeeps ==
    ASSUME site \in Sites, NEW s, Sound(s), s.m.req = "none", s.m.st = "idle", NEW t \in TickIdle(s)
    PROVE  Keeps(s, t)
  <1> DEFINE o == [s EXCEPT !.m.t["armed"] = "off"]
             x == [s EXCEPT !.m.hunt = TRUE, !.m.t["retry"] = "off"]
             y == SetState(x, "hunting")
  <1>0. s \in State
    BY DEF Sound
  <1>1. t = o \/ t = Start(s, "armed") \/ t = s \/ (HuntEligible(s) /\ t \in Hunt(y))
    BY Zenon DEF TickIdle
  <1>2. CASE t = o
    <2>1. Alike(s, o)
      BY <1>0 DEF Alike, Calm, SameRx, SameAim, SameGoal, State, Machine, Timers, Period
    <2> QED BY <1>2, <2>1, AlikeKeeps
  <1>3. CASE t = Start(s, "armed")
    <2>1. Alike(s, t)
      BY <1>0, <1>3, StartAlike, TimerNames
    <2> QED BY <2>1, AlikeKeeps
  <1>4. CASE t = s
    BY <1>4, KeepsSelf
  <1>5. CASE HuntEligible(s) /\ t \in Hunt(y)
    <2>1. /\ x \in State /\ SameRx(s, x) /\ SameAim(s, x) /\ x.m.sup = s.m.sup /\ x.a = s.a /\ x.named = s.named
          /\ x.m.conf = s.m.conf
      BY <1>0 DEF SameRx, SameAim, State, Machine, Timers, Period
    <2> HIDE DEF x
    <2>2. /\ y \in State /\ SameRx(x, y) /\ SameAim(x, y) /\ y.m.sup = x.m.sup /\ y.a = x.a /\ y.named = x.named
          /\ y.m.st = "hunting" /\ y.m.conf = x.m.conf
      BY <2>1, SetStateAlike
    <2> HIDE DEF y
    <2>3. /\ SameRx(s, y) /\ SameAim(s, y) /\ y.m.sup = s.m.sup /\ y.a = s.a /\ y.named = s.named /\ y.m.req = "none"
      BY <2>1, <2>2 DEF SameRx, SameAim
    <2>4. OwnInv(y) /\ (LinkInv(s) => LinkInv(y))
      BY <2>3, AlikeLink DEF Sound
    <2>5. Right(s) => RestInv(y) /\ NamedInv(y)
      BY <2>2, <2>3 DEF Right, RestInv, NamedInv, SameAim
    <2>8. StillInv(s) => StillInv(y)
      BY <1>5, <2>1, <2>2 DEF StillInv, HuntEligible
    <2>6. Keeps(s, y)
      BY <2>2, <2>4, <2>5, <2>8 DEF Keeps, Right, Sound
    <2>7. Keeps(y, t)
      BY <1>5, <2>3, <2>6, HuntKeeps DEF Keeps
    <2> QED BY <2>6, <2>7, KeepsThen
  <1> QED BY <1>1, <1>2, <1>3, <1>4, <1>5

(* tick_on_cc()                                                            *)
LEMMA TickOnCcAlike ==
    ASSUME NEW s \in State
    PROVE  Alike(s, TickOnCc(s))
  <1> DEFINE q == [s EXCEPT !.m.acq = FALSE]
             h == SetState(s, "hunting")
             l == [h EXCEPT !.m.lost = TRUE]
  <1>1. TickOnCc(s) \in {Start(s, "sw"), s, Start(q, "sw"), l}
    BY Zenon DEF TickOnCc
  <1>2. Alike(s, Start(s, "sw")) /\ Alike(s, s)
    BY StartAlike, AlikeSelf, TimerNames
  <1>3. Alike(s, Start(q, "sw"))
    <2>1. Alike(s, q)
      BY DEF Alike, Calm, SameRx, SameAim, SameGoal, State, Machine
    <2> HIDE DEF q
    <2>2. Alike(q, Start(q, "sw"))
      BY <2>1, StartAlike, TimerNames DEF Alike
    <2> QED BY <2>1, <2>2, AlikeThen
  <1>4. Alike(s, l)
    <2>1. Alike(s, h)
      BY SetStateAlike
    <2> HIDE DEF h
    <2>2. h \in State
      BY <2>1 DEF Alike
    <2>3. Alike(h, l)
      BY <2>2 DEF Alike, Calm, SameRx, SameAim, SameGoal, State, Machine
    <2> QED BY <2>1, <2>3, AlikeThen
  <1> HIDE DEF q, l
  <1> QED BY <1>1, <1>2, <1>3, <1>4

(* dmr_sm_receive_check()                                                  *)
LEMMA ReceiveKeeps ==
    ASSUME NEW s, Sound(s), NEW admitted \in BOOLEAN, NEW t \in ReceiveCheck(s, admitted), trunk \in BOOLEAN
    PROVE  /\ Sound(t) /\ (StillInv(s) => StillInv(t)) /\ (trunk /\ Right(s) /\ s.a.alias # 0 => Right(t))
           /\ t.go => t.a.alias = s.a.alias
  <1> DEFINE q == [s EXCEPT !.m.talk = FALSE]
             r == [q EXCEPT !.m.t["rc"] = "off"]
             o == [s EXCEPT !.m.t["rc"] = "off"]
  <1>0. s \in State
    BY DEF Sound
  <1>1. \/ t = Go(o)
        \/ t = Stop(Start(q, "rc"))
        \/ t = Stop(q)
        \/ \E u \in Release(r) : t = Stop(u)
    BY Zenon DEF ReceiveCheck
  <1>2. Alike(s, q)
    BY <1>0 DEF Alike, Calm, SameRx, SameAim, SameGoal, State, Machine
  <1>3. Alike(s, o)
    BY <1>0 DEF Alike, Calm, SameRx, SameAim, SameGoal, State, Machine, Timers, Period
  <1> HIDE DEF q, o
  <1>4. q \in State /\ o \in State
    BY <1>2, <1>3 DEF Alike
  <1>5. CASE t = Go(o)
    <2>1. Alike(o, t)
      BY <1>4, <1>5, GoStop
    <2>2. Alike(s, t)
      BY <1>3, <2>1, AlikeThen
    <2> QED BY <2>2, AlikeKeeps DEF Keeps, Alike, SameGoal
  <1>6. CASE t = Stop(Start(q, "rc"))
    <2> DEFINE y == Start(q, "rc")
    <2>1. Alike(q, y)
      BY <1>4, StartAlike, TimerNames
    <2>2. t = Stop(y)
      BY <1>6
    <2> HIDE DEF y
    <2>3. Alike(y, t)
      BY <2>1, <2>2, GoStop DEF Alike
    <2>4. Alike(s, t)
      BY <1>2, <2>1, <2>3, AlikeThen
    <2> QED BY <2>4, AlikeKeeps DEF Keeps, Alike, SameGoal
  <1>7. CASE t = Stop(q)
    <2>1. Alike(q, t)
      BY <1>4, <1>7, GoStop
    <2>2. Alike(s, t)
      BY <1>2, <2>1, AlikeThen
    <2> QED BY <2>2, AlikeKeeps DEF Keeps, Alike, SameGoal
  <1>8. ASSUME NEW u \in Release(r), t = Stop(u)
        PROVE  Sound(t) /\ (StillInv(s) => StillInv(t)) /\ (trunk /\ Right(s) /\ s.a.alias # 0 => Right(t)) /\ ~t.go
    <2>1. Alike(q, r)
      BY <1>4 DEF Alike, Calm, SameRx, SameAim, SameGoal, State, Machine, Timers, Period
    <2> HIDE DEF r
    <2>2. Alike(s, r)
      BY <1>2, <2>1, AlikeThen
    <2>3. Keeps(s, r) /\ r.a.alias = s.a.alias
      BY <2>2, AlikeKeeps DEF Alike, SameGoal
    <2>4. Sound(u) /\ (StillInv(r) => StillInv(u)) /\ (trunk /\ Right(r) /\ r.a.alias # 0 => Right(u))
      BY <1>8, <2>3, ReleaseKeeps DEF Keeps
    <2>5. Alike(u, t) /\ ~t.go
      BY <1>8, <2>4, GoStop DEF Sound
    <2>6. Keeps(u, t)
      BY <2>4, <2>5, AlikeKeeps
    <2> QED BY <2>3, <2>4, <2>5, <2>6 DEF Keeps
  <1> QED BY <1>1, <1>5, <1>6, <1>7, <1>8

(* tick_tuned()                                                            *)
LEMMA TickTunedKeeps ==
    ASSUME NEW s, Sound(s), NEW admitted \in BOOLEAN, NEW t \in TickTuned(s, admitted), trunk \in BOOLEAN
    PROVE  Sound(t) /\ (StillInv(s) => StillInv(t)) /\ (trunk /\ Right(s) /\ s.a.alias # 0 => Right(t))
  <1>1. \/ t \in Release(s)
        \/ \E u \in ReceiveCheck(s, admitted) : t = u \/ (u.go /\ t \in Release(u))
    BY Zenon DEF TickTuned, Then
  <1>2. CASE t \in Release(s)
    BY <1>2, ReleaseKeeps
  <1>3. ASSUME NEW u \in ReceiveCheck(s, admitted), t = u \/ (u.go /\ t \in Release(u))
        PROVE  Sound(t) /\ (StillInv(s) => StillInv(t)) /\ (trunk /\ Right(s) /\ s.a.alias # 0 => Right(t))
    <2>1. /\ Sound(u) /\ (StillInv(s) => StillInv(u)) /\ (trunk /\ Right(s) /\ s.a.alias # 0 => Right(u))
          /\ u.go => u.a.alias = s.a.alias
      BY ReceiveKeeps
    <2>2. CASE t = u
      BY <2>1, <2>2
    <2>3. CASE u.go /\ t \in Release(u)
      <3>1. Sound(t) /\ (StillInv(u) => StillInv(t)) /\ (trunk /\ Right(u) /\ u.a.alias # 0 => Right(t))
        BY <2>1, <2>3, ReleaseKeeps
      <3> QED BY <2>1, <2>3, <3>1
    <2> QED BY <1>3, <2>2, <2>3
  <1> QED BY <1>1, <1>2, <1>3

(* dmr_sm_tick_ready(): go once no request is tracked                      *)
LEMMA ReadyKeeps ==
    ASSUME NEW s, Sound(s), NEW t \in Ready(s)
    PROVE  Keeps(s, t) /\ (t.go => t.m.req = "none")
  <1>0. s \in State
    BY DEF Sound
  <1>1. \E u \in (IF s.m.hunt THEN ColdGate(s, FALSE) ELSE {Go(s)}) :
           \/ ~u.go /\ t = u
           \/ u.go /\ \E v \in SettleAfterMove(u) : t = IF v.go THEN Resolve(v) ELSE v
    <2> DEFINE U == IF s.m.hunt THEN ColdGate(s, FALSE) ELSE {Go(s)}
               D(v) == IF v.go THEN {Resolve(v)} ELSE {v}
               W(u) == UNION {D(v) : v \in SettleAfterMove(u)}
    <2>1. Ready(s) = UNION {IF ~u.go THEN {u} ELSE W(u) : u \in U}
      BY Zenon DEF Ready, Then
    <2> HIDE DEF W, U
    <2>2. PICK u \in U : t \in (IF ~u.go THEN {u} ELSE W(u))
      BY <2>1, Zenon
    <2>3. CASE ~u.go
      BY <2>2, <2>3, Zenon DEF U
    <2>4. CASE u.go
      <3>1. t \in W(u)
        BY <2>2, <2>4, Zenon
      <3>2. PICK v \in SettleAfterMove(u) : t \in D(v)
        BY <3>1, Zenon DEF W
      <3>3. t = IF v.go THEN Resolve(v) ELSE v
        BY <3>2, Zenon
      <3> QED BY <2>4, <3>3, Zenon DEF U
    <2> QED BY <2>3, <2>4
  <1>2. PICK u \in (IF s.m.hunt THEN ColdGate(s, FALSE) ELSE {Go(s)}) :
           \/ ~u.go /\ t = u
           \/ u.go /\ \E v \in SettleAfterMove(u) : t = IF v.go THEN Resolve(v) ELSE v
    BY <1>1
  <1>3. Keeps(s, u)
    <2>1. CASE s.m.hunt
      BY <2>1, ColdGateKeeps
    <2>2. CASE ~s.m.hunt
      <3>1. u = Go(s)
        BY <2>2
      <3>2. Alike(s, u)
        BY <1>0, <3>1, GoStop
      <3> QED BY <3>2, AlikeKeeps
    <2> QED BY <2>1, <2>2
  <1>4. CASE ~u.go /\ t = u
    BY <1>3, <1>4
  <1>5. ASSUME NEW v \in SettleAfterMove(u), t = IF v.go THEN Resolve(v) ELSE v
        PROVE  Keeps(s, t) /\ (t.go => t.m.req = "none")
    <2>1. Keeps(u, v)
      BY <1>3, SettleMoveKeeps DEF Keeps
    <2>2. Keeps(s, v)
      BY <1>3, <2>1, KeepsThen
    <2>3. CASE v.go
      <3>1. Sound(v)
        BY <2>2 DEF Keeps
      <3>2. Keeps(v, Resolve(v)) /\ (Resolve(v).go => Resolve(v).m.req = "none")
        BY <3>1, ResolveKeeps DEF Sound
      <3>3. t = Resolve(v)
        BY <1>5, <2>3
      <3> QED BY <2>2, <3>2, <3>3, KeepsThen
    <2>4. CASE ~v.go
      BY <1>5, <2>2, <2>4
    <2> QED BY <2>3, <2>4
  <1> QED BY <1>2, <1>4, <1>5

(* dmr_sm_tick_ctx()                                                       *)
LEMMA TickedKeeps ==
    ASSUME site \in Sites, trunk \in BOOLEAN, NEW s, Sound(s), NEW admitted \in BOOLEAN, NEW t \in Ticked(s, admitted)
    PROVE  Keeps(s, t)
  <1> DEFINE o == [s EXCEPT !.m.t["armed"] = "off"]
  <1>0. s \in State
    BY DEF Sound
  <1>1. CASE Allowed(s)
    <2> DEFINE Work(u) ==
                  IF ~u.go THEN {u}
                  ELSE CASE u.m.st = "idle" -> TickIdle(u)
                         [] u.m.st = "cc" -> IF u.a.tuned THEN ReceiveCheck(u, admitted) ELSE {TickOnCc(u)}
                         [] u.m.st = "tuned" -> TickTuned(u, admitted)
                         [] u.m.st = "hunting" -> Hunt(u)
    <2>1. \E u \in Ready(s) : t \in Work(u)
      BY <1>1, Zenon DEF Ticked, Then
    <2>2. PICK u \in Ready(s) : t \in Work(u)
      BY <2>1
    <2>3. Keeps(s, u) /\ (u.go => u.m.req = "none")
      BY ReadyKeeps
    <2>4. Sound(u) /\ u \in State
      BY <2>3 DEF Keeps, Sound
    <2>5. CASE ~u.go
      BY <2>2, <2>3, <2>5
    <2>6. CASE u.go /\ u.m.st = "idle"
      <3>1. t \in TickIdle(u)
        BY <2>2, <2>6
      <3>2. Keeps(u, t)
        BY <2>3, <2>4, <2>6, <3>1, TickIdleKeeps
      <3> QED BY <2>3, <3>2, KeepsThen
    <2>7. CASE u.go /\ u.m.st = "cc" /\ u.a.tuned
      <3>1. t \in ReceiveCheck(u, admitted)
        BY <2>2, <2>7
      <3>2. Sound(t) /\ (StillInv(u) => StillInv(t)) /\ (trunk /\ Right(u) /\ u.a.alias # 0 => Right(t))
        BY <2>4, <3>1, ReceiveKeeps
      <3>3. Right(u) => u.a.alias # 0
        BY <2>7 DEF Right, RestInv
      <3> QED BY <2>3, <3>2, <3>3 DEF Keeps
    <2>8. CASE u.go /\ u.m.st = "cc" /\ ~u.a.tuned
      <3>1. t = TickOnCc(u)
        BY <2>2, <2>8
      <3>2. Keeps(u, t)
        BY <2>4, <3>1, TickOnCcAlike, AlikeKeeps
      <3> QED BY <2>3, <3>2, KeepsThen
    <2>9. CASE u.go /\ u.m.st = "tuned"
      <3>1. t \in TickTuned(u, admitted)
        BY <2>2, <2>9
      <3>2. Sound(t) /\ (StillInv(u) => StillInv(t)) /\ (trunk /\ Right(u) /\ u.a.alias # 0 => Right(t))
        BY <2>4, <3>1, TickTunedKeeps
      <3>3. Right(u) => u.a.alias # 0
        BY <2>9 DEF Right, RestInv
      <3> QED BY <2>3, <3>2, <3>3 DEF Keeps
    <2>10. CASE u.go /\ u.m.st = "hunting"
      <3>1. t \in Hunt(u)
        BY <2>2, <2>10
      <3>2. Keeps(u, t)
        BY <2>3, <2>4, <2>10, <3>1, HuntKeeps
      <3> QED BY <2>3, <3>2, KeepsThen
    <2>11. u.m.st \in {"idle", "cc", "tuned", "hunting"}
      BY <2>4, Parts
    <2> QED BY <2>5, <2>6, <2>7, <2>8, <2>9, <2>10, <2>11
  <1>2. CASE ~Allowed(s) /\ s.m.hunt
    <2>1. t \in ColdGate(s, FALSE)
      BY <1>2, Zenon DEF Ticked
    <2> QED BY <1>2, <2>1, ColdGateKeeps
  <1>3. CASE ~Allowed(s) /\ ~s.m.hunt
    <2>1. t = o
      BY <1>3, Zenon DEF Ticked
    <2>2. Alike(s, o)
      BY <1>0 DEF Alike, Calm, SameRx, SameAim, SameGoal, State, Machine, Timers, Period
    <2> QED BY <2>1, <2>2, AlikeKeeps
  <1> QED BY <1>1, <1>2, <1>3

-----------------------------------------------------------------------------
(* What a burst carries.                                                   *)

(* Validated content.                                                      *)
LEMMA ContentAlike ==
    ASSUME NEW s \in State
    PROVE  Alike(s, Content(s))
  <1> DEFINE g == [k \in Timers |-> IF k \in {"aw", "sw", "armed"} /\ s.m.t[k] # "off" THEN "running" ELSE s.m.t[k]]
             t == [s EXCEPT !.m.t = g]
  <1>1. g \in [Timers -> Period]
    BY Parts DEF Period
  <1>2. Content(s) = t
    BY DEF Content
  <1> HIDE DEF g
  <1>3. Alike(s, t)
    BY <1>1 DEF Alike, Calm, SameRx, SameAim, SameGoal, State, Machine
  <1> QED BY <1>2, <1>3

(* Accepted voice.                                                         *)
LEMMA VoiceAlike ==
    ASSUME NEW s \in State
    PROVE  Alike(s, Voice(s))
  <1> DEFINE t == [s EXCEPT !.m.talk = TRUE, !.m.t["voice"] = "running"]
  <1>1. Voice(s) \in {s, t}
    BY Zenon DEF Voice
  <1>2. Alike(s, t)
    BY DEF Alike, Calm, SameRx, SameAim, SameGoal, State, Machine, Timers, Period
  <1> HIDE DEF t
  <1> QED BY <1>1, <1>2, AlikeSelf

(* The rest of handle_grant(): on a voice channel nothing is tracked       *)
LEMMA FollowKeeps ==
    ASSUME NEW s, Sound(s), NEW f \in Freqs, NEW status \in BOOLEAN, NEW t \in FollowAt(s, f, status)
    PROVE  /\ Sound(t) /\ (StillInv(s) => StillInv(t)) /\ (Right(s) /\ s.a.alias # 0 => Right(t))
           /\ t.a.rest = s.a.rest
  <1>0. s \in State /\ f \in Places
    BY DEF Sound, Places
  <1>1. PICK u \in Tune(s, f, "loose") : t = IF u.go THEN Follow(u, f, status) ELSE s
    BY Zenon DEF FollowAt
  <1>2. CASE ~u.go
    BY <1>1, <1>2
  <1>3. CASE u.go
    <2> DEFINE l == Loosen(u)
               g == [k \in Timers |-> IF k = "tune" THEN "running" ELSE IF k = "voice" THEN "off" ELSE l.m.t[k]]
               x == [l EXCEPT !.m.vc = f, !.m.follow = status, !.m.talk = FALSE, !.m.acq = FALSE,
                              !.m.sup = FALSE, !.a.tuned = TRUE, !.m.t = g]
               w == [u EXCEPT !.a.tuned = TRUE]
    <2>1. u \in State /\ SameMachine(s, u)
      BY <1>0, TuneEffect
    <2>2. /\ w \in State /\ SameRx(u, w) /\ w.m = u.m /\ w.a.tuned = TRUE /\ w.a.alias = u.a.alias /\ w.a.rest = u.a.rest
          /\ w.named = u.named
      BY <2>1 DEF State, Shared, SameRx
    <2>a. SameAim(u, w)
      BY <2>2 DEF SameAim
    <2> HIDE DEF w
    <2>3. Sound(w) /\ (LinkInv(s) => LinkInv(w))
      BY <1>3, <2>2, <2>a, LooseTuned
    <2>4. /\ l \in State /\ l.a = u.a /\ l.hw = u.hw
          /\ l.center = u.center /\ l.failed = u.failed /\ l.named = u.named
          /\ LetGo(u.live, l.live) /\ l.m.req = "none" /\ l.m.cc = u.m.cc /\ l.m.rxf = u.m.rxf
          /\ l.m.cur = u.m.cur /\ l.m.hunt = u.m.hunt /\ l.m.conf = u.m.conf
      BY <2>1, LoosenEffect
    <2>5. t = SetState([l EXCEPT !.m.vc = f, !.m.follow = status, !.m.talk = FALSE, !.m.acq = FALSE,
                                 !.m.sup = FALSE, !.a.tuned = TRUE,
                                 !.m.t = [k \in Timers |-> IF k = "tune" THEN "running"
                                                            ELSE IF k = "voice" THEN "off" ELSE @[k]]], "tuned")
      BY <1>1, <1>3, Zenon DEF Follow
    <2> HIDE DEF l
    <2>6. g \in [Timers -> Period]
      BY <2>4, Parts DEF Period
    <2>7. t = SetState(x, "tuned")
      <3>1. [l EXCEPT !.m.vc = f, !.m.follow = status, !.m.talk = FALSE, !.m.acq = FALSE,
                      !.m.sup = FALSE, !.a.tuned = TRUE,
                      !.m.t = [k \in Timers |-> IF k = "tune" THEN "running"
                                                 ELSE IF k = "voice" THEN "off" ELSE @[k]]] = x
        BY <2>4 DEF State, Machine
      <3> QED BY <2>5, <3>1, Zenon
    <2> HIDE DEF g
    <2>8. /\ x \in State /\ SameRx(l, x) /\ x.m.req = l.m.req /\ x.m.cc = l.m.cc /\ x.m.rxf = l.m.rxf
          /\ x.m.cur = l.m.cur /\ x.m.hunt = l.m.hunt /\ x.m.conf = l.m.conf /\ ~x.m.sup /\ x.a.tuned = TRUE /\ x.a.alias = l.a.alias
          /\ x.a.rest = l.a.rest /\ x.named = l.named
      <3> DEFINE n == [l.m EXCEPT !.vc = f, !.follow = status, !.talk = FALSE, !.acq = FALSE, !.sup = FALSE]
                 y == [l EXCEPT !.m = n]
      <3>0. l.m \in Machine
        BY <2>4, Parts
      <3>a. /\ n \in Machine /\ n.req = l.m.req /\ n.cc = l.m.cc /\ n.rxf = l.m.rxf
            /\ n.cur = l.m.cur /\ n.hunt = l.m.hunt /\ n.conf = l.m.conf /\ ~n.sup
        BY <1>0, <3>0 DEF Machine
      <3>1. x = [y EXCEPT !.a.tuned = TRUE, !.m.t = g]
        BY <2>4 DEF State, Machine
      <3> HIDE DEF n
      <3>2. /\ y \in State /\ SameRx(l, y) /\ y.m.req = l.m.req /\ y.m.cc = l.m.cc /\ y.m.rxf = l.m.rxf
            /\ y.m.cur = l.m.cur /\ y.m.hunt = l.m.hunt /\ y.m.conf = l.m.conf /\ ~y.m.sup /\ y.a = l.a /\ y.named = l.named
        BY <2>4, <3>a DEF State, SameRx
      <3> HIDE DEF x, y
      <3>3. /\ x \in State /\ SameRx(y, x) /\ x.m.req = y.m.req /\ x.m.cc = y.m.cc /\ x.m.rxf = y.m.rxf
            /\ x.m.cur = y.m.cur /\ x.m.hunt = y.m.hunt /\ x.m.conf = y.m.conf /\ x.m.sup = y.m.sup /\ x.a.tuned = TRUE
            /\ x.a.alias = y.a.alias /\ x.a.rest = y.a.rest /\ x.named = y.named
        BY <2>6, <3>1, <3>2 DEF State, Machine, Shared, SameRx
      <3> QED BY <3>2, <3>3 DEF SameRx
    <2> HIDE DEF x
    <2>9. /\ t \in State /\ SameRx(x, t) /\ SameAim(x, t) /\ t.a = x.a /\ t.named = x.named
          /\ t.m.st = "tuned" /\ t.m.sup = x.m.sup /\ t.m.hunt = x.m.hunt /\ t.m.conf = x.m.conf
      BY <2>7, <2>8, SetStateAlike
    <2>10. /\ t.m.req = "none" /\ LetGo(w.live, t.live) /\ t.hw = w.hw /\ t.center = w.center /\ t.failed = w.failed
           /\ t.m.rxf = w.m.rxf /\ t.m.cur = w.m.cur /\ t.m.cc = w.m.cc /\ t.a.tuned = TRUE /\ t.a.alias = s.a.alias
           /\ t.a.rest = s.a.rest /\ t.named = s.named /\ ~t.m.sup /\ t.m.cc = s.m.cc
           /\ t.m.hunt = s.m.hunt /\ t.m.conf = s.m.conf
      BY <2>1, <2>2, <2>4, <2>8, <2>9 DEF SameRx, SameAim, SameMachine
    <2>11. OwnInv(t)
      BY <2>10 DEF OwnInv, LetGo
    <2>12. LinkInv(w) => LinkInv(t)
      <3> SUFFICES ASSUME LinkInv(w)
                   PROVE  LinkInv(t)
        OBVIOUS
      <3>q. Len(w.live) \in Nat
        BY <2>2, Queue
      <3>1. CenterInv(t)
        <4>1. Len(w.live) > 0 => t.live[Len(t.live)].f = w.live[Len(w.live)].f
          BY <3>q, <2>10 DEF LetGo
        <4> QED BY <4>1, <2>10 DEF LinkInv, CenterInv, LetGo
      <3>2. HasMove(t) => HasMove(w)
        BY <2>10 DEF HasMove, LetGo
      <3>3. MoveInv(t)
        BY <2>10, <3>2 DEF LinkInv, MoveInv, LetGo
      <3>4. ProbeInv(t) /\ WhereInv(t)
        BY <2>10 DEF ProbeInv, WhereInv, LetGo
      <3> QED BY <3>1, <3>3, <3>4 DEF LinkInv
    <2>13. Right(s) /\ s.a.alias # 0 => RestInv(t) /\ NamedInv(t)
      BY <2>9, <2>10 DEF Right, RestInv, NamedInv
    <2>14. StillInv(s) => StillInv(t)
      BY <2>9, <2>10 DEF StillInv
    <2> QED BY <2>3, <2>9, <2>10, <2>11, <2>12, <2>13, <2>14 DEF Sound, Right
  <1> QED BY <1>2, <1>3

(* handle_grant()                                                          *)
LEMMA GrantKeeps ==
    ASSUME NEW s, Sound(s), NEW f \in Freqs, NEW admitted \in BOOLEAN, NEW t \in Grant(s, f, admitted), Hears(s)
    PROVE  Keeps(s, t)
  <1> DEFINE o == [s EXCEPT !.a.owner = "dmr"]
             p == IF o.m.acq /\ ~o.a.tuned /\ RxCurrent(o) THEN NoteActivity(o, o.m.probe) ELSE o
  <1>0. s \in State
    BY DEF Sound
  <1>1. Alike(s, o)
    BY <1>0, OwnedAlike
  <1>2. \/ t = o
        \/ o.a.alias # 0 /\ o.m.req = "none" /\ t \in FollowAt(p, f, FALSE)
    BY Zenon DEF Grant
  <1> HIDE DEF o
  <1>3. Keeps(s, o) /\ Hears(o) /\ o \in State
    BY <1>1, AlikeKeeps, AlikeHears DEF Alike
  <1>4. CASE t = o
    BY <1>3, <1>4
  <1>5. CASE o.a.alias # 0 /\ o.m.req = "none" /\ t \in FollowAt(p, f, FALSE)
    <2>1. Sound(p) /\ p.a.alias # 0 /\ (StillInv(o) => StillInv(p)) /\ (Right(o) => Right(p))
      <3>1. CASE o.m.acq /\ ~o.a.tuned /\ RxCurrent(o)
        <4>1. o.m.probe \in Places /\ Sound(o) /\ p = NoteActivity(o, o.m.probe)
          BY <1>3, <3>1, Parts DEF Keeps
        <4> HIDE DEF p
        <4>2. /\ Sound(p) /\ (o.a.alias # 0 => p.a.alias # 0) /\ (StillInv(o) => StillInv(p))
              /\ Right(o) /\ ~o.a.tuned /\ Hears(o) => Right(p)
          BY <1>5, <4>1, ActivityKeeps
        <4> QED BY <1>3, <1>5, <3>1, <4>2
      <3>2. CASE ~(o.m.acq /\ ~o.a.tuned /\ RxCurrent(o))
        <4>1. p = o
          BY <3>2
        <4> QED BY <1>3, <1>5, <4>1 DEF Keeps
      <3> QED BY <3>1, <3>2
    <2> HIDE DEF p
    <2>2. Sound(t) /\ (StillInv(p) => StillInv(t)) /\ (Right(p) /\ p.a.alias # 0 => Right(t))
      BY <1>5, <2>1, FollowKeeps
    <2> QED BY <1>3, <2>1, <2>2 DEF Keeps
  <1> QED BY <1>2, <1>4, <1>5


(* A message names a frequency: the rest channel and the way back change   *)
(* to a frequency that is named.                                           *)
LEMMA RenamedKeeps ==
    ASSUME NEW s, Sound(s), NEW t, t \in State, SameRx(s, t), t.m.probe = s.m.probe, t.m.rxf = s.m.rxf, t.m.cur = s.m.cur,
           t.m.req = s.m.req, Calm(s, t), t.a.tuned = s.a.tuned, s.a.alias # 0 => t.a.alias # 0,
           ~Loops /\ LinkInv(s) => \A f \in {t.a.alias, t.a.rest, t.m.cc} : f \in {s.a.alias, s.a.rest, s.m.cc} \/ f \in t.named
    PROVE  Sound(t) /\ (StillInv(s) => StillInv(t)) /\ (Right(s) => Right(t))
  <1>1. OwnInv(t)
    BY DEF Sound, SameRx, OwnInv
  <1>2. HasMove(t) = HasMove(s)
    BY DEF SameRx, HasMove
  <1>3. LinkInv(s) => LinkInv(t)
    BY <1>2 DEF SameRx, LinkInv, CenterInv, MoveInv, ProbeInv, WhereInv
  <1>4. RestInv(s) => RestInv(t)
    BY DEF Calm, RestInv
  <1>5. Right(s) => NamedInv(t)
    BY DEF Right, NamedInv, Calm
  <1>6. StillInv(s) => StillInv(t)
    BY DEF StillInv, Calm
  <1> QED BY <1>1, <1>3, <1>4, <1>5, <1>6 DEF Sound, Right

(* A channel that the message tunes by itself.                             *)
LEMMA ConPlusKeeps ==
    ASSUME NEW s, Sound(s), NEW f \in Freqs, NEW t \in ConPlus(s, f)
    PROVE  Keeps(s, t)
  <1>0. s \in State
    BY DEF Sound
  <1>1. \/ t = s
        \/ s.a.alias # 0 /\ \E u \in Tune(s, f, "loose") : u.go /\ t = [u EXCEPT !.a.tuned = TRUE]
    BY Zenon DEF ConPlus
  <1>2. CASE t = s
    BY <1>2, KeepsSelf
  <1>3. ASSUME s.a.alias # 0, NEW u \in Tune(s, f, "loose"), u.go, t = [u EXCEPT !.a.tuned = TRUE]
        PROVE  Keeps(s, t)
    <2>1. u \in State /\ SameMachine(s, u) /\ u.m.req = s.m.req
      BY <1>0, <1>3, TuneEffect
    <2>2. /\ t \in State /\ SameRx(u, t) /\ t.m = u.m /\ t.a.tuned = TRUE /\ t.a.alias = u.a.alias /\ t.a.rest = u.a.rest
          /\ t.named = u.named
      BY <1>3, <2>1 DEF State, Shared, SameRx
    <2>3. SameAim(u, t)
      BY <2>2 DEF SameAim
    <2>4. Sound(t) /\ (LinkInv(s) => LinkInv(t))
      <3>1. u.go /\ t.a.tuned
        BY <1>3, <2>2
      <3> QED BY <2>2, <2>3, <3>1, LooseTuned
    <2>5. RestInv(s) /\ NamedInv(s) => RestInv(t) /\ NamedInv(t)
      BY <1>3, <2>1, <2>2 DEF RestInv, NamedInv, SameMachine
    <2>6. StillInv(s) => StillInv(t)
      BY <2>1, <2>2 DEF StillInv, SameMachine
    <2> QED BY <2>4, <2>5, <2>6 DEF Keeps, Right
  <1> QED BY <1>1, <1>2, <1>3

(* dmr_cspdu_pf0_c_bcast_try_switch_tscc()                                 *)
LEMMA SwitchKeeps ==
    ASSUME NEW s, Sound(s), NEW f \in Freqs, NEW t \in SwitchTscc(s, f), trunk \in BOOLEAN
    PROVE  Keeps(s, t)
  <1> DEFINE x == [s EXCEPT !.named = @ \cup {f}]
  <1>0. s \in State /\ f \in Places
    BY DEF Sound, Places
  <1>1. t = s \/ t \in ReturnToCc(x, f)
    BY Zenon DEF SwitchTscc
  <1>2. Alike(s, x) /\ f \in x.named
    BY <1>0 DEF Alike, Calm, SameRx, SameAim, SameGoal, State
  <1> HIDE DEF x
  <1>3. CASE t = s
    BY <1>3, KeepsSelf
  <1>4. CASE t \in ReturnToCc(x, f)
    <2>1. Keeps(s, x)
      BY <1>2, AlikeKeeps
    <2>2. Sound(x)
      BY <2>1 DEF Keeps
    <2>3. Sound(t) /\ (StillInv(x) => StillInv(t)) /\ (trunk /\ Right(x) => Right(t))
      BY <1>2, <1>4, <2>2, ReturnKeeps
    <2> QED BY <2>1, <2>3 DEF Keeps
  <1> QED BY <1>1, <1>3, <1>4

(* dmr_slco_tune_and_reset()                                               *)
LEMMA ResetKeeps ==
    ASSUME NEW s, Sound(s), NEW f \in Freqs, NEW t \in TuneAndReset(s, f), trunk
    PROVE  Keeps(s, t)
  <1> DEFINE x == [s EXCEPT !.a.alias = f, !.named = @ \cup {f}]
  <1>0. s \in State /\ f \in Places /\ f # 0
    BY Carriers DEF Sound
  <1>1. t = x \/ \E u \in Tune(x, f, "own") : u.go /\ t = BeginAcquisition([u EXCEPT !.a.tuned = FALSE], f)
    BY Zenon DEF TuneAndReset
  <1>2. /\ x \in State /\ SameRx(s, x) /\ x.m = s.m /\ x.a.tuned = s.a.tuned /\ x.a.alias = f /\ x.a.rest = s.a.rest
        /\ x.named = s.named \cup {f}
    BY <1>0 DEF SameRx, State, Shared
  <1> HIDE DEF x
  <1>3. Calm(s, x)
    BY <1>2 DEF Calm
  <1>4. Sound(x) /\ (StillInv(s) => StillInv(x)) /\ (Right(s) => Right(x))
    BY <1>0, <1>2, <1>3, RenamedKeeps
  <1>5. CASE t = x
    BY <1>4, <1>5 DEF Keeps
  <1>6. ASSUME NEW u \in Tune(x, f, "own"), u.go, t = BeginAcquisition([u EXCEPT !.a.tuned = FALSE], f)
        PROVE  Keeps(s, t)
    <2> DEFINE v == [u EXCEPT !.a.tuned = FALSE]
    <2>1. u \in State /\ SameMachine(x, u)
      BY <1>2, TuneEffect
    <2>2. /\ v \in State /\ SameRx(u, v) /\ v.m = u.m /\ ~v.a.tuned /\ v.a.alias = u.a.alias /\ v.a.rest = u.a.rest
          /\ v.named = u.named
      BY <2>1 DEF State, Shared, SameRx
    <2>3. t = BeginAcquisition(v, f)
      BY <1>6
    <2> HIDE DEF v
    <2>4. Sound(t) /\ StillInv(t) /\ (trunk /\ LinkInv(x) /\ NamedInv(v) /\ (~Loops => f \in v.named) => Right(t))
      BY <1>4, <1>6, <2>2, <2>3, BeginKeeps
    <2>5. NamedInv(x) => NamedInv(v)
      BY <2>1, <2>2 DEF NamedInv, SameMachine
    <2>6. f \in v.named
      BY <1>2, <2>1, <2>2 DEF SameMachine
    <2> QED BY <1>4, <2>4, <2>5, <2>6 DEF Keeps, Right
  <1> QED BY <1>1, <1>5, <1>6

(* dmr_sm_note_xpt_site(), and the hop to the free channel                 *)
LEMMA XptKeeps ==
    ASSUME NEW s, Sound(s), NEW f \in Places, NEW t \in Xpt(s, f), trunk \in BOOLEAN, Hears(s)
    PROVE  Keeps(s, t)
  <1> DEFINE k == [s EXCEPT !.m.xpt = TRUE, !.a.owner = "dmr"]
             c == Current(s)
             y == [k EXCEPT !.m.cc = c, !.a.alias = c, !.named = @ \cup {s.hw}]
             x == IF s.a.tuned \/ s.m.st = "tuned" THEN k ELSE y
  <1>0. s \in State /\ s.hw \in Freqs /\ s.hw \in Places
    BY Parts, Carriers DEF Sound
  <1>1. t = x \/ (f # 0 /\ trunk /\ t \in TuneAndReset(x, f))
    BY Zenon DEF Xpt
  <1>2. c \in Freqs /\ c \in Places /\ c # 0
    BY <1>0, CurrentIs, Carriers
  <1>3. LinkInv(s) /\ ~s.a.tuned /\ ~Loops => c = s.hw
    BY <1>0, CurrentIs, HearsSettled
  <1>4. Alike(s, k) /\ k \in State
    BY <1>0 DEF Alike, Calm, SameRx, SameAim, SameGoal, State, Machine, Shared
  <1> HIDE DEF k, c
  <1>5. Keeps(s, k)
    BY <1>4, AlikeKeeps
  <1>6. /\ y \in State /\ SameRx(k, y) /\ y.m.probe = k.m.probe /\ y.m.rxf = k.m.rxf /\ y.m.cur = k.m.cur
        /\ y.m.req = k.m.req /\ y.m.st = k.m.st /\ y.m.sup = k.m.sup /\ y.m.hunt = k.m.hunt /\ y.m.conf = k.m.conf
        /\ y.a.tuned = k.a.tuned /\ y.a.alias = c /\ y.a.rest = k.a.rest /\ y.m.cc = c
        /\ y.named = k.named \cup {s.hw}
    <2>1. y \in State
      <3> DEFINE n == [k.m EXCEPT !.cc = c]
                 a == [k.a EXCEPT !.alias = c]
      <3>1. k.m \in Machine /\ k.a \in Shared /\ k.named \cup {s.hw} \subseteq Places
        BY <1>0, <1>4, Parts DEF State
      <3>2. n \in Machine /\ a \in Shared
        BY <1>2, <3>1 DEF Machine, Shared
      <3>3. y = [k EXCEPT !.m = n, !.a = a, !.named = k.named \cup {s.hw}]
        BY <1>4 DEF State, Machine, Shared
      <3> HIDE DEF n, a
      <3> QED BY <1>4, <3>1, <3>2, <3>3 DEF State
    <2>2. SameRx(k, y) /\ y.a.tuned = k.a.tuned /\ y.a.alias = c /\ y.a.rest = k.a.rest /\ y.named = k.named \cup {s.hw}
      BY <1>4 DEF State, Shared, SameRx
    <2>3. /\ y.m.probe = k.m.probe /\ y.m.rxf = k.m.rxf /\ y.m.cur = k.m.cur /\ y.m.req = k.m.req /\ y.m.st = k.m.st
          /\ y.m.sup = k.m.sup /\ y.m.hunt = k.m.hunt /\ y.m.conf = k.m.conf /\ y.m.cc = c
      BY <1>4 DEF State, Machine
    <2> QED BY <2>1, <2>2, <2>3
  <1> HIDE DEF y
  <1>7. ~s.a.tuned => Keeps(s, y)
    <2> HAVE ~s.a.tuned
    <2>1. SameRx(s, y) /\ Calm(s, y) /\ y.a.tuned = s.a.tuned
      BY <1>4, <1>6 DEF Alike, Calm, SameRx, SameGoal
    <2>2. /\ y.m.probe = s.m.probe /\ y.m.rxf = s.m.rxf /\ y.m.cur = s.m.cur
          /\ y.m.req = s.m.req
      BY <1>4, <1>6 DEF Alike, SameAim
    <2>3. ~Loops /\ LinkInv(s) =>
             \A g \in {y.a.alias, y.a.rest, y.m.cc} : g \in {s.a.alias, s.a.rest, s.m.cc} \/ g \in y.named
      BY <1>3, <1>4, <1>6 DEF Alike, SameGoal
    <2> QED BY <1>2, <1>6, <2>1, <2>2, <2>3, RenamedKeeps DEF Keeps
  <1>8. Keeps(s, x) /\ Sound(x)
    BY <1>5, <1>7 DEF Keeps
  <1> HIDE DEF x
  <1>9. CASE t = x
    BY <1>8, <1>9
  <1>10. CASE f # 0 /\ trunk /\ t \in TuneAndReset(x, f)
    <2>1. f \in Freqs
      BY <1>10 DEF Places
    <2>2. Keeps(x, t)
      BY <1>8, <1>10, <2>1, ResetKeeps
    <2> QED BY <1>8, <2>2, KeepsThen
  <1> QED BY <1>1, <1>9, <1>10

(* dmr_cspdu_pf0_p_clear_emit_release(), handle_release()                  *)
LEMMA ClearKeeps ==
    ASSUME NEW s, Sound(s), NEW force \in BOOLEAN, NEW t \in Clear(s, force), trunk \in BOOLEAN
    PROVE  Keeps(s, t)
  <1> DEFINE b == s.a.force \/ force
             x == [s EXCEPT !.a.force = b]
             y == [x EXCEPT !.m.talk = FALSE]
  <1>0. s \in State /\ b \in BOOLEAN
    BY Parts DEF Sound
  <1>1. t = s \/ t = x \/ t = y \/ (s.a.alias # 0 /\ t \in Release(x))
    BY Zenon DEF Clear
  <1> HIDE DEF b
  <1>2. Alike(s, x) /\ x.a.alias = s.a.alias
    BY <1>0 DEF Alike, Calm, SameRx, SameAim, SameGoal, State, Shared
  <1> HIDE DEF x
  <1>3. x \in State
    BY <1>2 DEF Alike
  <1>4. Alike(x, y)
    BY <1>3 DEF Alike, Calm, SameRx, SameAim, SameGoal, State, Machine
  <1> HIDE DEF y
  <1>5. Keeps(s, x) /\ Sound(x)
    BY <1>2, AlikeKeeps DEF Keeps
  <1>6. Keeps(s, y)
    BY <1>4, <1>5, AlikeKeeps, KeepsThen
  <1>7. CASE s.a.alias # 0 /\ t \in Release(x)
    <2>1. Sound(t) /\ (StillInv(x) => StillInv(t)) /\ (trunk /\ Right(x) /\ x.a.alias # 0 => Right(t))
      BY <1>5, <1>7, ReleaseKeeps
    <2> QED BY <1>2, <1>5, <1>7, <2>1 DEF Keeps
  <1>8. Keeps(s, s)
    BY DEF Keeps
  <1> QED BY <1>1, <1>5, <1>6, <1>7, <1>8

(* dmr_cspdu_cap_plus_handle_3e(), once the rest channel is noted and a    *)
(* call is followed or not: the receiver goes to the rest channel          *)
LEMMA RestedKeeps ==
    ASSUME NEW s, Sound(s), NEW rest \in Freqs, s.a.rest = rest, trunk \in BOOLEAN,
           NEW t \in IF ~trunk THEN {s}
                     ELSE IF s.a.tuned THEN {[s EXCEPT !.a.alias = rest]}
                     ELSE IF ReceiverOn(s, rest) THEN {s} ELSE ReturnToCc(s, rest)
    PROVE  Keeps(s, t)
  <1>0. s \in State /\ rest \in Places /\ rest # 0
    BY Carriers DEF Sound
  <1>1. t = s \/ t = [s EXCEPT !.a.alias = rest] \/ t \in ReturnToCc(s, rest)
    BY Zenon
  <1>2. Right(s) /\ ~Loops => rest \in s.named
    BY <1>0 DEF Right, NamedInv
  <1>3. CASE t = s
    BY <1>3, KeepsSelf
  <1>4. CASE t = [s EXCEPT !.a.alias = rest]
    <2>1. /\ t \in State /\ SameRx(s, t) /\ t.m = s.m /\ t.a.tuned = s.a.tuned /\ t.a.alias = rest /\ t.a.rest = s.a.rest
          /\ t.named = s.named
      BY <1>0, <1>4 DEF SameRx, State, Shared
    <2>2. Calm(s, t)
      BY <2>1 DEF Calm
    <2>3. ~Loops /\ LinkInv(s) =>
             \A g \in {t.a.alias, t.a.rest, t.m.cc} : g \in {s.a.alias, s.a.rest, s.m.cc} \/ g \in t.named
      BY <2>1
    <2>4. Sound(t) /\ (StillInv(s) => StillInv(t)) /\ (Right(s) => Right(t))
      BY <1>0, <2>1, <2>2, <2>3, RenamedKeeps
    <2> QED BY <2>4 DEF Keeps
  <1>5. CASE t \in ReturnToCc(s, rest)
    <2>1. Sound(t) /\ (StillInv(s) => StillInv(t)) /\ (trunk /\ Right(s) /\ (~Loops => rest \in s.named) => Right(t))
      BY <1>5, ReturnKeeps
    <2> QED BY <1>2, <2>1 DEF Keeps
  <1> QED BY <1>1, <1>3, <1>4, <1>5

(* dmr_cspdu_cap_plus_handle_3e()                                          *)
LEMMA StatusKeeps ==
    ASSUME NEW s, Sound(s), NEW rest \in Freqs, NEW g \in Places, NEW t \in Status(s, rest, g), trunk \in BOOLEAN, Hears(s)
    PROVE  Keeps(s, t)
  <1> DEFINE x == [s EXCEPT !.a.rest = rest, !.named = @ \cup {rest}]
             n == NoteCc(x, rest)
             R(u) == IF ~trunk THEN {u}
                     ELSE IF u.a.tuned THEN {[u EXCEPT !.a.alias = rest]}
                     ELSE IF ReceiverOn(u, rest) THEN {u} ELSE ReturnToCc(u, rest)
  <1>0. s \in State /\ rest \in Places /\ rest # 0
    BY Carriers DEF Sound
  <1>1. PICK u : (u = n \/ (g # 0 /\ n.a.alias # 0 /\ u \in FollowAt(n, g, TRUE))) /\ t \in R(u)
    BY Zenon DEF Status, Then
  <1>2. /\ x \in State /\ SameRx(s, x) /\ x.m = s.m /\ x.a.tuned = s.a.tuned /\ x.a.alias = s.a.alias /\ x.a.rest = rest
        /\ x.named = s.named \cup {rest}
    BY <1>0 DEF SameRx, State, Shared
  <1> HIDE DEF x, n
  <1>3. Calm(s, x)
    BY <1>2 DEF Calm
  <1>4. ~Loops /\ LinkInv(s) =>
           \A f \in {x.a.alias, x.a.rest, x.m.cc} : f \in {s.a.alias, s.a.rest, s.m.cc} \/ f \in x.named
    BY <1>2
  <1>5. Sound(x) /\ (StillInv(s) => StillInv(x)) /\ (Right(s) => Right(x))
    BY <1>2, <1>3, <1>4, RenamedKeeps
  <1>6. Hears(x)
    BY <1>2, AlikeHears
  <1>7. Keeps(x, n) /\ n.a.rest = rest
    BY <1>0, <1>2, <1>5, <1>6, NoteCcKeeps DEF n
  <1>8. Keeps(s, n) /\ Sound(n)
    BY <1>5, <1>7 DEF Keeps
  <1>9. Keeps(s, u) /\ Sound(u) /\ u.a.rest = rest
    <2>1. CASE u = n
      BY <1>7, <1>8, <2>1
    <2>2. CASE g # 0 /\ n.a.alias # 0 /\ u \in FollowAt(n, g, TRUE)
      <3>1. g \in Freqs /\ TRUE \in BOOLEAN
        BY <2>2 DEF Places
      <3>2. /\ Sound(u) /\ (StillInv(n) => StillInv(u)) /\ (Right(n) /\ n.a.alias # 0 => Right(u))
            /\ u.a.rest = n.a.rest
        BY <1>8, <2>2, <3>1, FollowKeeps, Zenon
      <3> QED BY <1>7, <1>8, <2>2, <3>2 DEF Keeps
    <2> QED BY <1>1, <2>1, <2>2
  <1>10. Keeps(u, t)
    BY <1>1, <1>9, RestedKeeps
  <1> QED BY <1>9, <1>10, KeepsThen

-----------------------------------------------------------------------------
(* The steps.                                                              *)

(* A handler that leaves s leaves the invariant if s has it.               *)
LEMMA StepSound ==
    ASSUME IInv, NEW s, Leaves(s), Sound(s), StillInv(s), trunk' \in BOOLEAN, unseen' \in BOOLEAN, loop' \in BOOLEAN,
           loop' => Loops,
           ~unseen' => trunk' /\ Right(s)
    PROVE  IInv'
  <1>0. s \in State /\ OwnInv(s)
    BY DEF Sound
  <1>1. /\ site' = site /\ m' = s.m /\ shared' = s.a /\ named' = s.named
        /\ rx'.hw = s.hw /\ rx'.center = s.center /\ rx'.live = s.live /\ rx'.failed = s.failed
    BY DEF Leaves
  <1>2. Sound(Here)'
    <2>1. (Here \in State)'
      BY <1>0, <1>1 DEF Here, State
    <2>2. OwnInv(Here)'
      BY <1>0, <1>1 DEF Here, OwnInv
    <2> QED BY <2>1, <2>2 DEF Sound
  <1>3. Right(s) => Right(Here)'
    <2>1. RestInv(s) => RestInv(Here)'
      BY <1>1 DEF Here, RestInv
    <2>2. CenterInv(s) => CenterInv(Here)'
      BY <1>1 DEF Here, CenterInv
    <2>3. MoveInv(s) => MoveInv(Here)'
      BY <1>1 DEF Here, MoveInv, HasMove
    <2>4. ProbeInv(s) => ProbeInv(Here)'
      BY <1>1 DEF Here, ProbeInv
    <2>5. WhereInv(s) => WhereInv(Here)'
      BY <1>1 DEF Here, WhereInv
    <2>6. NamedInv(s) => NamedInv(Here)'
      BY <1>1 DEF Here, NamedInv, Loops
    <2> QED BY <2>1, <2>2, <2>3, <2>4, <2>5, <2>6 DEF Right, LinkInv
  <1>4. (site \in Sites)' /\ (loop => Loops)'
    BY <1>1 DEF IInv, Loops
  <1>5. (rx \in Receiver)'
    BY <1>0, Parts DEF Leaves, Receiver
  <1>6. StillInv(Here)'
    BY <1>1 DEF Here, StillInv, Map
  <1> QED BY <1>2, <1>3, <1>4, <1>5, <1>6 DEF IInv

(* A handler whose every part keeps the invariant, keeps it.               *)
LEMMA StepKeeps ==
    ASSUME IInv, NEW s, Leaves(s), Keeps(Here, s), trunk' = trunk, unseen' = unseen, loop' \in BOOLEAN, loop' => Loops
    PROVE  IInv'
  <1>1. Sound(s) /\ StillInv(s) /\ (~unseen' => trunk' /\ Right(s)) /\ trunk' \in BOOLEAN /\ unseen' \in BOOLEAN
    BY DEF Keeps, IInv
  <1> QED BY <1>1, StepSound

(* The state a handler starts from.                                        *)
LEMMA HereTyped ==
    ASSUME IInv
    PROVE  /\ Sound(Here) /\ StillInv(Here) /\ Here \in State /\ site \in Sites /\ trunk \in BOOLEAN
           /\ Here.m = m /\ Here.a = shared /\ Here.hw = rx.hw /\ Here.center = rx.center /\ Here.live = rx.live
           /\ Here.failed = rx.failed /\ Here.named = named
  BY DEF IInv, Sound, Here

(* A burst is decoded.                                                     *)
LEMMA DecodeKeeps ==
    ASSUME IInv, NEW kind, NEW S, Decode(kind, S),
           Hears(Here) /\ Keeps(Here, Heard) /\ Sound(Heard) /\ Hears(Heard) => \A s \in S : Keeps(Heard, s)
    PROVE  IInv'
  <1>0. Here \in State /\ Sound(Here) /\ site \in Sites /\ Here.live = rx.live
    BY HereTyped
  <1>1. Hears(Here)
    <2>1. \A i \in DOMAIN rx.live : rx.live[i].tag # "move"
      BY DEF Decode
    <2>2. ~HasMove(Here)
      BY <1>0, <2>1, Queue DEF HasMove
    <2>3. ~Loops => Settled(Here)
      BY DEF Decode, IInv
    <2> QED BY <2>2, <2>3 DEF Hears
  <1>2. Alike(Here, Heard)
    BY <1>0, ContentAlike DEF Heard
  <1>3. Keeps(Here, Heard) /\ Sound(Heard)
    BY <1>0, <1>2, AlikeKeeps DEF Keeps
  <1>4. Hears(Heard)
    BY <1>1, <1>2, AlikeHears DEF Alike
  <1>5. PICK s \in S : Leaves(s)
    BY DEF Decode
  <1>6. Keeps(Here, s)
    BY <1>1, <1>3, <1>4, KeepsThen
  <1>7. Loops \in BOOLEAN
    BY <1>0, DmrAssumption DEF Loops
  <1>8. loop' \in BOOLEAN /\ (loop' => Loops) /\ trunk' = trunk /\ unseen' = unseen
    BY <1>7 DEF Decode, IInv
  <1> QED BY <1>5, <1>6, <1>8, StepKeeps

(* Every kind of burst.                                                    *)
LEMMA DecodingStep ==
    ASSUME IInv, Decoding
    PROVE  IInv'
  <1> DEFINE Good == Hears(Here) /\ Keeps(Here, Heard) /\ Sound(Heard) /\ Hears(Heard)
  <1>0. trunk \in BOOLEAN /\ 0 \in Places
    BY DEF IInv, Places
  <1>1. Good => Keeps(Heard, Csbk(Heard)) /\ Sound(Csbk(Heard)) /\ Hears(Csbk(Heard))
    BY CsbkKeeps DEF Keeps
  <1>2. CASE ControlBurst
    <2>1. PICK first \in {Heard, Csbk(Heard)} : Decode("cc", {NoteCc(first, 0)})
      BY <1>2 DEF ControlBurst
    <2>2. Good => Keeps(Heard, first) /\ Sound(first) /\ Hears(first)
      BY <1>1, KeepsSelf
    <2>3. Good => Keeps(first, NoteCc(first, 0))
      BY <1>0, <2>2, NoteCcKeeps
    <2>4. Good => \A s \in {NoteCc(first, 0)} : Keeps(Heard, s)
      BY <2>2, <2>3, KeepsThen
    <2> QED BY <2>1, <2>4, DecodeKeeps
  <1>3. CASE VoiceBurst
    <2>1. Good => \A s \in {Voice(Heard)} : Keeps(Heard, s)
      BY VoiceAlike, AlikeKeeps DEF Sound
    <2> QED BY <1>3, <2>1, DecodeKeeps DEF VoiceBurst
  <1>4. ASSUME NEW f \in Freqs, TsccBurst(f)
        PROVE  IInv'
    <2>1. Good => \A s \in SwitchTscc(Csbk(Heard), f) : Keeps(Heard, s)
      BY <1>0, <1>1, SwitchKeeps, KeepsThen
    <2> QED BY <1>4, <2>1, DecodeKeeps DEF TsccBurst
  <1>5. ASSUME NEW f \in Freqs, ConPlusBurst(f)
        PROVE  IInv'
    <2>1. Good => \A s \in ConPlus(Csbk(Heard), f) : Keeps(Heard, s)
      BY <1>1, ConPlusKeeps, KeepsThen
    <2> QED BY <1>5, <2>1, DecodeKeeps DEF ConPlusBurst
  <1>6. ASSUME NEW f \in Freqs, NEW admitted \in BOOLEAN, GrantBurst(f, admitted)
        PROVE  IInv'
    <2>1. Good => \A s \in Grant(Csbk(Heard), f, admitted) : Keeps(Heard, s)
      BY <1>1, GrantKeeps, KeepsThen
    <2> QED BY <1>6, <2>1, DecodeKeeps DEF GrantBurst
  <1>7. ASSUME NEW f \in Freqs, NEW g \in Freqs \cup {0}, StatusBurst(f, g)
        PROVE  IInv'
    <2>1. Good => \A s \in Status(Csbk(Heard), f, g) : Keeps(Heard, s)
      BY <1>0, <1>1, StatusKeeps, KeepsThen DEF Places
    <2> QED BY <1>7, <2>1, DecodeKeeps DEF StatusBurst
  <1>8. ASSUME NEW force \in BOOLEAN, ClearBurst(force)
        PROVE  IInv'
    <2>1. Good => \A s \in Clear(Csbk(Heard), force) : Keeps(Heard, s)
      BY <1>0, <1>1, ClearKeeps, KeepsThen
    <2> QED BY <1>8, <2>1, DecodeKeeps DEF ClearBurst
  <1>9. ASSUME NEW f \in Freqs \cup {0}, XptBurst(f)
        PROVE  IInv'
    <2>1. Good => \A s \in Xpt(Heard, f) : Keeps(Heard, s)
      BY <1>0, XptKeeps DEF Places
    <2> QED BY <1>9, <2>1, DecodeKeeps DEF XptBurst
  <1> QED BY <1>2, <1>3, <1>4, <1>5, <1>6, <1>7, <1>8, <1>9 DEF Decoding

(* A voice loop ends, or nothing happens.                                  *)
LEMMA LoopStep ==
    ASSUME IInv, LoopEnds \/ UNCHANGED vars
    PROVE  IInv'
  <1>0. Sound(Here) /\ rx \in Receiver
    BY HereTyped DEF IInv
  <1>1. Keeps(Here, Here)
    BY <1>0, KeepsSelf
  <1>2. UNCHANGED <<site, m, shared, rx, trunk, named, unseen>>
    BY DEF LoopEnds, vars
  <1>3. Leaves(Here)
    BY <1>0, <1>2 DEF Leaves, Here, Receiver
  <1>4. loop' = FALSE \/ loop' = loop
    BY DEF LoopEnds, vars
  <1>5. loop' \in BOOLEAN /\ (loop' => Loops)
    <2>1. loop \in BOOLEAN /\ (loop => Loops)
      BY DEF IInv
    <2>2. CASE loop' = FALSE
      BY <2>2
    <2>3. CASE loop' = loop
      BY <2>1, <2>3, Zenon
    <2> QED BY <1>4, <2>2, <2>3
  <1> QED BY <1>1, <1>2, <1>3, <1>5, StepKeeps

(* A tick of the machine.                                                  *)
LEMMA TickStep ==
    ASSUME IInv, NEW admitted \in BOOLEAN, Tick(admitted)
    PROVE  IInv'
  <1>1. PICK s \in Ticked(Here, admitted) : Leaves(s)
    BY DEF Tick
  <1>2. Keeps(Here, s)
    BY HereTyped, TickedKeeps
  <1>3. trunk' = trunk /\ unseen' = unseen /\ loop' \in BOOLEAN /\ (loop' => Loops)
    BY DEF Tick, IInv
  <1> QED BY <1>1, <1>2, <1>3, StepKeeps

(* The receiver goes to the control channel from a channel nobody follows, *)
(* with another protocol the owner of the trunk: nothing is tracked.       *)
LEMMA UntrackedKeeps ==
    ASSUME NEW s, Sound(s), NEW f \in Freqs, NEW u \in Tune(s, f, "own"), u.go, NEW v, v \in State, SameRx(u, v),
           v.m = u.m, ~v.a.tuned, v.a.alias = s.a.alias, v.a.rest = s.a.rest, v.named = s.named, s.a.alias # 0
    PROVE  Keeps(s, Loosen(v))
  <1> DEFINE t == Loosen(v)
  <1>0. s \in State
    BY DEF Sound
  <1>1. /\ u \in State /\ SameMachine(s, u)
        /\ \/ Done(s, u, f)
           \/ Left(s, u, f, "own")
    BY <1>0, TuneEffect
  <1>2. /\ t \in State /\ t.a = v.a /\ t.hw = v.hw
        /\ t.center = v.center /\ t.failed = v.failed /\ t.named = v.named
        /\ LetGo(v.live, t.live)
        /\ t.m.req = "none" /\ t.m.st = v.m.st /\ t.m.cc = v.m.cc /\ t.m.probe = v.m.probe /\ t.m.rxf = v.m.rxf
        /\ t.m.cur = v.m.cur /\ t.m.sup = v.m.sup /\ t.m.hunt = v.m.hunt /\ t.m.conf = v.m.conf
    BY LoosenEffect
  <1> HIDE DEF t
  <1>q. Len(s.live) \in Nat /\ Len(u.live) \in Nat
    BY <1>0, <1>1, Queue
  <1>3. /\ Len(t.live) = Len(u.live)
        /\ \A i \in 1 .. Len(u.live) : /\ t.live[i].f = u.live[i].f /\ t.live[i].tag # "own"
                                       /\ t.live[i].tag = "move" <=> u.live[i].tag = "move"
    BY <1>2 DEF LetGo, SameRx
  <1>4. Sound(t)
    BY <1>2, <1>3 DEF Sound, OwnInv
  <1>5. RestInv(s) /\ NamedInv(s) => RestInv(t) /\ NamedInv(t)
    BY <1>1, <1>2 DEF RestInv, NamedInv, SameMachine
  <1>6. MoveInv(s) => MoveInv(t)
    <2>1. HasMove(t) => HasMove(s)
      <3> SUFFICES ASSUME NEW i \in 1 .. Len(t.live), t.live[i].tag = "move"
                   PROVE  HasMove(s)
        BY DEF HasMove
      <3>1. i \in 1 .. Len(u.live) /\ u.live[i].tag = "move"
        BY <1>3
      <3>2. CASE Done(s, u, f)
        BY <1>q, <3>1, <3>2 DEF Done
      <3>3. CASE Left(s, u, f, "own")
        <4>1. i # Len(u.live)
          BY <3>1, <3>3 DEF Left
        <4>2. i \in 1 .. Len(s.live)
          BY <1>q, <3>1, <3>3, <4>1 DEF Left
        <4>3. s.live[i].tag = "move"
          BY <3>1, <3>3, <4>2 DEF Left
        <4> QED BY <4>2, <4>3 DEF HasMove
      <3> QED BY <1>1, <3>2, <3>3
    <2> QED BY <1>1, <1>2, <1>3, <2>1 DEF MoveInv, SameMachine
  <1>7. ProbeInv(t)
    BY <1>2, <1>3 DEF ProbeInv
  <1>8. CenterInv(t) /\ WhereInv(t)
    <2>1. CASE Done(s, u, f)
      BY <1>2, <1>3, <1>q, <2>1 DEF Done, CenterInv, WhereInv, SameRx
    <2>2. CASE Left(s, u, f, "own")
      <3>1. Len(t.live) > 0 /\ t.center = f /\ t.live[Len(t.live)].f = f
        BY <1>2, <1>3, <1>q, <2>2 DEF Left, SameRx
      <3> QED BY <3>1, <1>3, <1>q DEF CenterInv, WhereInv
    <2> QED BY <1>1, <2>1, <2>2
  <1>9. t = Loosen(v)
    BY DEF t
  <1>10. StillInv(s) => StillInv(t)
    BY <1>1, <1>2 DEF StillInv, SameMachine
  <1> QED BY <1>4, <1>5, <1>6, <1>7, <1>8, <1>9, <1>10 DEF Keeps, Right, LinkInv

(* no_carrier_return_to_control_channel_if_needed()                        *)
LEMMA NoCarrierStep ==
    ASSUME IInv, NoCarrier
    PROVE  IInv'
  <1> DEFINE f == shared.alias
             V(u) == [u EXCEPT !.a.tuned = FALSE]
             W(u) == IF ~u.go THEN Here
                     ELSE IF Allowed(u) THEN BeginAcquisition(V(u), u.a.alias) ELSE Loosen(V(u))
  <1>0. /\ Sound(Here) /\ Here \in State /\ Here.a = shared /\ Here.m = m /\ Here.named = named
    BY HereTyped
  <1>1. PICK u \in Tune(Here, f, "own") : Leaves(W(u))
    BY DEF NoCarrier
  <1>2. f \in Freqs /\ f # 0 /\ trunk
    BY <1>0, Parts, Carriers DEF NoCarrier, Places
  <1>3. u \in State /\ SameMachine(Here, u)
    BY <1>0, <1>2, TuneEffect
  <1>4. /\ V(u) \in State /\ SameRx(u, V(u)) /\ V(u).m = u.m /\ ~V(u).a.tuned /\ V(u).a.alias = u.a.alias
        /\ V(u).a.rest = u.a.rest /\ V(u).named = u.named
    BY <1>3 DEF State, Shared, SameRx
  <1>5. u.a = Here.a /\ u.a.alias = f /\ u.named = Here.named /\ Here.a.alias = f
    BY <1>0, <1>3 DEF SameMachine
  <1> HIDE DEF V, f
  <1>6. Keeps(Here, W(u))
    <2>1. CASE ~u.go
      BY <1>0, <2>1, KeepsSelf
    <2>2. CASE u.go /\ Allowed(u)
      <3> DEFINE t == BeginAcquisition(V(u), f)
      <3>1. Sound(t) /\ StillInv(t) /\ (trunk /\ LinkInv(Here) /\ NamedInv(V(u)) /\ (~Loops => f \in V(u).named) => Right(t))
        BY <1>0, <1>2, <1>4, <2>2, BeginKeeps
      <3> HIDE DEF t
      <3>2. NamedInv(Here) => NamedInv(V(u))
        BY <1>3, <1>4, <1>5 DEF NamedInv, SameMachine
      <3>3. NamedInv(Here) /\ ~Loops => f \in V(u).named
        BY <1>2, <1>4, <1>5 DEF NamedInv
      <3>4. Keeps(Here, t)
        BY <3>1, <3>2, <3>3 DEF Keeps, Right
      <3>5. W(u) = t
        BY <1>5, <2>2 DEF t
      <3> QED BY <3>4, <3>5
    <2>3. CASE u.go /\ ~Allowed(u)
      <3>1. Keeps(Here, Loosen(V(u)))
        BY <1>0, <1>2, <1>4, <1>5, <2>3, UntrackedKeeps
      <3> QED BY <2>3, <3>1
    <2> QED BY <2>1, <2>2, <2>3
  <1>7. trunk' = trunk /\ unseen' = unseen /\ loop' \in BOOLEAN /\ (loop' => Loops)
    BY DEF NoCarrier, IInv
  <1> HIDE DEF W
  <1> QED BY <1>1, <1>6, <1>7, StepKeeps

(* A period passes.                                                        *)
LEMMA PassStep ==
    ASSUME IInv, NEW k \in Timers, Pass(k)
    PROVE  IInv'
  <1> DEFINE n == [m EXCEPT !.t[k] = "over", !.talk = IF k = "voice" THEN FALSE ELSE @]
             s == [Here EXCEPT !.m = n]
  <1>0. Sound(Here) /\ Here \in State /\ Here.m = m /\ m \in Machine /\ rx \in Receiver
    BY HereTyped, Parts DEF IInv
  <1>1. /\ n \in Machine /\ n.st = m.st /\ n.sup = m.sup /\ n.hunt = m.hunt /\ n.cc = m.cc /\ n.probe = m.probe
        /\ n.rxf = m.rxf /\ n.cur = m.cur /\ n.req = m.req /\ n.conf = m.conf
    <2> DEFINE g == [m.t EXCEPT ![k] = "over"]
               b == IF k = "voice" THEN FALSE ELSE m.talk
    <2>1. g \in [Timers -> Period] /\ b \in BOOLEAN
      BY <1>0 DEF Machine, Period
    <2>2. n = [m EXCEPT !.t = g, !.talk = b]
      BY <1>0 DEF Machine
    <2> HIDE DEF g, b, n
    <2> QED BY <1>0, <2>1, <2>2 DEF Machine
  <1>2. m' = n /\ UNCHANGED <<site, shared, rx, trunk, loop, named, unseen>>
    BY DEF Pass
  <1> HIDE DEF n
  <1>3. Alike(Here, s)
    BY <1>0, <1>1 DEF Alike, Calm, SameRx, SameAim, SameGoal, State
  <1>4. Leaves(s)
    BY <1>0, <1>2 DEF Leaves, Here, Receiver
  <1> HIDE DEF s
  <1>5. Keeps(Here, s)
    BY <1>0, <1>3, AlikeKeeps
  <1>6. loop' \in BOOLEAN /\ (loop' => Loops)
    BY <1>2 DEF IInv
  <1> QED BY <1>2, <1>4, <1>5, <1>6, StepKeeps

(* The backend answers the oldest of what it has to do.                    *)
LEMMA AnswerKeeps ==
    ASSUME NEW s, Sound(s), Len(s.live) > 0, NEW t, t \in State, NEW ok \in BOOLEAN, s.live[1].tag = "move" => ok,
           Len(t.live) = Len(s.live) - 1, \A i \in 1 .. Len(t.live) : t.live[i] = s.live[i + 1],
           t.hw = IF ok THEN s.live[1].f ELSE s.hw, t.center = s.center,
           s.live[1].tag = "move" => (t.failed <=> s.failed),
           s.live[1].tag # "move" => (t.failed <=> (~ok \/ s.live[1].tag = "dead")),
           t.m.req = IF s.live[1].tag # "own" THEN s.m.req ELSE IF ok THEN "ok" ELSE "failed",
           t.m.cur <=> s.m.cur /\ ~(ok /\ s.live[1].tag \in {"own", "loose"}),
           t.m.st = s.m.st, t.m.cc = s.m.cc, t.m.probe = s.m.probe, t.m.rxf = s.m.rxf, t.m.sup = s.m.sup,
           t.m.hunt = s.m.hunt /\ t.m.conf = s.m.conf, t.a = s.a, t.named = s.named
    PROVE  Keeps(s, t)
  <1> DEFINE r == s.live[1]
             n == Len(s.live)
  <1>0. s \in State /\ n \in Nat /\ n > 0 /\ n = Len(s.live) /\ 1 \in 1 .. Len(s.live) /\ Len(t.live) \in Nat
    BY Queue DEF Sound
  <1>1. r.tag \in {"own", "loose", "dead", "move"} /\ r.f \in Freqs
    BY <1>0, Queue
  <1>2. OwnInv(s)
    BY DEF Sound
  <1> HIDE DEF n
  <1>3. OwnInv(t)
    <2>1. \A i, j \in 1 .. Len(t.live) : t.live[i].tag = "own" /\ t.live[j].tag = "own" => i = j
      <3> SUFFICES ASSUME NEW i \in 1 .. Len(t.live), NEW j \in 1 .. Len(t.live), t.live[i].tag = "own", t.live[j].tag = "own"
                   PROVE  i = j
        OBVIOUS
      <3>1. i + 1 \in 1 .. Len(s.live) /\ j + 1 \in 1 .. Len(s.live)
        BY <1>0
      <3>2. s.live[i + 1].tag = "own" /\ s.live[j + 1].tag = "own"
        OBVIOUS
      <3>3. i + 1 = j + 1
        BY <1>2, <3>1, <3>2 DEF OwnInv
      <3> QED BY <3>3
    <2>2. CASE r.tag = "own"
      <3>1. \A i \in 1 .. Len(t.live) : t.live[i].tag # "own"
        <4> SUFFICES ASSUME NEW i \in 1 .. Len(t.live), t.live[i].tag = "own"
                     PROVE  FALSE
          OBVIOUS
        <4>1. i + 1 \in 1 .. Len(s.live) /\ i + 1 # 1
          BY <1>0
        <4>2. s.live[i + 1].tag = "own"
          OBVIOUS
        <4> QED BY <1>0, <1>2, <2>2, <4>1, <4>2 DEF OwnInv
      <3>2. t.m.req # "pending"
        BY <2>2
      <3> QED BY <2>1, <3>1, <3>2 DEF OwnInv
    <2>3. CASE r.tag # "own"
      <3>1. t.m.req = s.m.req
        BY <2>3
      <3>2. ASSUME NEW i \in 1 .. Len(s.live), s.live[i].tag = "own"
            PROVE  \E j \in 1 .. Len(t.live) : t.live[j].tag = "own"
        <4>1. i # 1
          BY <2>3, <3>2
        <4>2. i - 1 \in 1 .. Len(t.live) /\ (i - 1) + 1 = i
          BY <1>0, <4>1
        <4>3. t.live[i - 1].tag = "own"
          BY <3>2, <4>2
        <4> QED BY <4>2, <4>3
      <3>3. ASSUME NEW j \in 1 .. Len(t.live), t.live[j].tag = "own"
            PROVE  \E i \in 1 .. Len(s.live) : s.live[i].tag = "own"
        <4>1. j + 1 \in 1 .. Len(s.live) /\ s.live[j + 1].tag = "own"
          BY <1>0, <3>3
        <4> QED BY <4>1
      <3> QED BY <1>2, <2>1, <3>1, <3>2, <3>3 DEF OwnInv
    <2> QED BY <2>2, <2>3
  <1>4. ASSUME Right(s)
        PROVE  Right(t)
    <2>0. RestInv(s) /\ CenterInv(s) /\ MoveInv(s) /\ ProbeInv(s) /\ WhereInv(s) /\ NamedInv(s)
      BY <1>4 DEF Right, LinkInv
    <2>1. r.tag = "own" => s.m.req = "pending"
      BY <1>0, <1>2 DEF OwnInv
    <2>2. RestInv(t)
      BY <2>0, <2>1 DEF RestInv
    <2>3. CenterInv(t)
      <3>1. CASE Len(t.live) > 0
        <4>1. Len(t.live) \in 1 .. Len(t.live) /\ Len(t.live) + 1 = Len(s.live)
          BY <1>0, <3>1
        <4>2. t.live[Len(t.live)] = s.live[Len(s.live)]
          BY <4>1
        <4> QED BY <1>0, <2>0, <3>1, <4>2 DEF CenterInv
      <3>2. CASE Len(t.live) = 0
        <4>1. s.center = r.f
          BY <1>0, <2>0, <3>2 DEF CenterInv
        <4>2. ~t.failed => ok
          OBVIOUS
        <4> QED BY <3>2, <4>1, <4>2 DEF CenterInv
      <3>3. Len(t.live) > 0 \/ Len(t.live) = 0
        <4>1. Len(t.live) \in Nat
          BY <1>0
        <4>2. \A k \in Nat : k > 0 \/ k = 0
          OBVIOUS
        <4> QED BY <4>1, <4>2, Zenon
      <3> QED BY <3>1, <3>2, <3>3
    <2>4. HasMove(t) => HasMove(s)
      <3> SUFFICES ASSUME NEW i \in 1 .. Len(t.live), t.live[i].tag = "move"
                   PROVE  HasMove(s)
        BY DEF HasMove
      <3>1. i + 1 \in 1 .. Len(s.live) /\ s.live[i + 1].tag = "move"
        BY <1>0
      <3> QED BY <3>1 DEF HasMove
    <2>5. MoveInv(t)
      <3>1. ASSUME HasMove(t)
            PROVE  t.m.rxf = 0 /\ (t.m.req = "ok" => t.m.probe = 0)
        <4>1. PICK i \in 1 .. Len(t.live) : t.live[i].tag = "move"
          BY <3>1 DEF HasMove
        <4>2. i + 1 \in 1 .. Len(s.live) /\ s.live[i + 1].tag = "move" /\ i + 1 > 1
          BY <1>0, <4>1
        <4>3. r.tag = "own" => s.m.probe = 0
          BY <1>0, <2>0, <4>2 DEF MoveInv
        <4>4. s.m.rxf = 0 /\ (s.m.req = "ok" => s.m.probe = 0)
          BY <2>0, <2>4, <3>1 DEF MoveInv
        <4> QED BY <4>3, <4>4
      <3>2. ASSUME NEW j \in 1 .. Len(t.live), NEW k \in 1 .. Len(t.live), t.live[j].tag = "own", t.live[k].tag = "move", k > j
            PROVE  t.m.probe = 0
        <4>1. /\ j + 1 \in 1 .. Len(s.live) /\ s.live[j + 1].tag = "own" /\ k + 1 \in 1 .. Len(s.live)
              /\ s.live[k + 1].tag = "move" /\ k + 1 > j + 1
          BY <1>0, <3>2
        <4> QED BY <2>0, <4>1 DEF MoveInv
      <3> QED BY <3>1, <3>2 DEF MoveInv
    <2>6. ProbeInv(t)
      <3>1. ASSUME NEW j \in 1 .. Len(t.live), t.live[j].tag = "own", t.m.probe # 0
            PROVE  t.live[j].f = t.m.probe /\ (t.a.tuned \/ j = Len(t.live))
        <4>1. j + 1 \in 1 .. Len(s.live) /\ s.live[j + 1] = t.live[j]
          BY <1>0
        <4>2. s.live[j + 1].f = s.m.probe /\ (s.a.tuned \/ j + 1 = Len(s.live))
          BY <2>0, <3>1, <4>1 DEF ProbeInv
        <4> QED BY <1>0, <4>1, <4>2
      <3>2. ASSUME t.m.req = "ok", t.m.probe # 0, ~t.a.tuned
            PROVE  Len(t.live) = 0 /\ ~t.failed /\ t.hw = t.m.probe
        <4>1. s.m.req # "ok"
          BY <1>0, <2>0, <3>2 DEF ProbeInv
        <4>2. r.tag = "own" /\ ok
          BY <3>2, <4>1
        <4>3. r.f = s.m.probe /\ 1 = Len(s.live)
          BY <1>0, <2>0, <3>2, <4>2 DEF ProbeInv
        <4>4. ~t.failed
          BY <4>2
        <4>5. t.hw = s.m.probe
          BY <4>2, <4>3
        <4> QED BY <4>3, <4>4, <4>5
      <3> QED BY <3>1, <3>2 DEF ProbeInv
    <2>7. WhereInv(t)
      <3> SUFFICES ASSUME t.m.rxf # 0, t.m.cur, ~t.a.tuned, Len(t.live) = 0, ~t.failed
                   PROVE  t.hw = t.m.rxf
        BY DEF WhereInv
      <3>1. r.tag # "move"
        BY <1>0, <2>0 DEF MoveInv, HasMove
      <3>2. ok /\ r.tag # "dead"
        BY <3>1
      <3> QED BY <1>1, <3>1, <3>2
    <2>8. NamedInv(t)
      BY <2>0 DEF NamedInv
    <2> QED BY <2>2, <2>3, <2>5, <2>6, <2>7, <2>8 DEF Right, LinkInv
  <1>5. StillInv(s) => StillInv(t)
    <2>1. r.tag = "own" => s.m.req = "pending"
      BY <1>0, <1>2 DEF OwnInv
    <2>2. s.m.req = "none" => t.m.req = "none"
      BY <2>1
    <2> QED BY <2>2 DEF StillInv
  <1> QED BY <1>3, <1>4, <1>5 DEF Keeps, Sound

(* The oldest request takes effect, or fails.                              *)
LEMMA AnswerStep ==
    ASSUME IInv, NEW ok \in BOOLEAN, Answer(ok)
    PROVE  IInv'
  <1> DEFINE r == rx.live[1]
             q == Tail(rx.live)
             hw == IF ok THEN r.f ELSE rx.hw
             failed == IF r.tag = "move" THEN rx.failed ELSE ~ok \/ r.tag = "dead"
             req == IF r.tag # "own" THEN m.req ELSE IF ok THEN "ok" ELSE "failed"
             cur == m.cur /\ ~(ok /\ r.tag \in {"own", "loose"})
             n == [m EXCEPT !.req = req, !.cur = cur]
             s == [Here EXCEPT !.m = n, !.hw = hw, !.live = q, !.failed = failed]
  <1>0. /\ Sound(Here) /\ Here \in State /\ Here.m = m /\ m \in Machine /\ rx \in Receiver
        /\ Here.live = rx.live /\ Here.hw = rx.hw /\ Here.center = rx.center /\ Here.failed = rx.failed
        /\ Here.a = shared /\ Here.named = named
    BY HereTyped, Parts DEF IInv
  <1>1. rx.live \in Seq(Entry) /\ rx.live # <<>> /\ rx.hw \in Freqs /\ rx.failed \in BOOLEAN
    BY <1>0 DEF Answer, Receiver
  <1>2. /\ Len(rx.live) \in Nat /\ Len(rx.live) > 0 /\ Head(rx.live) = r /\ q \in Seq(Entry) /\ Len(q) = Len(rx.live) - 1
        /\ \A i \in 1 .. Len(q) : q[i] = rx.live[i + 1]
    BY <1>1
  <1>3. r \in Entry
    BY <1>1, <1>2
  <1>4. r.f \in Freqs /\ r.tag \in {"own", "loose", "dead", "move"}
    BY <1>3 DEF Entry
  <1>5. /\ hw \in Freqs /\ failed \in BOOLEAN /\ req \in {"none", "pending", "ok", "failed"} /\ cur \in BOOLEAN
    BY <1>0, <1>1, <1>4 DEF Machine
  <1>6. rx' = [rx EXCEPT !.hw = hw, !.live = q, !.failed = failed] /\ m' = n /\ (r.tag = "move" => ok)
    BY <1>2 DEF Answer
  <1>7. UNCHANGED <<site, shared, trunk, loop, named, unseen>>
    BY DEF Answer
  <1> HIDE DEF q
  <1>9. /\ n \in Machine /\ n.req = req /\ n.cur = cur /\ n.st = m.st /\ n.cc = m.cc /\ n.probe = m.probe /\ n.rxf = m.rxf
        /\ n.sup = m.sup /\ n.hunt = m.hunt /\ n.conf = m.conf
    <2> HIDE DEF req, cur
    <2>1. DOMAIN n = DOMAIN m /\ n.req = req /\ n.cur = cur
      BY <1>0 DEF Machine
    <2>0. m \in Machine /\ req \in {"none", "pending", "ok", "failed"} /\ cur \in BOOLEAN
      BY <1>0, <1>5
    <2>2. n \in Machine
      <3>1. [m EXCEPT !.req = req] \in Machine
        BY <2>0 DEF Machine
      <3>2. n = [[m EXCEPT !.req = req] EXCEPT !.cur = cur]
        BY <2>0 DEF Machine
      <3> QED BY <2>0, <3>1, <3>2 DEF Machine
    <2>3. /\ n.st = m.st /\ n.cc = m.cc /\ n.probe = m.probe /\ n.rxf = m.rxf /\ n.sup = m.sup /\ n.hunt = m.hunt
          /\ n.conf = m.conf
      BY <1>0 DEF Machine
    <2> QED BY <2>1, <2>2, <2>3
  <1> HIDE DEF n
  <1>10. /\ s \in State /\ s.m = n /\ s.a = shared /\ s.hw = hw /\ s.center = rx.center /\ s.live = q
         /\ s.failed = failed /\ s.named = named
    <2> HIDE DEF hw, failed, req, cur
    <2> QED BY <1>0, <1>2, <1>5, <1>9 DEF State
  <1>11. Leaves(s)
    <2> HIDE DEF hw, failed, req, cur, s
    <2>1. rx' = [hw |-> hw, center |-> rx.center, live |-> q, failed |-> failed]
      BY <1>0, <1>6 DEF Receiver
    <2> QED BY <1>6, <1>7, <1>10, <2>1 DEF Leaves
  <1> HIDE DEF s
  <1>12. Keeps(Here, s)
    <2>1. /\ s.m.req = req /\ (s.m.cur <=> cur) /\ s.m.st = Here.m.st /\ s.m.cc = Here.m.cc /\ s.m.probe = Here.m.probe
          /\ s.m.rxf = Here.m.rxf /\ s.m.sup = Here.m.sup /\ s.m.hunt = Here.m.hunt /\ s.m.conf = Here.m.conf
      <3> HIDE DEF req, cur
      <3> QED BY <1>0, <1>9, <1>10
    <2>2. /\ s.live = q /\ s.hw = hw /\ s.failed = failed /\ s.center = Here.center /\ s.a = Here.a /\ s.named = Here.named
      <3> HIDE DEF hw, failed, req, cur
      <3> QED BY <1>0, <1>10
    <2>3. Here.live[1] = r
      BY <1>0
    <2> HIDE DEF r
    <2>4. /\ r.tag = "move" => (s.failed <=> Here.failed)
          /\ r.tag # "move" => (s.failed <=> (~ok \/ r.tag = "dead"))
      BY <1>0, <2>2
    <2>5. /\ s.hw = IF ok THEN r.f ELSE Here.hw
          /\ s.m.req = IF r.tag # "own" THEN Here.m.req ELSE IF ok THEN "ok" ELSE "failed"
          /\ s.m.cur <=> Here.m.cur /\ ~(ok /\ r.tag \in {"own", "loose"})
      BY <1>0, <2>1, <2>2
    <2> HIDE DEF hw, failed, req, cur
    <2>6. /\ Len(Here.live) > 0 /\ Len(s.live) = Len(Here.live) - 1
          /\ \A i \in 1 .. Len(s.live) : s.live[i] = Here.live[i + 1]
      BY <1>0, <1>2, <2>2
    <2> QED BY <1>0, <1>6, <1>10, <2>1, <2>2, <2>3, <2>4, <2>5, <2>6, AnswerKeeps
  <1>13. loop' \in BOOLEAN /\ (loop' => Loops)
    BY <1>7 DEF IInv
  <1> QED BY <1>7, <1>11, <1>12, <1>13, StepKeeps

(* The machine is told that the operator moved the receiver: it forgets    *)
(* where it took the receiver to be, and what it was probing.              *)
LEMMA RetuneNoted ==
    ASSUME NEW s, Sound(s), ~s.a.tuned
    PROVE  LET t == NoteRetune(s)
           IN  Sound(t) /\ (StillInv(s) => StillInv(t)) /\ (RestInv(s) /\ NamedInv(s) /\ CenterInv(s) => Right(t))
  <1> DEFINE t == NoteRetune(s)
             x == [s EXCEPT !.m.park = 1, !.m.probe = 0, !.m.rxf = 0]
             b == IF s.m.st = "tuned" THEN Abandon(s) ELSE s
             g == [[b.m.t EXCEPT !["aw"] = "off"] EXCEPT !["retry"] = "off"]
             n == [b.m EXCEPT !.rxf = 0, !.cur = FALSE, !.probe = 0, !.acq = FALSE, !.sup = TRUE, !.waited = FALSE, !.t = g]
             y == [b EXCEPT !.m = n]
  <1>0. s \in State /\ OwnInv(s) /\ 0 \in Places /\ 1 \in 0 .. 2
    BY DEF Sound, Places
  <1>1. CASE s.m.hunt
    <2>1. t = Start(x, "armed")
      BY <1>1 DEF NoteRetune
    <2>2. /\ x \in State /\ SameRx(s, x) /\ x.m.rxf = 0 /\ x.m.probe = 0 /\ x.m.req = s.m.req /\ x.m.st = s.m.st
          /\ x.m.sup = s.m.sup /\ x.m.hunt = s.m.hunt /\ x.m.conf = s.m.conf /\ x.m.cc = s.m.cc /\ x.a = s.a /\ x.named = s.named
      BY <1>0 DEF State, Machine, SameRx
    <2> HIDE DEF x
    <2>3. Alike(x, t) /\ t.m.st = x.m.st
      BY <2>1, <2>2, StartAlike, TimerNames
    <2> HIDE DEF t
    <2>4. OwnInv(x)
      BY <1>0, <2>2 DEF OwnInv, SameRx
    <2>5. CenterInv(s) => LinkInv(x)
      BY <2>2 DEF LinkInv, CenterInv, MoveInv, ProbeInv, WhereInv, SameRx
    <2>6. RestInv(s) /\ NamedInv(s) => RestInv(x) /\ NamedInv(x)
      BY <2>2 DEF RestInv, NamedInv
    <2>7. OwnInv(t) /\ (LinkInv(x) => LinkInv(t))
      BY <2>3, <2>4, AlikeLink DEF Alike, SameGoal
    <2>8. RestInv(x) /\ NamedInv(x) => RestInv(t) /\ NamedInv(t)
      BY <2>3 DEF RestInv, NamedInv, Alike, SameAim, SameGoal, Calm
    <2>9. StillInv(s) => StillInv(t)
      BY <2>2, <2>3 DEF StillInv, Alike, SameAim, Calm
    <2> QED BY <2>3, <2>5, <2>6, <2>7, <2>8, <2>9 DEF Sound, Right, Alike, t
  <1>2. CASE ~s.m.hunt /\ s.m.st = "idle"
    <2>1. t = s \/ t = Start(s, "armed")
      BY <1>2, Zenon DEF NoteRetune
    <2>2. Alike(s, t)
      BY <1>0, <2>1, AlikeSelf, StartAlike, TimerNames
    <2> HIDE DEF t
    <2>3. Keeps(s, t)
      BY <2>2, AlikeKeeps
    <2>4. OwnInv(t) /\ (LinkInv(s) => LinkInv(t))
      BY <1>0, <2>2, AlikeLink DEF Alike, SameGoal
    <2>5. RestInv(s) /\ CenterInv(s) => LinkInv(s)
      BY <1>2 DEF RestInv, LinkInv, MoveInv, ProbeInv, WhereInv
    <2>6. RestInv(s) /\ NamedInv(s) => RestInv(t) /\ NamedInv(t)
      BY <2>2 DEF RestInv, NamedInv, Alike, SameAim, SameGoal, Calm
    <2>7. StillInv(s) => StillInv(t)
      BY <2>3 DEF Keeps
    <2> QED BY <2>2, <2>4, <2>5, <2>6, <2>7 DEF Sound, Right, Alike, t
  <1>3. CASE ~s.m.hunt /\ s.m.st # "idle"
    <2> DEFINE a == [s EXCEPT !.a.force = FALSE]
               z == Start(y, "sw")
    <2>1. t = SetState(Start([b EXCEPT !.m.rxf = 0, !.m.cur = FALSE, !.m.probe = 0, !.m.acq = FALSE, !.m.sup = TRUE,
                                      !.m.waited = FALSE, !.m.t = [@ EXCEPT !["aw"] = "off", !["retry"] = "off"]],
                            "sw"), "cc")
      BY <1>3 DEF NoteRetune
    <2>2. /\ b \in State /\ b.hw = s.hw /\ b.center = s.center /\ b.failed = s.failed /\ b.named = s.named
          /\ b.m.cc = s.m.cc /\ b.m.hunt = s.m.hunt /\ ~b.a.tuned /\ b.a.alias = s.a.alias /\ b.a.rest = s.a.rest
          /\ \/ b.live = s.live /\ b.m.req = s.m.req
             \/ LetGo(s.live, b.live) /\ b.m.req = "none"
      <3>1. CASE s.m.st = "tuned"
        <4>1. /\ a \in State /\ SameRx(s, a) /\ a.m = s.m /\ a.a.alias = s.a.alias /\ a.a.rest = s.a.rest /\ a.named = s.named
          BY <1>0 DEF State, Shared, SameRx
        <4>2. b = ClearCarrier(a, FALSE, "cc") /\ FALSE \in BOOLEAN
          BY <3>1 DEF Abandon
        <4> DEFINE c == ClearCarrier(a, FALSE, "cc")
        <4>3. "cc" \in {"cc", "hunting"}
          OBVIOUS
        <4> HIDE DEF a, b
        <4>4. /\ c \in State /\ ~c.a.tuned /\ c.a.alias = a.a.alias /\ c.a.rest = a.a.rest
              /\ c.m.cc = a.m.cc /\ c.m.hunt = a.m.hunt /\ c.named = a.named
              /\ c.hw = a.hw /\ c.center = a.center /\ c.failed = a.failed
              /\ c.m.req = "none" /\ LetGo(a.live, c.live)
          BY <4>1, <4>2, <4>3, ClearEffect, Zenon
        <4> HIDE DEF c
        <4>5. b = c
          BY <4>2 DEF c
        <4> QED BY <4>1, <4>4, <4>5 DEF SameRx
      <3>2. CASE s.m.st # "tuned"
        <4>1. b = s
          BY <3>2
        <4> HIDE DEF b
        <4> QED BY <1>0, <4>1
      <3> QED BY <3>1, <3>2
    <2> HIDE DEF b
    <2>3. b.m \in Machine
      BY <2>2, Parts
    <2>4. g \in [Timers -> Period]
      BY <2>3 DEF Machine, Timers, Period
    <2>5. t = SetState(z, "cc")
      <3>1. [b EXCEPT !.m.rxf = 0, !.m.cur = FALSE, !.m.probe = 0, !.m.acq = FALSE, !.m.sup = TRUE,
                      !.m.waited = FALSE, !.m.t = [@ EXCEPT !["aw"] = "off", !["retry"] = "off"]] = y
        BY <2>2, <2>3 DEF State, Machine
      <3> QED BY <2>1, <3>1, Zenon
    <2> HIDE DEF g
    <2>6. n \in Machine /\ n.rxf = 0 /\ n.probe = 0 /\ n.req = b.m.req /\ n.cc = b.m.cc /\ n.hunt = b.m.hunt
      BY <1>0, <2>3, <2>4 DEF Machine
    <2> HIDE DEF n
    <2>7. y \in State /\ SameRx(b, y) /\ y.m = n /\ y.a = b.a /\ y.named = b.named
      BY <2>2, <2>6 DEF State, SameRx
    <2> HIDE DEF y
    <2>8. Alike(y, z) /\ z.a = y.a /\ z.named = y.named /\ z.m.hunt = y.m.hunt /\ z.m.conf = y.m.conf
      BY <2>7, StartAlike, TimerNames
    <2> HIDE DEF z
    <2>9. Alike(z, t) /\ t.m.st = "cc" /\ t.a = z.a /\ t.named = z.named /\ t.m.hunt = z.m.hunt /\ t.m.conf = z.m.conf
      BY <2>5, <2>8, SetStateAlike DEF Alike
    <2> HIDE DEF t
    <2>10. /\ t \in State /\ t.hw = s.hw /\ t.center = s.center /\ t.failed = s.failed /\ t.named = s.named
           /\ t.m.cc = s.m.cc /\ ~t.m.hunt /\ ~t.a.tuned /\ t.a.alias = s.a.alias /\ t.a.rest = s.a.rest
           /\ t.m.rxf = 0 /\ t.m.probe = 0 /\ t.live = b.live /\ t.m.req = b.m.req
      BY <1>3, <2>2, <2>6, <2>7, <2>8, <2>9 DEF Alike, SameRx, SameAim
    <2>11. OwnInv(t)
      BY <1>0, <2>2, <2>10 DEF OwnInv, LetGo
    <2>12. RestInv(t) /\ MoveInv(t) /\ ProbeInv(t) /\ WhereInv(t)
      BY <2>9, <2>10 DEF RestInv, MoveInv, ProbeInv, WhereInv
    <2>13. NamedInv(s) => NamedInv(t)
      BY <2>10 DEF NamedInv
    <2>14. CenterInv(s) => CenterInv(t)
      <3>1. Len(s.live) \in Nat
        BY <1>0, Queue
      <3>2. Len(t.live) = Len(s.live) /\ (Len(s.live) > 0 => t.live[Len(t.live)].f = s.live[Len(s.live)].f)
        BY <2>2, <2>10, <3>1 DEF LetGo
      <3> QED BY <2>10, <3>2 DEF CenterInv
    <2>15. StillInv(t)
      BY <2>9, <2>10 DEF StillInv
    <2> QED BY <2>10, <2>11, <2>12, <2>13, <2>14, <2>15 DEF Sound, Right, LinkInv, t
  <1> QED BY <1>1, <1>2, <1>3

(* The receiver as the operator moved it, at once or when the backend      *)
(* comes to it.                                                            *)
LEMMA MovedEffect ==
    ASSUME NEW s, Sound(s), NEW f \in Freqs, NEW t, t \in State, t.m = s.m, ~t.a.tuned, t.a.alias = s.a.alias,
           t.a.rest = s.a.rest, t.named = s.named, t.failed = s.failed, t.center = f,
           \/ Len(s.live) = 0 /\ t.live = s.live /\ t.hw = f
           \/ t.live = Append(s.live, [f |-> f, tag |-> "move"]) /\ t.hw = s.hw
    PROVE  Sound(t) /\ CenterInv(t) /\ (StillInv(s) => StillInv(t)) /\ (RestInv(s) /\ NamedInv(s) => RestInv(t) /\ NamedInv(t))
  <1> DEFINE e == [f |-> f, tag |-> "move"]
  <1>0. s \in State /\ OwnInv(s) /\ s.live \in Seq(Entry) /\ Len(s.live) \in Nat
    BY Parts, Queue DEF Sound
  <1>1. (RestInv(s) /\ NamedInv(s) => RestInv(t) /\ NamedInv(t)) /\ (StillInv(s) => StillInv(t))
    BY DEF RestInv, NamedInv, StillInv
  <1>2. CASE Len(s.live) = 0 /\ t.live = s.live /\ t.hw = f
    BY <1>0, <1>1, <1>2 DEF Sound, OwnInv, CenterInv
  <1>3. CASE t.live = Append(s.live, e) /\ t.hw = s.hw
    <2>1. e \in Entry /\ e.f = f /\ e.tag = "move"
      BY DEF Entry
    <2> HIDE DEF e
    <2>2. /\ Len(t.live) = Len(s.live) + 1 /\ t.live[Len(s.live) + 1] = e
          /\ \A i \in 1 .. Len(s.live) : t.live[i] = s.live[i]
      BY <1>0, <1>3, <2>1
    <2>3. CenterInv(t)
      BY <1>0, <2>1, <2>2 DEF CenterInv
    <2>4. \A i \in 1 .. Len(t.live) : t.live[i].tag = "own" => i \in 1 .. Len(s.live) /\ s.live[i].tag = "own"
      <3> SUFFICES ASSUME NEW i \in 1 .. Len(t.live), t.live[i].tag = "own"
                   PROVE  i \in 1 .. Len(s.live) /\ s.live[i].tag = "own"
        OBVIOUS
      <3>1. i # Len(s.live) + 1
        BY <2>1, <2>2
      <3>2. i \in 1 .. Len(s.live)
        BY <1>0, <2>2, <3>1
      <3> QED BY <2>2, <3>2
    <2>5. \A i \in 1 .. Len(s.live) : i \in 1 .. Len(t.live) /\ t.live[i].tag = s.live[i].tag
      BY <1>0, <2>2
    <2>6. OwnInv(t)
      BY <1>0, <2>4, <2>5 DEF OwnInv
    <2> QED BY <1>1, <2>3, <2>6 DEF Sound
  <1> QED BY <1>2, <1>3

(* The operator's move as a step.                                          *)
LEMMA MoveStep ==
    ASSUME IInv, NEW f \in Freqs, NEW return \in BOOLEAN, Move(f, return)
    PROVE  IInv'
  <1> DEFINE e == [f |-> f, tag |-> "move"]
             D == [Here EXCEPT !.hw = f, !.center = f]
             L == [Here EXCEPT !.center = f, !.live = Append(@, e)]
             V(s) == [s EXCEPT !.a.tuned = FALSE]
             W(s) == IF return /\ ~Allowed(s) THEN V(s) ELSE NoteRetune(V(s))
  <1>0. /\ Sound(Here) /\ Here \in State /\ Here.live = rx.live /\ Here.a = shared
        /\ Here.live \in Seq(Entry) /\ Len(Here.live) \in Nat /\ (Here.live = <<>> => Len(Here.live) = 0)
        /\ trunk \in BOOLEAN /\ StillInv(Here)
    BY HereTyped, Queue, Parts
  <1>1. PICK s : /\ Leaves(W(s))
                 /\ (s = D /\ rx.live = <<>>) \/ s = L
    BY Zenon DEF Move
  <1>2. e \in Entry
    BY DEF Entry
  <1>3. Append(Here.live, e) \in Seq(Entry)
    BY <1>0, <1>2
  <1> HIDE DEF e
  <1>4. /\ s \in State /\ s.m = Here.m /\ s.a = Here.a /\ s.named = Here.named /\ s.failed = Here.failed /\ s.center = f
        /\ \/ Len(Here.live) = 0 /\ s.live = Here.live /\ s.hw = f
           \/ s.live = Append(Here.live, e) /\ s.hw = Here.hw
    <2>1. CASE s = D /\ rx.live = <<>>
      BY <1>0, <2>1 DEF State
    <2>2. CASE s = L
      BY <1>0, <1>3, <2>2 DEF State
    <2> QED BY <1>1, <2>1, <2>2
  <1>5. /\ V(s) \in State /\ SameRx(s, V(s)) /\ V(s).m = s.m /\ ~V(s).a.tuned /\ V(s).a.alias = s.a.alias
        /\ V(s).a.rest = s.a.rest /\ V(s).named = s.named
    BY <1>4 DEF State, Shared, SameRx
  <1> HIDE DEF V, D, L
  <1>6. Sound(V(s)) /\ StillInv(V(s)) /\ CenterInv(V(s)) /\ (RestInv(Here) /\ NamedInv(Here) => RestInv(V(s)) /\ NamedInv(V(s)))
    BY <1>0, <1>4, <1>5, MovedEffect DEF SameRx, e
  <1>7. Sound(NoteRetune(V(s))) /\ StillInv(NoteRetune(V(s))) /\ (RestInv(V(s)) /\ NamedInv(V(s)) /\ CenterInv(V(s)) => Right(NoteRetune(V(s))))
    BY <1>5, <1>6, RetuneNoted
  <1>8. Allowed(s) <=> Allowed(Here)
    BY <1>4 DEF Allowed
  <1>9. Sound(W(s)) /\ StillInv(W(s)) /\ (~(return /\ ~Allowed(Here)) /\ Right(Here) => Right(W(s)))
    BY <1>6, <1>7, <1>8 DEF Right
  <1> HIDE DEF W
  <1>10. trunk' = trunk /\ loop' = loop /\ unseen' = (unseen \/ (return /\ ~Allowed(Here)))
    BY DEF Move
  <1>11. /\ trunk' \in BOOLEAN /\ unseen' \in BOOLEAN /\ loop' \in BOOLEAN /\ (loop' => Loops)
         /\ ~unseen' => trunk' /\ Right(W(s))
    BY <1>9, <1>10 DEF IInv
  <1> QED BY <1>1, <1>9, <1>11, StepSound

(* Another protocol takes the trunk.                                       *)
LEMMA OtherStep ==
    ASSUME IInv, OtherOwner
    PROVE  IInv'
  <1> DEFINE s == [Here EXCEPT !.a.owner = "other"]
  <1>0. Sound(Here) /\ Here \in State /\ Here.a = shared /\ rx \in Receiver
    BY HereTyped DEF IInv
  <1>1. Alike(Here, s)
    BY <1>0 DEF Alike, Calm, SameRx, SameAim, SameGoal, State, Shared
  <1>2. /\ shared' = [shared EXCEPT !.owner = "other"] /\ UNCHANGED <<site, m, rx, trunk, loop, named, unseen>>
    BY DEF OtherOwner
  <1>3. Leaves(s)
    BY <1>0, <1>2 DEF Leaves, Here, Receiver
  <1> HIDE DEF s
  <1>4. Keeps(Here, s)
    BY <1>0, <1>1, AlikeKeeps
  <1>5. loop' \in BOOLEAN /\ (loop' => Loops)
    BY <1>2 DEF IInv
  <1> QED BY <1>2, <1>3, <1>4, <1>5, StepKeeps

(* Nothing is claimed of a receiver that is used without trunking.         *)
LEMMA SetTrunkStep ==
    ASSUME IInv, NEW on \in BOOLEAN, SetTrunk(on)
    PROVE  IInv'
  <1> DEFINE s == [Here EXCEPT !.a = IF on THEN shared ELSE [shared EXCEPT !.tuned = FALSE]]
  <1>0. Sound(Here) /\ Here \in State /\ Here.a = shared /\ shared \in Shared /\ rx \in Receiver
    BY HereTyped, Parts DEF IInv
  <1>1. (IF on THEN shared ELSE [shared EXCEPT !.tuned = FALSE]) \in Shared
    BY <1>0 DEF Shared
  <1>2. s \in State /\ SameRx(Here, s) /\ s.m = Here.m
    BY <1>0, <1>1 DEF State, SameRx
  <1>3. Sound(s) /\ StillInv(s)
    BY <1>0, <1>2, HereTyped DEF Sound, OwnInv, SameRx, StillInv
  <1>4. /\ shared' = (IF on THEN shared ELSE [shared EXCEPT !.tuned = FALSE])
        /\ trunk' = on /\ unseen' = TRUE /\ UNCHANGED <<site, m, rx, loop, named>>
    BY DEF SetTrunk
  <1>5. Leaves(s)
    BY <1>0, <1>4 DEF Leaves, Here, Receiver
  <1> HIDE DEF s
  <1>6. /\ trunk' \in BOOLEAN /\ unseen' \in BOOLEAN /\ loop' \in BOOLEAN /\ (loop' => Loops)
        /\ ~unseen' => trunk' /\ Right(s)
    BY <1>4 DEF IInv
  <1> QED BY <1>3, <1>5, <1>6, StepSound

(* A retired tune is no tracked one.                                       *)
LEMMA RetireStep ==
    ASSUME IInv, Retire
    PROVE  IInv'
  <1> DEFINE q == Retag(rx.live, "dead", "move")
             s == [Here EXCEPT !.center = rx.hw, !.failed = FALSE, !.live = q]
  <1>0. /\ Sound(Here) /\ Here \in State /\ rx \in Receiver /\ OwnInv(Here) /\ Here.live = rx.live
        /\ rx.live \in Seq(Entry) /\ rx.hw \in Freqs
    BY HereTyped DEF IInv, Receiver, Sound
  <1>1. /\ q \in Seq(Entry) /\ Len(q) = Len(rx.live)
        /\ \A i \in 1 .. Len(rx.live) : q[i].tag = "own" <=> rx.live[i].tag = "own"
    BY <1>0, RetagEffect
  <1>2. rx' = [rx EXCEPT !.center = rx.hw, !.failed = FALSE, !.live = q]
    BY DEF Retire
  <1> HIDE DEF q
  <1>3. s \in State /\ s.live = q /\ s.m = Here.m
    BY <1>0, <1>1 DEF State
  <1>4. Sound(s) /\ StillInv(s)
    BY <1>0, <1>1, <1>3, HereTyped DEF Sound, OwnInv, StillInv
  <1>5. UNCHANGED <<site, m, shared, trunk, loop, named, unseen>> /\ ~trunk
    BY DEF Retire
  <1>6. Leaves(s)
    BY <1>0, <1>2, <1>5 DEF Leaves, Here, Receiver
  <1> HIDE DEF s
  <1>7. /\ trunk' \in BOOLEAN /\ unseen' \in BOOLEAN /\ loop' \in BOOLEAN /\ (loop' => Loops)
        /\ ~unseen' => trunk' /\ Right(s)
    BY <1>5 DEF IInv
  <1> QED BY <1>4, <1>6, <1>7, StepSound

-----------------------------------------------------------------------------
(* The theorem.                                                            *)

(* A session starts on a carrier, with or without a control channel.       *)
LEMMA InitRight == Init => IInv
  <1> SUFFICES ASSUME Init
               PROVE  IInv
    OBVIOUS
  <1>1. PICK f \in Freqs :
           LET alias == IF ColdStart THEN 0 ELSE f
           IN  /\ m = InitCtx(alias)
               /\ shared = [alias |-> alias, tuned |-> FALSE, force |-> FALSE, owner |-> "none", rest |-> 0]
               /\ rx = [hw |-> f, center |-> f, live |-> <<>>, failed |-> FALSE]
               /\ named = {alias}
    BY DEF Init
  <1> DEFINE alias == IF ColdStart THEN 0 ELSE f
  <1>2. alias \in Places
    BY DEF Places
  <1>3. /\ m = InitCtx(alias)
        /\ shared = [alias |-> alias, tuned |-> FALSE, force |-> FALSE, owner |-> "none", rest |-> 0]
        /\ rx = [hw |-> f, center |-> f, live |-> <<>>, failed |-> FALSE]
        /\ named = {alias}
    BY <1>1
  <1> HIDE DEF alias
  <1>4. /\ m \in Machine /\ m.cc = alias /\ m.probe = alias /\ m.rxf = 0 /\ m.req = "none" /\ ~m.sup /\ ~m.hunt /\ ~m.conf
        /\ m.st = IF alias = 0 THEN "idle" ELSE "cc"
    <2>1. CASE alias = 0
      <3>1. m = Blank
        BY <1>3, <2>1 DEF InitCtx
      <3> QED BY <2>1, <3>1, BlankTyped DEF Blank
    <2>2. CASE alias # 0
      <3> DEFINE n == [Blank EXCEPT !.st = "cc", !.cc = alias, !.probe = alias]
                 g == [Blank.t EXCEPT !["sw"] = "running"]
      <3>1. m = [Blank EXCEPT !.st = "cc", !.cc = alias, !.probe = alias, !.t["sw"] = "running"]
        BY <1>3, <2>2 DEF InitCtx
      <3>2. g \in [Timers -> Period]
        BY BlankTyped DEF Machine, Timers, Period
      <3>3. m = [n EXCEPT !.t = g]
        BY <3>1, BlankTyped DEF Machine
      <3>4. /\ n \in Machine /\ n.cc = alias /\ n.probe = alias /\ n.rxf = 0 /\ n.req = "none" /\ ~n.sup /\ ~n.hunt /\ ~n.conf
            /\ n.st = "cc"
        BY <1>2, BlankTyped DEF Machine, Blank
      <3> HIDE DEF n, g
      <3> QED BY <2>2, <3>2, <3>3, <3>4 DEF Machine
    <2> QED BY <2>1, <2>2
  <1>5. shared \in Shared /\ shared.alias = alias /\ ~shared.tuned /\ shared.rest = 0
    BY <1>2, <1>3 DEF Shared, Places
  <1>6. rx \in Receiver /\ rx.hw = f /\ rx.center = f /\ rx.live = <<>> /\ ~rx.failed
    BY <1>3 DEF Receiver
  <1>7. named \subseteq Places /\ alias \in named
    BY <1>2, <1>3
  <1>8. Here \in State
    BY <1>4, <1>5, <1>6, <1>7 DEF Here, State, Receiver
  <1>9. OwnInv(Here)
    BY <1>4, <1>6 DEF Here, OwnInv
  <1>10. RestInv(Here) /\ NamedInv(Here)
    BY <1>4, <1>5, <1>7 DEF Here, RestInv, NamedInv
  <1>11. CenterInv(Here) /\ MoveInv(Here) /\ ProbeInv(Here) /\ WhereInv(Here)
    BY <1>4, <1>5, <1>6 DEF Here, CenterInv, MoveInv, HasMove, ProbeInv, WhereInv
  <1>12. StillInv(Here)
    BY <1>4 DEF Here, StillInv
  <1> QED BY <1>6, <1>8, <1>9, <1>10, <1>11, <1>12 DEF Init, IInv, Sound, Right, LinkInv

(* The invariant is inductive.                                             *)
LEMMA StepRight == IInv /\ [Next]_vars => IInv'
  <1> SUFFICES ASSUME IInv, [Next]_vars
               PROVE  IInv'
    OBVIOUS
  <1>1. CASE Decoding
    BY <1>1, DecodingStep
  <1>2. CASE LoopEnds \/ UNCHANGED vars
    BY <1>2, LoopStep
  <1>3. CASE \E admitted \in BOOLEAN : Tick(admitted)
    BY <1>3, TickStep
  <1>4. CASE NoCarrier
    BY <1>4, NoCarrierStep
  <1>5. CASE \E k \in Timers : Pass(k)
    BY <1>5, PassStep
  <1>6. CASE \E ok \in BOOLEAN : Answer(ok)
    BY <1>6, AnswerStep
  <1>7. CASE Operator
    BY <1>7, MoveStep, OtherStep, SetTrunkStep DEF Operator
  <1>8. CASE Retire
    BY <1>8, RetireStep
  <1> QED BY <1>1, <1>2, <1>3, <1>4, <1>5, <1>6, <1>7, <1>8 DEF Next

(* What the inductive invariant says of the machine.                       *)
LEMMA RightSound == IInv => DmrSound
  <1> SUFFICES ASSUME IInv
               PROVE  DmrSound
    OBVIOUS
  <1>0. /\ Here \in State /\ OwnInv(Here) /\ Here.m = m /\ Here.a = shared /\ Here.hw = rx.hw /\ Here.center = rx.center
        /\ Here.live = rx.live /\ Here.failed = rx.failed /\ Here.named = named
    BY HereTyped DEF Sound
  <1>1. TypeOK
    <2>1. DOMAIN rx.live = 1 .. Len(rx.live)
      BY <1>0, Queue
    <2>2. m.req = "pending" <=> \E i \in DOMAIN rx.live : rx.live[i].tag = "own"
      BY <1>0, <2>1 DEF OwnInv
    <2>3. /\ m.st \in {"idle", "cc", "tuned", "hunting"} /\ {m.cc, m.probe, m.rxf, m.vc} \subseteq Places
          /\ m.req \in {"none", "pending", "ok", "failed"} /\ m.park \in 0 .. 2
          /\ shared.alias \in Places /\ {rx.hw, rx.center} \subseteq Freqs
      BY <1>0 DEF State, Machine, Shared
    <2> QED BY <2>2, <2>3 DEF TypeOK, Places
  <1>2. AttributionSound
    <2> SUFFICES ASSUME ~unseen, m.rxf # 0, m.cur, ~shared.tuned, rx.live = <<>>, ~rx.failed
                 PROVE  rx.hw = m.rxf
      BY DEF AttributionSound
    <2>1. WhereInv(Here)
      BY DEF IInv, Right, LinkInv
    <2>2. Len(rx.live) = 0
      BY <1>0, Queue
    <2> QED BY <1>0, <2>1, <2>2 DEF WhereInv
  <1>3. ReturnNamed
    <2>1. ~unseen => NamedInv(Here)
      BY DEF IInv, Right
    <2> QED BY <1>0, <2>1 DEF NamedInv, ReturnNamed
  <1> QED BY <1>1, <1>2, <1>3 DEF DmrSound

(* What the machine says of the receiver, and of where it will return to,  *)
(* is so whatever is on the air, however late and in whatever way the      *)
(* backend answers, and wherever the operator goes.                        *)
THEOREM DmrIsSound == Spec => []DmrSound
  <1>1. Init => IInv
    BY InitRight
  <1>2. IInv /\ [Next]_vars => IInv'
    BY StepRight
  <1>3. IInv => DmrSound
    BY RightSound
  <1> QED BY <1>1, <1>2, <1>3, PTL DEF Spec

-----------------------------------------------------------------------------
(* Where the operator moved the receiver.                                  *)

(* A machine that was told of the move and has not had its full listening  *)
(* period: a cold hunt parks before it probes again; a machine whose       *)
(* control channel was left is suspended, until the ledger is settled, and *)
(* then listens; one at rest waits for its startup window.                 *)
Firm(s) ==
    /\ s.m.hunt => s.m.park # 0 /\ s.m.t["armed"] # "over" /\ (s.m.st = "tuned" => ~s.m.xpt)
    /\ ~s.m.hunt => s.m.st # "tuned"
    /\ s.m.sup => s.m.waited \/ s.m.t["sw"] = "running"
    /\ ~s.m.hunt /\ ~s.m.sup =>
          \/ s.m.st = "idle" /\ s.m.t["armed"] # "over"
          \/ s.m.st = "cc" /\ ~s.m.acq /\ s.m.t["sw"] = "running" /\ s.m.req = "none"

(* What keeps the receiver where it is, as long as the move stands.        *)
Kept == moved \in BOOLEAN /\ events \in Nat /\ (moved => shared.tuned = FALSE /\ (shared.owner = "other" \/ Firm(Here)))

(* A step that leaves alone what holds the receiver.                       *)
Steady(s, t) ==
    /\ t.a = s.a /\ t.center = s.center /\ t.m.st \in {s.m.st, "hunting"}
    /\ t.m.hunt = s.m.hunt /\ t.m.sup = s.m.sup /\ t.m.conf = s.m.conf
    /\ t.m.xpt = s.m.xpt /\ t.m.park = s.m.park /\ t.m.waited = s.m.waited
    /\ t.m.t["sw"] = s.m.t["sw"] /\ t.m.t["armed"] \in {s.m.t["armed"], "off"}

(* Steps that leave it alone compose.                                      *)
LEMMA SteadyThen ==
    ASSUME NEW s, NEW t, NEW u, Steady(s, t), Steady(t, u)
    PROVE  Steady(s, u)
  BY DEF Steady

(* What the C function returned.                                           *)
LEMMA GoStopSteady ==
    ASSUME NEW s \in State
    PROVE  Steady(s, Go(s)) /\ Steady(s, Stop(s))
  BY GoStop DEF Steady, Alike, SameRx

(* set_state()                                                             *)
LEMMA SetStateSteady ==
    ASSUME NEW s \in State, NEW st \in {"idle", "cc", "tuned", "hunting"}
    PROVE  LET t == SetState(s, st)
           IN  /\ t \in State /\ t.a = s.a /\ t.center = s.center /\ t.m.st = st
               /\ t.m.hunt = s.m.hunt /\ t.m.sup = s.m.sup /\ t.m.conf = s.m.conf /\ t.m.acq = s.m.acq /\ t.m.req = s.m.req
               /\ t.m.xpt = s.m.xpt /\ t.m.park = s.m.park /\ t.m.waited = s.m.waited
               /\ t.m.t["sw"] = s.m.t["sw"] /\ t.m.t["armed"] \in {s.m.t["armed"], "off"}
  <1>0. SetState(s, st) \in State
    BY SetStateAlike
  <1>1. CASE s.m.st = st
    BY <1>0, <1>1 DEF SetState
  <1>2. CASE s.m.st # st
    <2> DEFINE armed == IF st = "idle" \/ s.m.hunt THEN s.m.t["armed"] ELSE "off"
               t == [s EXCEPT !.m.st = st, !.m.lost = FALSE, !.m.t["armed"] = armed]
    <2>1. SetState(s, st) = t
      BY <1>2 DEF SetState
    <2>2. armed \in {s.m.t["armed"], "off"}
      OBVIOUS
    <2> HIDE DEF armed
    <2>3. /\ t.a = s.a /\ t.center = s.center /\ t.m.st = st
          /\ t.m.hunt = s.m.hunt /\ t.m.sup = s.m.sup /\ t.m.conf = s.m.conf /\ t.m.acq = s.m.acq /\ t.m.req = s.m.req
          /\ t.m.xpt = s.m.xpt /\ t.m.park = s.m.park /\ t.m.waited = s.m.waited
      BY DEF State, Machine
    <2>4. t.m.t = [s.m.t EXCEPT !["armed"] = armed] /\ s.m.t \in [Timers -> Period]
      BY DEF State, Machine
    <2>5. t.m.t["sw"] = s.m.t["sw"] /\ t.m.t["armed"] = armed
      BY <2>4, TimerNames
    <2> HIDE DEF t
    <2> QED BY <1>0, <2>1, <2>2, <2>3, <2>5
  <1> QED BY <1>1, <1>2

(* A period starts that holds nothing.                                     *)
LEMMA StartSteady ==
    ASSUME NEW s \in State, NEW k \in Timers, k # "sw", k # "armed"
    PROVE  Steady(s, Start(s, k)) /\ Start(s, k) \in State /\ Start(s, k).m.acq = s.m.acq /\ Start(s, k).m.req = s.m.req
           /\ Start(s, k).m.st = s.m.st
  <1> DEFINE t == Start(s, k)
  <1>0. t \in State /\ t.a = s.a /\ t.center = s.center
    BY StartAlike DEF Alike, SameRx
  <1>1. t = [s EXCEPT !.m.t[k] = "running"]
    BY DEF Start
  <1>2. /\ t.m.st = s.m.st /\ t.m.hunt = s.m.hunt /\ t.m.sup = s.m.sup /\ t.m.conf = s.m.conf /\ t.m.acq = s.m.acq
        /\ t.m.req = s.m.req /\ t.m.xpt = s.m.xpt /\ t.m.park = s.m.park /\ t.m.waited = s.m.waited
    BY <1>1 DEF State, Machine
  <1>3. t.m.t = [s.m.t EXCEPT ![k] = "running"] /\ s.m.t \in [Timers -> Period]
    BY <1>1 DEF State, Machine
  <1>4. t.m.t["sw"] = s.m.t["sw"] /\ t.m.t["armed"] = s.m.t["armed"]
    BY <1>3, TimerNames
  <1> HIDE DEF t
  <1>5. Steady(s, t)
    BY <1>0, <1>2, <1>4 DEF Steady
  <1> QED BY <1>0, <1>2, <1>5 DEF t

(* dmr_cc_resolve_pending()                                                *)
LEMMA ResolveSteady ==
    ASSUME NEW s \in State
    PROVE  Steady(s, Resolve(s)) /\ (Resolve(s).m.acq => s.m.acq)
  <1> DEFINE g == [s EXCEPT !.m.req = "none", !.live = Retag(@, "own", "dead")]
  <1>0. g \in State /\ g.a = s.a /\ g.center = s.center /\ g.m = [s.m EXCEPT !.req = "none"]
    <2>1. "dead" \in {"loose", "dead"}
      OBVIOUS
    <2> QED BY <2>1, GoneEffect, Zenon
  <1>1. Resolve(s) = IF s.m.req = "none" THEN Go(s)
        ELSE IF s.m.req = "pending" /\ s.m.t["dl"] = "running" THEN Stop(s)
        ELSE IF s.m.req = "ok" THEN Go(Start([g EXCEPT !.m.rxf = s.m.probe, !.m.cur = TRUE], "aw"))
        ELSE Stop(SetState(Start([g EXCEPT !.m.acq = FALSE], "retry"), "hunting"))
    BY DEF Resolve
  <1> HIDE DEF g
  <1>2. s.m \in Machine /\ s.m.probe \in Places
    BY Parts
  <1>3. Steady(s, g) /\ g.m.acq = s.m.acq
    BY <1>0, <1>2 DEF Steady, Machine
  <1>4. CASE Resolve(s) = Go(s) \/ Resolve(s) = Stop(s)
    BY <1>4, GoStop, GoStopSteady
  <1>5. CASE Resolve(s) = Go(Start([g EXCEPT !.m.rxf = s.m.probe, !.m.cur = TRUE], "aw"))
    <2> DEFINE a == [g EXCEPT !.m.rxf = s.m.probe, !.m.cur = TRUE]
               b == Start(a, "aw")
    <2>1. a \in State /\ Steady(g, a) /\ a.m.acq = g.m.acq
      BY <1>0, <1>2 DEF State, Machine, Steady
    <2>2. Resolve(s) = Go(b)
      BY <1>5
    <2> HIDE DEF a
    <2>3. Steady(a, b) /\ b \in State /\ b.m.acq = a.m.acq
      BY <2>1, StartSteady, TimerNames
    <2> HIDE DEF b
    <2>4. Steady(b, Go(b)) /\ Go(b).m = b.m
      BY <2>3, GoStop, GoStopSteady
    <2>5. Steady(s, Go(b))
      BY <1>3, <2>1, <2>3, <2>4, SteadyThen
    <2> QED BY <1>3, <2>1, <2>2, <2>3, <2>4, <2>5
  <1>6. CASE Resolve(s) = Stop(SetState(Start([g EXCEPT !.m.acq = FALSE], "retry"), "hunting"))
    <2> DEFINE a == [g EXCEPT !.m.acq = FALSE]
               b == Start(a, "retry")
               c == SetState(b, "hunting")
    <2>1. a \in State /\ Steady(g, a) /\ ~a.m.acq
      BY <1>0, <1>2 DEF State, Machine, Steady
    <2>2. Resolve(s) = Stop(c)
      BY <1>6
    <2> HIDE DEF a
    <2>3. Steady(a, b) /\ b \in State /\ b.m.acq = a.m.acq
      BY <2>1, StartSteady, TimerNames
    <2> HIDE DEF b
    <2>4. c \in State /\ Steady(b, c) /\ c.m.acq = b.m.acq
      BY <2>3, SetStateSteady DEF Steady
    <2> HIDE DEF c
    <2>5. Steady(c, Stop(c)) /\ Stop(c).m = c.m
      BY <2>4, GoStop, GoStopSteady
    <2>6. Steady(s, Stop(c))
      BY <1>3, <2>1, <2>3, <2>4, <2>5, SteadyThen
    <2> QED BY <2>1, <2>2, <2>3, <2>4, <2>5, <2>6
  <1> QED BY <1>1, <1>4, <1>5, <1>6

(* A tune tracked for the frequency the decoder reads.                     *)
LEMMA TuneSteady ==
    ASSUME NEW s \in State, NEW t \in Tune(s, s.center, "own")
    PROVE  t \in State /\ Steady(s, t)
  <1> DEFINE f == s.center
             d == [s EXCEPT !.hw = f, !.center = f, !.failed = FALSE, !.m.cur = FALSE, !.m.req = "ok"]
             l == Loosen(s)
             p == [l EXCEPT !.m.req = "pending"]
             w == [p EXCEPT !.center = f, !.live = Append(@, [f |-> f, tag |-> "own"])]
  <1>0. s.center \in Freqs /\ "own" \in {"own", "loose"} /\ s.m \in Machine
    BY Parts
  <1>1. t \in State /\ t.a = s.a /\ t.m.st = s.m.st /\ t.m.hunt = s.m.hunt /\ t.m.sup = s.m.sup /\ t.m.conf = s.m.conf
    BY <1>0, TuneEffect DEF SameMachine
  <1>2. t = Stop(s) \/ t = Go(d) \/ t = Go(w)
    BY Zenon DEF Tune
  <1>3. CASE t = Stop(s)
    BY <1>1, <1>3, GoStopSteady
  <1>4. CASE t = Go(d)
    <2>1. d \in State /\ Steady(s, d)
      BY <1>0 DEF State, Machine, Steady
    <2> HIDE DEF d
    <2> QED BY <1>1, <1>4, <2>1, GoStopSteady, SteadyThen
  <1>5. CASE t = Go(w)
    <2>1. l \in State /\ l.a = s.a /\ l.center = s.center /\ l.m = [s.m EXCEPT !.req = "none"]
      <3>1. "loose" \in {"loose", "dead"}
        OBVIOUS
      <3> QED BY <3>1, GoneEffect, Zenon DEF Loosen
    <2> HIDE DEF l
    <2>2. Steady(s, l)
      BY <1>0, <2>1 DEF Steady, Machine
    <2>3. p \in State /\ Steady(l, p)
      BY <2>1 DEF State, Machine, Steady
    <2> HIDE DEF p
    <2>4. t.center = f /\ t.m = p.m
      BY <1>5, <2>3 DEF Go, State
    <2> QED BY <1>1, <2>2, <2>3, <2>4 DEF Steady
  <1> QED BY <1>2, <1>3, <1>4, <1>5

(* dmr_sm_settle_step(): the tune that settles the ledger is for the       *)
(* frequency the decoder reads                                             *)
LEMMA SettleStepSteady ==
    ASSUME NEW s \in State, NEW t \in SettleStep(s)
    PROVE  t \in State /\ Steady(s, t) /\ (t.go => t.m.req = "none" /\ (t.m.acq => s.m.acq))
  <1> DEFINE r == Resolve(s)
             X(u) == [u EXCEPT !.m.probe = r.center]
  <1>1. r \in State /\ Steady(s, r) /\ (r.m.acq => s.m.acq)
    BY ResolveEffect, ResolveSteady
  <1>2. \/ t = Stop(r)
        \/ t = Go(r) /\ r.m.req = "none"
        \/ \E u \in Tune(r, r.center, "own") : t = Stop(IF u.go THEN Start(X(u), "dl") ELSE r)
    BY Zenon DEF SettleStep
  <1> HIDE DEF r
  <1>3. r.center \in Places
    BY <1>1, Parts DEF Places
  <1>4. /\ Steady(r, Stop(r)) /\ Stop(r) \in State /\ ~Stop(r).go
        /\ Steady(r, Go(r)) /\ Go(r) \in State /\ Go(r).m = r.m
    BY <1>1, GoStop, GoStopSteady DEF Alike
  <1>5. CASE t = Stop(r)
    BY <1>1, <1>4, <1>5, SteadyThen
  <1>6. CASE t = Go(r) /\ r.m.req = "none"
    BY <1>1, <1>4, <1>6, SteadyThen
  <1>7. ASSUME NEW u \in Tune(r, r.center, "own"), t = Stop(IF u.go THEN Start(X(u), "dl") ELSE r)
        PROVE  t \in State /\ Steady(s, t) /\ ~t.go
    <2> DEFINE x == X(u)
               y == Start(x, "dl")
    <2>1. u \in State /\ Steady(r, u)
      BY <1>1, TuneSteady
    <2>2. x \in State /\ Steady(u, x)
      BY <1>3, <2>1 DEF State, Machine, Steady
    <2>3. t = Stop(y) \/ t = Stop(r)
      BY <1>7
    <2> HIDE DEF x
    <2>4. Steady(x, y) /\ y \in State
      BY <2>2, StartSteady, TimerNames
    <2> HIDE DEF y
    <2>5. Steady(y, Stop(y)) /\ Stop(y) \in State /\ ~Stop(y).go
      BY <2>4, GoStop, GoStopSteady DEF Alike
    <2>6. Steady(s, Stop(y)) /\ Steady(s, Stop(r))
      BY <1>1, <1>4, <2>1, <2>2, <2>4, <2>5, SteadyThen
    <2> QED BY <1>4, <2>3, <2>5, <2>6
  <1> QED BY <1>2, <1>5, <1>6, <1>7

(* dmr_sm_cold_start_park_now()                                            *)
LEMMA ParkFirm ==
    ASSUME NEW s \in State, NEW keep \in BOOLEAN
    PROVE  LET t == ParkNow(s, keep)
           IN  t \in State /\ t.center = s.center /\ t.a = s.a /\ (~s.m.sup /\ s.m.t["armed"] # "over" => Firm(t))
  <1> DEFINE l == Loosen(s)
             x == [l EXCEPT !.m.acq = FALSE, !.m.probe = 0, !.m.rxf = 0, !.m.t["retry"] = "off"]
             c == ColdClear(x)
             armed == s.m.t["armed"]
             k == [c EXCEPT !.m.t["armed"] = armed]
             u == IF keep THEN k ELSE c
             z == SetState(u, "idle")
  <1>0. 0 \in Places /\ s.m \in Machine /\ armed \in Period
    BY Parts, TimerNames DEF Places
  <1>1. l \in State /\ l.a = s.a /\ l.center = s.center /\ l.m.sup = s.m.sup
    BY LoosenEffect, Zenon
  <1>2. ParkNow(s, keep) = z
    BY Zenon DEF ParkNow
  <1> HIDE DEF l
  <1>3. x \in State /\ x.a = l.a /\ x.center = l.center /\ x.m.sup = l.m.sup
    <2> DEFINE g == [l.m.t EXCEPT !["retry"] = "off"]
               y == [l.m EXCEPT !.acq = FALSE, !.probe = 0, !.rxf = 0, !.t = g]
    <2>1. l.m \in Machine /\ l.m.t \in [Timers -> Period]
      BY <1>1, Parts DEF State
    <2>2. g \in [Timers -> Period]
      BY <2>1 DEF Period
    <2>3. x = [l EXCEPT !.m = y]
      BY <1>1 DEF State, Machine
    <2> HIDE DEF g
    <2>4. y \in Machine /\ y.sup = l.m.sup
      BY <1>0, <2>1, <2>2 DEF Machine
    <2> HIDE DEF y, x
    <2> QED BY <1>1, <2>3, <2>4 DEF State
  <1> HIDE DEF x
  <1>4. c \in State /\ c.a = x.a /\ c.center = x.center /\ c.m.sup = x.m.sup /\ ~c.m.hunt
    BY <1>3, ColdClearAlike DEF Alike, SameRx
  <1>5. c.m.t["armed"] = "off"
    BY <1>3, TimerNames DEF ColdClear, State, Machine
  <1> HIDE DEF c, armed
  <1>6. k \in State /\ k.a = c.a /\ k.center = c.center /\ k.m.sup = c.m.sup /\ k.m.hunt = c.m.hunt /\ k.m.t["armed"] = armed
    <2>1. k.m.t = [c.m.t EXCEPT !["armed"] = armed] /\ c.m.t \in [Timers -> Period]
      BY <1>4 DEF State, Machine
    <2>2. k \in State /\ k.a = c.a /\ k.center = c.center /\ k.m.sup = c.m.sup /\ k.m.hunt = c.m.hunt
      BY <1>0, <1>4 DEF State, Machine, Timers
    <2> QED BY <2>1, <2>2, TimerNames
  <1> HIDE DEF k
  <1>7. u \in State /\ u.a = s.a /\ u.center = s.center /\ u.m.sup = s.m.sup /\ ~u.m.hunt /\ u.m.t["armed"] \in {armed, "off"}
    BY <1>1, <1>3, <1>4, <1>5, <1>6
  <1> HIDE DEF u
  <1>8. /\ z \in State /\ z.a = u.a /\ z.center = u.center /\ z.m.st = "idle" /\ z.m.sup = u.m.sup /\ z.m.hunt = u.m.hunt
        /\ z.m.t["armed"] \in {u.m.t["armed"], "off"}
    BY <1>7, SetStateSteady
  <1> HIDE DEF z
  <1>9. ~s.m.sup /\ s.m.t["armed"] # "over" => Firm(z)
    BY <1>7, <1>8 DEF Firm, armed
  <1> QED BY <1>2, <1>7, <1>8, <1>9

(* dmr_sm_cold_start_settle()                                              *)
LEMMA ColdSettleFirm ==
    ASSUME NEW s \in State, StillInv(s), Firm(s), s.m.hunt, NEW keep \in BOOLEAN, NEW t \in ColdSettle(s, keep)
    PROVE  Firm(t) /\ t.center = s.center /\ t.a = s.a /\ ~t.go
  <1> DEFINE p == IF keep THEN 1 ELSE 2
             x == [s EXCEPT !.m.park = p]
  <1>0. p \in 0 .. 2 /\ p # 0
    OBVIOUS
  <1>1. PICK u \in SettleStep(x) : t = IF u.go THEN Stop(ParkNow(u, keep)) ELSE u
    BY Zenon DEF ColdSettle, p
  <1> HIDE DEF p
  <1>2. /\ x \in State /\ x.a = s.a /\ x.center = s.center /\ x.m.st = s.m.st /\ x.m.hunt = s.m.hunt /\ x.m.sup = s.m.sup
        /\ x.m.xpt = s.m.xpt /\ x.m.park = p /\ x.m.t = s.m.t
    BY <1>0 DEF State, Machine
  <1> HIDE DEF x
  <1>3. u \in State /\ Steady(x, u)
    BY <1>2, SettleStepSteady
  <1>4. /\ ~u.m.sup /\ u.m.hunt /\ u.m.t["armed"] # "over" /\ u.a = s.a /\ u.center = s.center /\ u.m.park # 0
        /\ u.m.st \in {s.m.st, "hunting"} /\ u.m.xpt = s.m.xpt
    BY <1>0, <1>2, <1>3 DEF Steady, Firm, StillInv
  <1>5. CASE u.go
    <2> DEFINE z == ParkNow(u, keep)
    <2>1. z \in State /\ Firm(z) /\ z.center = u.center /\ z.a = u.a
      BY <1>3, <1>4, ParkFirm
    <2>2. t = Stop(z)
      BY <1>1, <1>5
    <2> HIDE DEF z
    <2>3. t.m = z.m /\ t.a = z.a /\ t.center = z.center /\ ~t.go
      BY <2>1, <2>2, GoStop DEF Alike, SameRx
    <2> QED BY <1>4, <2>1, <2>3 DEF Firm
  <1>6. CASE ~u.go
    BY <1>1, <1>4, <1>6 DEF Firm
  <1> QED BY <1>5, <1>6

(* dmr_sm_cold_start_gate(): a hunt the operator moved goes no further     *)
LEMMA ColdGateFirm ==
    ASSUME NEW s \in State, trunk \in BOOLEAN, StillInv(s), Firm(s), s.m.hunt, s.a.tuned = FALSE, s.a.owner # "other",
           NEW t \in ColdGate(s, FALSE)
    PROVE  Firm(t) /\ t.center = s.center /\ t.a = s.a /\ ~t.go
  <1> DEFINE c == ParkNow(s, FALSE)
  <1>0. s.a.owner \in {"none", "dmr"} /\ ~s.m.sup /\ ~s.m.conf /\ Map # <<>> /\ s.m.park # 0
        /\ s.m.t["armed"] # "over" /\ (s.m.st = "tuned" => ~s.m.xpt)
    BY DEF Firm, StillInv, State, Shared
  <1>1. trunk /\ s.m.st = "tuned" => HuntEligible(s)
    BY <1>0 DEF HuntEligible
  <1>2. t = Stop(c) \/ \E keep \in BOOLEAN : t \in ColdSettle(s, keep)
    <2>1. (s.m.park = 1) \in BOOLEAN /\ TRUE \in BOOLEAN /\ FALSE \in BOOLEAN
      OBVIOUS
    <2>2. CASE s.a.owner = "dmr" /\ s.m.xpt
      BY <1>0, <2>2, Zenon DEF ColdGate
    <2>3. CASE ~(s.a.owner = "dmr" /\ s.m.xpt) /\ ~trunk
      BY <2>3, Zenon DEF ColdGate
    <2>4. CASE ~(s.a.owner = "dmr" /\ s.m.xpt) /\ trunk
      BY <1>0, <1>1, <2>1, <2>4, Zenon DEF ColdGate
    <2> QED BY <2>2, <2>3, <2>4
  <1>3. CASE t = Stop(c)
    <2>1. c \in State /\ Firm(c) /\ c.center = s.center /\ c.a = s.a
      BY <1>0, ParkFirm
    <2> HIDE DEF c
    <2>2. t.m = c.m /\ t.a = c.a /\ t.center = c.center /\ ~t.go
      BY <1>3, <2>1, GoStop DEF Alike, SameRx
    <2> QED BY <2>1, <2>2 DEF Firm
  <1>4. CASE \E keep \in BOOLEAN : t \in ColdSettle(s, keep)
    BY <1>4, ColdSettleFirm
  <1> QED BY <1>2, <1>3, <1>4

(* dmr_sm_settle_after_move(): once settled the machine listens            *)
LEMMA SettleMoveFirm ==
    ASSUME NEW s \in State, StillInv(s), Firm(s), ~s.m.hunt, NEW t \in SettleAfterMove(s)
    PROVE  t \in State /\ Firm(t) /\ t.center = s.center /\ t.a = s.a /\ ~t.m.hunt /\ (t.go => ~t.m.sup /\ t.m.req = "none")
  <1>1. CASE ~s.m.sup
    <2>1. t = Go(s)
      BY <1>1, Zenon DEF SettleAfterMove
    <2>2. t \in State /\ t.m = s.m /\ t.a = s.a /\ t.center = s.center
      BY <2>1, GoStop DEF Alike, SameRx
    <2>3. s.m.req = "none"
      BY <1>1 DEF Firm, StillInv
    <2> QED BY <1>1, <2>2, <2>3 DEF Firm
  <1>2. CASE s.m.sup
    <2> DEFINE W(u) == IF u.m.waited THEN "running" ELSE u.m.t["sw"]
               X(u) == [u EXCEPT !.m.sup = FALSE, !.m.waited = FALSE, !.m.acq = FALSE, !.m.t["retry"] = "off",
                                 !.m.t["sw"] = W(u)]
    <2>1. PICK u \in SettleStep(s) : t = IF ~u.go THEN [u EXCEPT !.m.waited = TRUE] ELSE SetState(X(u), "cc")
      BY <1>2, Zenon DEF SettleAfterMove
    <2>2. u \in State /\ Steady(s, u) /\ (u.go => u.m.req = "none")
      BY SettleStepSteady
    <2>3. ~u.m.hunt /\ u.m.sup /\ (u.m.waited \/ u.m.t["sw"] = "running") /\ u.m.st # "tuned" /\ u.a = s.a /\ u.center = s.center
      BY <1>2, <2>2 DEF Steady, Firm
    <2>4. CASE ~u.go
      <3>1. t = [u EXCEPT !.m.waited = TRUE]
        BY <2>1, <2>4
      <3>2. /\ t \in State /\ t.m.waited /\ t.m.hunt = u.m.hunt /\ t.m.sup = u.m.sup /\ t.m.st = u.m.st /\ t.a = u.a
            /\ t.center = u.center /\ t.go = u.go
        BY <2>2, <3>1 DEF State, Machine
      <3> QED BY <2>3, <2>4, <3>2 DEF Firm
    <2>5. CASE u.go
      <3> DEFINE v == [u EXCEPT !.m.sup = FALSE, !.m.waited = FALSE, !.m.acq = FALSE]
                 x == [v EXCEPT !.m.t["retry"] = "off", !.m.t["sw"] = "running"]
      <3>1. W(u) = "running"
        BY <2>3
      <3>2. X(u) = x
        <4> DEFINE y == [u EXCEPT !.m.sup = FALSE, !.m.waited = FALSE, !.m.acq = FALSE, !.m.t["retry"] = "off",
                                  !.m.t["sw"] = "running"]
        <4>1. X(u) = y
          BY <3>1, Zenon
        <4>2. y = x
          OBVIOUS
        <4> QED BY <4>1, <4>2, Zenon
      <3>3. t = SetState(x, "cc")
        BY <2>1, <2>5, <3>2
      <3>4. v \in State /\ ~v.m.sup /\ ~v.m.acq /\ v.m.hunt = u.m.hunt /\ v.m.req = u.m.req /\ v.a = u.a /\ v.center = u.center
        BY <2>2 DEF State, Machine
      <3> HIDE DEF v
      <3>5. x \in State /\ x.a = v.a /\ x.center = v.center
        BY <3>4 DEF State, Machine, Timers, Period
      <3>6. /\ x.m.sup = v.m.sup /\ x.m.acq = v.m.acq /\ x.m.hunt = v.m.hunt /\ x.m.req = v.m.req
            /\ x.m.t["sw"] = "running"
        BY <3>4 DEF State, Machine, Timers
      <3> HIDE DEF x
      <3>7. /\ t \in State /\ t.m.st = "cc" /\ t.m.hunt = x.m.hunt /\ t.m.sup = x.m.sup /\ t.m.acq = x.m.acq
            /\ t.m.req = x.m.req /\ t.m.t["sw"] = x.m.t["sw"] /\ t.a = x.a /\ t.center = x.center
        BY <3>3, <3>5, SetStateSteady
      <3> QED BY <2>2, <2>3, <2>5, <3>4, <3>5, <3>6, <3>7 DEF Firm
    <2> QED BY <2>4, <2>5
  <1> QED BY <1>1, <1>2

(* dmr_sm_tick_idle_cold_start()                                           *)
LEMMA TickIdleFirm ==
    ASSUME NEW s \in State, Firm(s), ~s.m.hunt, ~s.m.sup, s.m.st = "idle", NEW t \in TickIdle(s)
    PROVE  Firm(t) /\ t.center = s.center /\ t.a = s.a
  <1> DEFINE T(p) == [s EXCEPT !.m.t["armed"] = p]
  <1>0. s.m.t["armed"] # "over" /\ s.m.t["armed"] \in Period /\ s.m.t \in [Timers -> Period]
    BY Parts, TimerNames DEF Firm
  <1>1. t = T("off") \/ t = T("running") \/ t = s
    <2>1. s.m.t["armed"] \in {"off", "running"}
      BY <1>0 DEF Period
    <2> QED BY <2>1 DEF TickIdle, Start
  <1>2. ASSUME NEW p \in {"off", "running"}, t = T(p)
        PROVE  Firm(t) /\ t.center = s.center /\ t.a = s.a
    <2>1. /\ t.m.hunt = s.m.hunt /\ t.m.sup = s.m.sup /\ t.m.st = s.m.st /\ t.center = s.center /\ t.a = s.a
          /\ t.m.t = [s.m.t EXCEPT !["armed"] = p]
      BY <1>2 DEF State, Machine
    <2>2. t.m.t["armed"] = p
      BY <1>0, <2>1, TimerNames
    <2> QED BY <2>1, <2>2 DEF Firm
  <1>3. CASE t = s
    BY <1>3
  <1> QED BY <1>1, <1>2, <1>3

(* dmr_sm_tick_ctx(): the operator's receiver stays                        *)
LEMMA TickFirm ==
    ASSUME trunk \in BOOLEAN, NEW s \in State, StillInv(s), s.a.tuned = FALSE, s.a.owner # "other", Firm(s),
           NEW admitted \in BOOLEAN, NEW t \in Ticked(s, admitted)
    PROVE  Firm(t) /\ t.center = s.center /\ t.a = s.a
  <1> DEFINE o == [s EXCEPT !.m.t["armed"] = "off"]
  <1>1. CASE Allowed(s)
    <2> DEFINE Work(u) ==
                  IF ~u.go THEN {u}
                  ELSE CASE u.m.st = "idle" -> TickIdle(u)
                         [] u.m.st = "cc" -> IF u.a.tuned THEN ReceiveCheck(u, admitted) ELSE {TickOnCc(u)}
                         [] u.m.st = "tuned" -> TickTuned(u, admitted)
                         [] u.m.st = "hunting" -> Hunt(u)
    <2>1. PICK u \in Ready(s) : t \in Work(u)
      BY <1>1, Zenon DEF Ticked, Then
    <2>2. CASE s.m.hunt
      <3>1. PICK v \in ColdGate(s, FALSE) :
               u \in (IF ~v.go THEN {v} ELSE Then(SettleAfterMove(v), LAMBDA w : IF w.go THEN {Resolve(w)} ELSE {w}))
        BY <2>2, Zenon DEF Ready, Then
      <3>2. Firm(v) /\ v.center = s.center /\ v.a = s.a /\ ~v.go
        BY <2>2, ColdGateFirm
      <3>3. u = v
        BY <3>1, <3>2, Zenon
      <3>4. t = v
        BY <2>1, <3>2, <3>3
      <3> QED BY <3>2, <3>4
    <2>3. CASE ~s.m.hunt
      <3> DEFINE h == Go(s)
      <3>1. h \in State /\ h.m = s.m /\ h.a = s.a /\ h.center = s.center /\ h.go
        BY GoStop DEF Alike, SameRx
      <3>2. StillInv(h) /\ Firm(h)
        BY <3>1 DEF StillInv, Firm
      <3>3. PICK v \in SettleAfterMove(h) : u \in (IF v.go THEN {Resolve(v)} ELSE {v})
        <4>1. u \in (IF ~h.go THEN {h} ELSE UNION {IF v.go THEN {Resolve(v)} ELSE {v} : v \in SettleAfterMove(h)})
          BY <2>3, Zenon DEF Ready, Then
        <4> HIDE DEF h
        <4>2. u \in UNION {IF v.go THEN {Resolve(v)} ELSE {v} : v \in SettleAfterMove(h)}
          BY <3>1, <4>1, Zenon
        <4> QED BY <4>2, Zenon
      <3> HIDE DEF h
      <3>4. /\ v \in State /\ Firm(v) /\ v.center = s.center /\ v.a = s.a /\ ~v.m.hunt
            /\ v.go => ~v.m.sup /\ v.m.req = "none"
        BY <2>3, <3>1, <3>2, <3>3, SettleMoveFirm
      <3>5. CASE ~v.go
        <4>1. u = v
          BY <3>3, <3>5
        <4>2. t = v
          BY <2>1, <3>5, <4>1
        <4> QED BY <3>4, <4>2
      <3>6. CASE v.go
        <4>1. u = Go(v)
          BY <3>3, <3>4, <3>6 DEF Resolve
        <4>2. u \in State /\ u.m = v.m /\ u.a = s.a /\ u.center = s.center /\ u.go
          BY <3>4, <4>1, GoStop DEF Alike, SameRx
        <4>3. Firm(u) /\ ~u.m.hunt /\ ~u.m.sup /\ u.a.tuned = FALSE
          BY <3>4, <3>6, <4>2 DEF Firm
        <4>4. CASE u.m.st = "idle"
          <5>1. t \in TickIdle(u)
            BY <2>1, <4>2, <4>4
          <5> QED BY <4>2, <4>3, <4>4, <5>1, TickIdleFirm
        <4>5. CASE u.m.st # "idle"
          <5>1. u.m.st = "cc" /\ ~u.m.acq /\ u.m.t["sw"] = "running"
            BY <4>3, <4>5 DEF Firm
          <5>2. TickOnCc(u) = u
            BY <5>1 DEF TickOnCc, WindowOpen
          <5>3. t = u
            BY <2>1, <4>2, <4>3, <5>1, <5>2
          <5> QED BY <4>2, <4>3, <5>3
        <4> QED BY <4>4, <4>5
      <3> QED BY <3>5, <3>6
    <2> QED BY <2>2, <2>3
  <1>2. CASE ~Allowed(s) /\ s.m.hunt
    <2>1. t \in ColdGate(s, FALSE)
      BY <1>2, Zenon DEF Ticked
    <2> QED BY <1>2, <2>1, ColdGateFirm
  <1>3. CASE ~Allowed(s) /\ ~s.m.hunt
    <2>1. t = o
      BY <1>3, Zenon DEF Ticked
    <2>2. /\ t.a = s.a /\ t.center = s.center /\ t.m.st = s.m.st /\ t.m.hunt = s.m.hunt /\ t.m.sup = s.m.sup
          /\ t.m.waited = s.m.waited /\ t.m.acq = s.m.acq /\ t.m.req = s.m.req /\ t.m.t = [s.m.t EXCEPT !["armed"] = "off"]
      BY <2>1 DEF State, Machine
    <2>3. t.m.t["armed"] = "off" /\ t.m.t["sw"] = s.m.t["sw"]
      BY <2>2, Parts, TimerNames
    <2> QED BY <1>3, <2>2, <2>3 DEF Firm
  <1> QED BY <1>1, <1>2, <1>3

(* With another protocol the owner of the trunk a tick tunes nothing.      *)
LEMMA TickOther ==
    ASSUME NEW s \in State, s.a.owner = "other", NEW admitted \in BOOLEAN, NEW t \in Ticked(s, admitted)
    PROVE  t.center = s.center /\ t.a = s.a
  <1> DEFINE c == ColdClear(s)
             p == ParkNow(s, FALSE)
             o == [s EXCEPT !.m.t["armed"] = "off"]
  <1>1. t = Stop(c) \/ t = Stop(p) \/ t = o
    <2>1. ~Allowed(s)
      BY DEF Allowed
    <2>2. t \in (IF s.m.hunt THEN ColdGate(s, FALSE) ELSE {o})
      BY <2>1, Zenon DEF Ticked
    <2> QED BY <2>2, Zenon DEF ColdGate
  <1>2. c \in State /\ c.a = s.a /\ c.center = s.center
    BY ColdClearAlike DEF Alike, SameRx
  <1>3. p \in State /\ p.a = s.a /\ p.center = s.center
    BY ParkFirm
  <1>4. o.a = s.a /\ o.center = s.center
    BY DEF State
  <1> HIDE DEF c, p, o
  <1> QED BY <1>1, <1>2, <1>3, <1>4, GoStop DEF Alike, SameRx

(* A step after which the receiver is held, and before which it is not     *)
(* taken elsewhere.                                                        *)
Holds == Kept' /\ (moved /\ moved' /\ trunk /\ events' = events => rx'.center = rx.center)

(* A tick.                                                                 *)
LEMMA TickKept ==
    ASSUME IInv, Kept, NEW admitted \in BOOLEAN, Tick(admitted)
    PROVE  Holds
  <1>0. /\ Here \in State /\ StillInv(Here) /\ trunk \in BOOLEAN /\ Here.m = m /\ Here.a = shared
        /\ Here.center = rx.center
    BY HereTyped
  <1>1. PICK t \in Ticked(Here, admitted) : Leaves(t)
    BY DEF Tick
  <1>2. moved' = moved /\ m' = t.m /\ shared' = t.a /\ rx'.center = t.center /\ events' = events
    BY <1>1 DEF Tick, Leaves
  <1>3. CASE ~moved
    BY <1>2, <1>3 DEF Kept, Holds
  <1>4. CASE moved /\ shared.owner = "other"
    <2>1. t.center = Here.center /\ t.a = Here.a
      BY <1>0, <1>1, <1>4, TickOther
    <2> QED BY <1>0, <1>2, <1>4, <2>1 DEF Kept, Holds
  <1>5. CASE moved /\ shared.owner # "other"
    <2>1. Firm(Here) /\ Here.a.tuned = FALSE
      BY <1>0, <1>5 DEF Kept
    <2>2. Firm(t) /\ t.center = Here.center /\ t.a = Here.a
      BY <1>0, <1>1, <1>5, <2>1, TickFirm
    <2>3. Firm(Here)'
      BY <1>2, <2>2 DEF Firm, Here
    <2> QED BY <1>0, <1>2, <1>5, <2>1, <2>2, <2>3 DEF Kept, Holds
  <1>6. moved \in BOOLEAN
    BY DEF Kept
  <1> QED BY <1>3, <1>4, <1>5, <1>6

(* A period passes: one that holds the receiver ends the move's claim.     *)
LEMMA PassKept ==
    ASSUME IInv, Kept, NEW k \in Timers, Pass(k)
    PROVE  Holds
  <1>0. m \in Machine /\ StillInv(Here) /\ Here.m = m
    BY HereTyped, Parts
  <1>1. /\ m' = [m EXCEPT !.t[k] = "over", !.talk = IF k = "voice" THEN FALSE ELSE @]
        /\ moved' = (moved /\ (k \notin {"sw", "armed"} \/ (m.sup /\ m.waited))) /\ UNCHANGED <<shared, rx, events>>
    BY DEF Pass
  <1>2. /\ m'.st = m.st /\ m'.hunt = m.hunt /\ m'.sup = m.sup /\ m'.waited = m.waited /\ m'.acq = m.acq /\ m'.req = m.req
        /\ m'.park = m.park /\ m'.xpt = m.xpt /\ m'.t = [m.t EXCEPT ![k] = "over"] /\ m.t \in [Timers -> Period]
    BY <1>0, <1>1 DEF Machine
  <1>3. /\ k # "sw" => m'.t["sw"] = m.t["sw"]
        /\ k # "armed" => m'.t["armed"] = m.t["armed"]
    BY <1>2, TimerNames
  <1>4. ASSUME moved', shared.owner # "other"
        PROVE  Firm(Here)'
    <2>1. moved /\ (k \notin {"sw", "armed"} \/ (m.sup /\ m.waited))
      BY <1>1, <1>4
    <2>2. Firm(Here)
      BY <1>4, <2>1 DEF Kept
    <2>3. m.hunt => ~m.sup
      BY <1>0 DEF StillInv
    <2> QED BY <1>0, <1>2, <1>3, <2>1, <2>2, <2>3 DEF Firm, Here
  <1>5. moved \in BOOLEAN /\ moved' \in BOOLEAN /\ (moved' => moved)
    BY <1>1 DEF Kept
  <1> QED BY <1>1, <1>4, <1>5 DEF Kept, Holds

(* An answer moves the receiver, not what was asked of it.                 *)
LEMMA AnswerKept ==
    ASSUME IInv, Kept, NEW ok \in BOOLEAN, Answer(ok)
    PROVE  Holds
  <1> DEFINE r == Head(rx.live)
             req == IF r.tag # "own" THEN m.req ELSE IF ok THEN "ok" ELSE "failed"
             cur == m.cur /\ ~(ok /\ r.tag \in {"own", "loose"})
  <1>0. /\ Sound(Here) /\ Here \in State /\ m \in Machine /\ StillInv(Here) /\ Here.m = m /\ Here.live = rx.live
        /\ rx \in Receiver
    BY HereTyped, Parts DEF IInv
  <1>1. m' = [m EXCEPT !.req = req, !.cur = cur] /\ moved' = moved /\ shared' = shared /\ events' = events
    BY DEF Answer
  <1>2. rx'.center = rx.center
    BY <1>0 DEF Answer, Receiver
  <1>3. m.req # "pending" => r.tag # "own"
    <2>1. rx.live \in Seq(Entry) /\ rx.live # <<>>
      BY <1>0 DEF Answer, Receiver
    <2>2. 1 \in 1 .. Len(rx.live) /\ r = rx.live[1]
      BY <2>1
    <2> QED BY <1>0, <2>2 DEF Sound, OwnInv
  <1>4. m.req = "none" => req = "none"
    BY <1>3
  <1> HIDE DEF req, cur, r
  <1>5. /\ m'.st = m.st /\ m'.hunt = m.hunt /\ m'.sup = m.sup /\ m'.waited = m.waited /\ m'.acq = m.acq /\ m'.req = req
        /\ m'.park = m.park /\ m'.xpt = m.xpt /\ m'.t = m.t
    BY <1>0, <1>1 DEF Machine
  <1>6. Firm(Here) => Firm(Here)'
    BY <1>4, <1>5 DEF Firm, Here
  <1> QED BY <1>1, <1>2, <1>6 DEF Kept, Holds

(* The operator moves the receiver: what will hold it is set up.           *)
LEMMA RetuneFirm ==
    ASSUME NEW s \in State, StillInv(s), s.m.st # "idle" \/ s.m.t["armed"] # "off",
           ~(s.m.hunt /\ s.m.st = "tuned" /\ s.m.xpt), s.a.tuned = FALSE
    PROVE  Firm(NoteRetune(s)) /\ NoteRetune(s).a.tuned = FALSE
  <1> DEFINE t == NoteRetune(s)
             x == [s EXCEPT !.m.park = 1, !.m.probe = 0, !.m.rxf = 0]
             b == IF s.m.st = "tuned" THEN Abandon(s) ELSE s
             g == [[b.m.t EXCEPT !["aw"] = "off"] EXCEPT !["retry"] = "off"]
             y == [b EXCEPT !.m.rxf = 0, !.m.cur = FALSE, !.m.probe = 0, !.m.acq = FALSE, !.m.sup = TRUE,
                            !.m.waited = FALSE, !.m.t = [@ EXCEPT !["aw"] = "off", !["retry"] = "off"]]
             z == Start(y, "sw")
  <1>0. 0 \in Places /\ 1 \in 0 .. 2 /\ s.m.t \in [Timers -> Period]
    BY Parts DEF Places
  <1>1. CASE s.m.hunt
    <2>1. t = Start(x, "armed")
      BY <1>1 DEF NoteRetune
    <2>2. /\ x \in State /\ x.a = s.a /\ x.m.st = s.m.st /\ x.m.hunt = s.m.hunt /\ x.m.sup = s.m.sup /\ x.m.xpt = s.m.xpt
          /\ x.m.park = 1
      BY <1>0 DEF State, Machine
    <2> HIDE DEF x
    <2>3. /\ t.a = x.a /\ t.m.st = x.m.st /\ t.m.hunt = x.m.hunt /\ t.m.sup = x.m.sup /\ t.m.xpt = x.m.xpt
          /\ t.m.park = x.m.park /\ t.m.t["armed"] = "running"
      BY <2>1, <2>2, TimerNames DEF Start, State, Machine
    <2> HIDE DEF t
    <2>4. Firm(t)
      BY <1>1, <2>2, <2>3 DEF Firm, StillInv
    <2> QED BY <2>2, <2>3, <2>4 DEF t
  <1>2. CASE ~s.m.hunt /\ s.m.st = "idle"
    <2>1. t = Start(s, "armed")
      BY <1>2 DEF NoteRetune
    <2>2. /\ t.a = s.a /\ t.m.st = s.m.st /\ t.m.hunt = s.m.hunt /\ t.m.sup = s.m.sup /\ t.m.t["armed"] = "running"
      BY <2>1, TimerNames DEF Start, State, Machine
    <2> HIDE DEF t
    <2>3. Firm(t)
      BY <1>2, <2>2 DEF Firm, StillInv
    <2> QED BY <2>2, <2>3 DEF t
  <1>3. CASE ~s.m.hunt /\ s.m.st # "idle"
    <2>1. t = SetState(z, "cc")
      BY <1>3 DEF NoteRetune
    <2>2. b \in State /\ b.a.tuned = FALSE /\ b.m.hunt = s.m.hunt
      <3>1. CASE s.m.st = "tuned"
        <4> DEFINE a == [s EXCEPT !.a.force = FALSE]
                   c == ClearCarrier(a, FALSE, "cc")
        <4>1. a \in State /\ a.m = s.m
          BY DEF State, Shared
        <4>2. b = c /\ FALSE \in BOOLEAN /\ "cc" \in {"cc", "hunting"}
          BY <3>1 DEF Abandon
        <4> HIDE DEF a, b
        <4>3. c \in State /\ ~c.a.tuned /\ c.m.hunt = a.m.hunt
          BY <4>1, <4>2, ClearEffect, Zenon
        <4> HIDE DEF c
        <4>4. c.a.tuned \in BOOLEAN
          BY <4>3, Parts
        <4> QED BY <4>1, <4>2, <4>3, <4>4
      <3>2. CASE s.m.st # "tuned"
        BY <3>2
      <3> QED BY <3>1, <3>2
    <2> HIDE DEF b
    <2>3. b.m \in Machine /\ b.m.t \in [Timers -> Period]
      BY <2>2, Parts
    <2>4. g \in [Timers -> Period]
      BY <2>3 DEF Timers, Period
    <2> DEFINE n == [b.m EXCEPT !.rxf = 0, !.cur = FALSE, !.probe = 0, !.acq = FALSE, !.sup = TRUE, !.waited = FALSE, !.t = g]
    <2>5. y = [b EXCEPT !.m = n]
      BY <2>2, <2>3 DEF State, Machine
    <2> HIDE DEF g, y
    <2>6. n \in Machine /\ n.hunt = b.m.hunt /\ n.sup = TRUE
      BY <1>0, <2>3, <2>4 DEF Machine
    <2> HIDE DEF n
    <2>7. y \in State /\ y.m = n /\ y.a = b.a
      BY <2>2, <2>5, <2>6 DEF State
    <2>8. z \in State /\ z.m.hunt = y.m.hunt /\ z.m.sup = y.m.sup /\ z.a = y.a /\ z.m.t["sw"] = "running"
      <3>1. z \in State /\ z.m.hunt = y.m.hunt /\ z.m.sup = y.m.sup /\ z.a = y.a
        BY <2>7, StartAlike, TimerNames DEF Alike
      <3>2. z.m.t["sw"] = "running"
        BY <2>7, TimerNames DEF Start, State, Machine
      <3> QED BY <3>1, <3>2
    <2> HIDE DEF z
    <2>9. t.m.st = "cc" /\ t.m.hunt = z.m.hunt /\ t.m.sup = z.m.sup /\ t.a = z.a /\ t.m.t["sw"] = z.m.t["sw"]
      BY <2>1, <2>8, SetStateSteady
    <2> HIDE DEF t
    <2>10. Firm(t)
      BY <1>3, <2>2, <2>6, <2>7, <2>8, <2>9 DEF Firm
    <2> QED BY <2>2, <2>7, <2>8, <2>9, <2>10 DEF t
  <1> QED BY <1>1, <1>2, <1>3

(* The operator's move as a step.                                          *)
LEMMA MoveHeld ==
    ASSUME IInv, Kept, NEW f \in Freqs, NEW return \in BOOLEAN, Move(f, return)
    PROVE  Holds
  <1> DEFINE e == [f |-> f, tag |-> "move"]
             D == [Here EXCEPT !.hw = f, !.center = f]
             L == [Here EXCEPT !.center = f, !.live = Append(@, e)]
             V(s) == [s EXCEPT !.a.tuned = FALSE]
             W(s) == IF return /\ ~Allowed(s) THEN V(s) ELSE NoteRetune(V(s))
  <1>0. /\ Here \in State /\ StillInv(Here) /\ Here.m = m /\ Here.live \in Seq(Entry) /\ trunk \in BOOLEAN
    BY HereTyped, Parts
  <1>1. PICK s : Leaves(W(s)) /\ (s = D \/ s = L)
    BY Zenon DEF Move
  <1>2. e \in Entry
    BY DEF Entry
  <1>3. Append(Here.live, e) \in Seq(Entry)
    BY <1>0, <1>2
  <1> HIDE DEF e
  <1>4. s \in State /\ s.m = m /\ s.a = Here.a
    <2>1. CASE s = D
      BY <1>0, <2>1 DEF State
    <2>2. CASE s = L
      BY <1>0, <1>3, <2>2 DEF State
    <2> QED BY <1>1, <2>1, <2>2
  <1> HIDE DEF D, L
  <1>5. V(s) \in State /\ V(s).m = m /\ V(s).a.tuned = FALSE
    BY <1>4 DEF State, Shared
  <1> HIDE DEF V
  <1>6. /\ moved' = ((return => Allowed(Here)) /\ (m.st # "idle" \/ m.t["armed"] # "off")
                     /\ ~(m.hunt /\ m.st = "tuned" /\ m.xpt))
        /\ events' = events + 1 /\ events < MaxEvents
    BY DEF Move, Event
  <1>7. ASSUME moved'
        PROVE  shared'.tuned = FALSE /\ Firm(Here)'
    <2>1. /\ return => Allowed(Here)
          /\ m.st # "idle" \/ m.t["armed"] # "off"
          /\ ~(m.hunt /\ m.st = "tuned" /\ m.xpt)
      BY <1>6, <1>7
    <2>2. Allowed(s) <=> Allowed(Here)
      BY <1>4 DEF Allowed
    <2>3. W(s) = NoteRetune(V(s))
      BY <2>1, <2>2
    <2>4. StillInv(V(s))
      BY <1>0, <1>5 DEF StillInv
    <2>5. Firm(NoteRetune(V(s))) /\ NoteRetune(V(s)).a.tuned = FALSE
      BY <1>5, <2>1, <2>4, RetuneFirm
    <2>6. m' = NoteRetune(V(s)).m /\ shared' = NoteRetune(V(s)).a
      BY <1>1, <2>3 DEF Leaves
    <2> QED BY <2>5, <2>6 DEF Firm, Here
  <1>8. moved' \in BOOLEAN
    BY <1>6
  <1>9. events' # events
    <2>1. events \in Nat
      BY DEF Kept
    <2> QED BY <1>6, <2>1
  <1>10. events' \in Nat
    BY <1>6 DEF Kept
  <1> QED BY <1>7, <1>8, <1>9, <1>10 DEF Kept, Holds

(* Every step.                                                             *)
LEMMA StepHolds == IInv /\ Kept /\ [Next]_vars => Holds
  <1> SUFFICES ASSUME IInv, Kept, [Next]_vars
               PROVE  Holds
    OBVIOUS
  <1>0. moved \in BOOLEAN /\ events \in Nat /\ rx \in Receiver /\ shared \in Shared
    BY HereTyped, Parts DEF Kept, IInv
  <1>1. CASE Decoding
    <2>1. moved' = FALSE /\ events' = events
      BY <1>1 DEF Decoding, ControlBurst, VoiceBurst, TsccBurst, ConPlusBurst, GrantBurst, StatusBurst, ClearBurst,
                  XptBurst, Decode
    <2> QED BY <1>0, <2>1 DEF Kept, Holds
  <1>2. CASE LoopEnds \/ UNCHANGED vars
    <2>1. UNCHANGED <<m, shared, rx, moved, events>>
      BY <1>2 DEF LoopEnds, vars
    <2> QED BY <2>1 DEF Kept, Holds, Firm, Here
  <1>3. CASE \E admitted \in BOOLEAN : Tick(admitted)
    BY <1>3, TickKept
  <1>4. CASE NoCarrier
    <2>1. shared.tuned /\ moved' = moved /\ events' = events
      BY <1>4 DEF NoCarrier
    <2>2. ~moved
      BY <2>1 DEF Kept
    <2> QED BY <1>0, <2>1, <2>2 DEF Kept, Holds
  <1>5. CASE \E k \in Timers : Pass(k)
    BY <1>5, PassKept
  <1>6. CASE \E ok \in BOOLEAN : Answer(ok)
    BY <1>6, AnswerKept
  <1>7. CASE \E f \in Freqs, return \in BOOLEAN : Move(f, return)
    BY <1>7, MoveHeld
  <1>8. CASE OtherOwner
    <2>1. /\ shared' = [shared EXCEPT !.owner = "other"] /\ UNCHANGED <<m, rx, moved>>
          /\ events' = events + 1
      BY <1>8 DEF OtherOwner, Event
    <2>2. shared'.tuned = shared.tuned /\ shared'.owner = "other"
      BY <1>0, <2>1 DEF Shared
    <2> QED BY <1>0, <2>1, <2>2 DEF Kept, Holds
  <1>9. CASE \E on \in BOOLEAN : SetTrunk(on)
    <2>1. /\ shared' = shared \/ shared' = [shared EXCEPT !.tuned = FALSE]
          /\ UNCHANGED <<m, rx, moved>> /\ events' = events + 1
      BY <1>9 DEF SetTrunk, Event
    <2>2. shared'.owner = shared.owner /\ (shared.tuned = FALSE => shared'.tuned = FALSE)
      BY <1>0, <2>1 DEF Shared
    <2>3. Firm(Here) => Firm(Here)'
      BY <2>1 DEF Firm, Here
    <2> QED BY <1>0, <2>1, <2>2, <2>3 DEF Kept, Holds
  <1>10. CASE Retire
    <2>1. ~trunk /\ UNCHANGED <<m, shared, moved, events>>
      BY <1>10 DEF Retire
    <2>2. Firm(Here) => Firm(Here)'
      BY <2>1 DEF Firm, Here
    <2> QED BY <1>0, <2>1, <2>2 DEF Kept, Holds
  <1> QED BY <1>1, <1>2, <1>3, <1>4, <1>5, <1>6, <1>7, <1>8, <1>9, <1>10 DEF Next, Operator

(* Where the operator moved the receiver it stays for a full listening     *)
(* period, whatever tunes were on their way and however late they are      *)
(* answered, and whatever the ledger needs to be settled.                  *)
THEOREM MoveIsKept == Spec => MoveKept
  <1>1. Init => IInv /\ Kept
    <2>1. Init => moved = FALSE /\ events = 0
      BY DEF Init
    <2>2. Init => moved \in BOOLEAN
      BY <2>1, Zenon
    <2>3. Init => events \in Nat
      BY <2>1
    <2>4. Init => Kept
      BY <2>1, <2>2, <2>3, Zenon DEF Kept
    <2> QED BY <2>4, InitRight
  <1>2. IInv /\ Kept /\ [Next]_vars => IInv' /\ Kept'
    BY StepRight, StepHolds DEF Holds
  <1>3. IInv /\ Kept /\ [Next]_vars => [moved /\ moved' /\ trunk /\ events' = events => rx'.center = rx.center]_vars
    BY StepHolds DEF Holds
  <1> QED BY <1>1, <1>2, <1>3, PTL DEF Spec, MoveKept
=============================================================================
