----------------------------- MODULE ApiProofs -----------------------------
(***************************************************************************)
(* What the clients of the API and the user interfaces are shown, for      *)
(* every value of the constants: the API server, the event feed, then the  *)
(* snapshots.  The three share no state, and each has an inductive         *)
(* invariant of its own.                                                   *)
(*                                                                         *)
(* The server, for every finite set of sessions, outbox, history, chunk,   *)
(* limit on clients and number of connections, requests, results, lines    *)
(* and starts: StreamsRight is an invariant.  Every line a session is owed *)
(* is followed on its way (outbox, batch being sent, received), so that    *)
(* the way is the beginning of what is owed, and all of it until the       *)
(* session is dropped; a session that says it is drained owes nothing.     *)
(* The results in the pump's hands are the ones after its position without *)
(* a hole, unless the history let go of some, and then the gap line covers *)
(* exactly those; the stop's last emission holds the newest result that    *)
(* was complete when the stop began, or a full chunk, after which it reads *)
(* again.                                                                  *)
(*                                                                         *)
(* The event feed for every depth of the ring, set of clients, set of      *)
(* contents and number of pushes, revisions and rings: FeedRight is an     *)
(* invariant.                                                              *)
(*                                                                         *)
(* A publication is two steps of the feed's thread, and the ring, the      *)
(* clients and the feed's own start and stop go on between them.  What is  *)
(* inductive is the feed's memory (eh) rather than the ring: a client      *)
(* knows every row the feed remembers, except the ones whose lines are on  *)
(* their way to it.                                                        *)
(*                                                                         *)
(* The copies of UiSnapshot are right for every host: any channels, maps,  *)
(* scan targets, history slots and ring addresses, and any number of       *)
(* changes, publications and sessions.                                     *)
(***************************************************************************)
EXTENDS ApiServer, EventFeed, UiSnapshot,
        FiniteSetTheorems, SequenceTheorems, WellFoundedInduction, TLAPS

(* The API server.                                                         *)

(* What a line, and a session with its histories, is made of.              *)
Lines == [type : {"reply", "event", "gap", "result"}, seq : Nat, missed : Nat]
Running == {"top", "work", "reply", "linger", "retire", "finish", "ended"}
Session ==
    [pc : {"free", "new"} \cup Running, linked : BOOLEAN, auth : BOOLEAN, topics : SUBSET Topics,
     closing : {OPEN, AFTER_FLUSH, NOW}, outbox : Seq(Lines), sending : Seq(Lines), drained : BOOLEAN,
     got : Seq(Lines), owed : Seq(Lines), cut : BOOLEAN, since : Nat]

(* What is counted towards the bounds.                                     *)
Counts == [conns : Nat, requests : Nat, events : Nat, starts : Nat]

(* p is the beginning of q.                                                *)
Begins(p, q) == Len(p) <= Len(q) /\ \A i \in 1 .. Len(p) : q[i] = p[i]

(* What was received and what is on its way.                               *)
Way(x) == (x.got \o x.sending) \o x.outbox

(* What was sent and is on its way is the beginning of what is owed, and   *)
(* all of it until the session is dropped.                                 *)
Whole(x) == Begins(Way(x), x.owed) /\ (x.closing # NOW => Len(Way(x)) = Len(x.owed))

(* A session that says it is drained, and was not dropped, owes nothing.   *)
Settled(x) ==
    x.drained /\ x.closing # NOW => x.closing = AFTER_FLUSH /\ x.pc \in {"linger", "retire", "finish", "ended"}
                                    /\ x.got = x.owed

(* Where a session may be, and what it may have there.                     *)
Placed(x) ==
    /\ x.pc = "free" => x = NoSession
    /\ x.pc \in Running => x.linked
    /\ x.pc \in {"finish", "ended"} => ~x.auth /\ x.closing = NOW
    /\ x.topics # {} => x.auth /\ x.linked

Fits(x) == Len(x.outbox) <= OutboxCap /\ Len(x.sending) <= OutboxCap

SessionInv(x) == x \in Session /\ Fits(x) /\ Placed(x) /\ Whole(x) /\ Settled(x)

(* Which sessions there are, and the one the accept thread makes.          *)
AcceptInv ==
    /\ accept \in [at : {"loop", "link", "spawn", "failed", "exited"}, made : SUBSET Sessions]
    /\ accept.at \in {"loop", "exited"} => accept.made = {}
    /\ accept.at \in {"link", "spawn", "failed"} => \E s \in Sessions : accept.made = {s}
    /\ \A s \in Sessions : ses[s].pc = "new" <=> s \in accept.made
    /\ \A s \in accept.made :
          /\ ses[s].linked <=> accept.at # "link"
          /\ accept.at = "failed" => ~ses[s].auth
    /\ Cardinality(Linked) <= MaxClients
    /\ accept.at = "link" => Cardinality(Linked) < MaxClients
    /\ phase \in {"reap", "gone"} => accept.at = "exited"

Listeners(t) == {s \in Sessions : t \in ses[s].topics}
Known == {s \in Sessions : ses[s].auth}

CountInv ==
    /\ interest \in [Topics -> 0 .. Cardinality(Sessions)] /\ authed \in 0 .. Cardinality(Sessions)
    /\ phase # "gone" =>
          /\ \A t \in Topics : interest[t] = Cardinality(Listeners(t))
          /\ authed = Cardinality(Known)
    /\ phase = "gone" => \A s \in Sessions : ses[s] = NoSession

(* The results in the pump's hands are the ones after the last it dealt    *)
(* with, in order.                                                         *)
PumpInv ==
    /\ results \in Seq(BOOLEAN)
    /\ pump \in [at : {"none", "sleep", "fetch", "look", "gap", "send", "joined"}, last : Nat, batch : Seq(Nat),
                 full : BOOLEAN]
    /\ pump.last <= Newest
    /\ \A i \in 1 .. Len(pump.batch) : pump.batch[i] = pump.batch[1] + (i - 1) /\ pump.batch[i] <= Newest
    /\ pump.at \in {"none", "sleep", "fetch", "joined"} <=> Len(pump.batch) = 0
    /\ pump.at = "look" => pump.batch[1] > pump.last
    /\ pump.at = "gap" => pump.batch[1] > pump.last + 1
    /\ pump.at = "send" => pump.last > 0 /\ pump.batch[1] = pump.last /\ results[pump.last]

Phases == {"up", "join", "emit", "drain", "mark", "wait", "stop", "reap", "gone"}

(* The stop reads until it has read what was complete when it began.       *)
StopInv ==
    /\ phase \in Phases /\ stopSeq \in 0 .. Newest
    /\ pump.at = "none" => phase \in {"up", "join"}
    /\ pump.at = "joined" => phase = "join"
    /\ phase \in {"drain", "mark", "wait", "stop", "reap", "gone"} => pump.at = "sleep"
    /\ phase = "emit" =>
          /\ pump.at = "sleep" => pump.last >= stopSeq
          /\ Len(pump.batch) > 0 /\ ~pump.full => pump.batch[Len(pump.batch)] >= stopSeq
    /\ phase \in {"drain", "mark", "wait", "stop"} => pump.last >= stopSeq

(* What a session was told of the results.                                 *)
Told(x) ==
    /\ "result" \in x.topics /\ x.closing = OPEN =>
          \A n \in x.since + 1 .. pump.last :
             ~results[n] \/ Accounted(x.owed, n) \/ (pump.at = "send" /\ n = pump.last)
    /\ \A k \in 1 .. Len(x.owed) :
          x.owed[k].type = "result" => x.owed[k].seq \in 1 .. Newest /\ results[x.owed[k].seq]

(* The sessions the drain waits for.                                       *)
DrainInv ==
    /\ marked \subseteq Linked
    /\ phase \in {"stop", "reap"} /\ ~late => \A s \in marked : ses[s].drained

ApiInv ==
    /\ server \in Deployments /\ ses \in [Sessions -> Session] /\ refused \in 0 .. RefusedMax
    /\ used \in Counts
    /\ \A s \in Sessions : SessionInv(ses[s]) /\ Told(ses[s])
    /\ AcceptInv /\ CountInv /\ PumpInv /\ StopInv /\ DrainInv

-----------------------------------------------------------------------------
(* What the assumption says of the server's constants.                     *)
LEMMA ApiConstants ==
    ASSUME server \in Deployments
    PROVE  /\ IsFiniteSet(Sessions)
           /\ OutboxCap \in Nat \ {0} /\ HistoryLen \in Nat \ {0} /\ Chunk \in Nat \ {0}
           /\ MaxClients \in Nat /\ RefusedMax \in Nat /\ Token \in BOOLEAN
  BY ApiAssumption DEF OutboxCap, HistoryLen, Chunk, MaxClients, RefusedMax, Token

(* What a session is made of.                                              *)
LEMMA SessionParts ==
    ASSUME NEW x \in Session
    PROVE  /\ x.pc \in {"free", "new"} \cup Running /\ x.linked \in BOOLEAN /\ x.auth \in BOOLEAN
           /\ x.topics \subseteq Topics /\ x.closing \in {0, 1, 2} /\ x.outbox \in Seq(Lines)
           /\ x.sending \in Seq(Lines) /\ x.drained \in BOOLEAN /\ x.got \in Seq(Lines) /\ x.owed \in Seq(Lines)
           /\ x.cut \in BOOLEAN /\ x.since \in Nat
  BY DEF Session, OPEN, AFTER_FLUSH, NOW

(* The beginning of a sequence in the words of the library.                *)
LEMMA BeginsIsPrefix ==
    ASSUME NEW S, NEW p \in Seq(S), NEW q \in Seq(S), Begins(p, q)
    PROVE  IsPrefix(p, q)
  <1>1. SubSeq(p, 1, Len(p)) = p
    OBVIOUS
  <1>2. SubSeq(q, 1, Len(p)) \in Seq(S) /\ Len(SubSeq(q, 1, Len(p))) = Len(p)
    BY DEF Begins
  <1>3. \A i \in 1 .. Len(p) : SubSeq(q, 1, Len(p))[i] = p[i]
    BY DEF Begins
  <1>4. SubSeq(q, 1, Len(p)) = p
    BY <1>2, <1>3, SeqEqual
  <1> QED BY <1>1, <1>4 DEF Begins, IsPrefix

(* A concatenation begins with its first part.                             *)
LEMMA ConcatBegins ==
    ASSUME NEW S, NEW a \in Seq(S), NEW b \in Seq(S), NEW c \in Seq(S)
    PROVE  /\ (a \o b) \o c \in Seq(S) /\ Len(a) <= Len((a \o b) \o c)
           /\ \A i \in 1 .. Len(a) : ((a \o b) \o c)[i] = a[i]
  <1>1. a \o b \in Seq(S) /\ Len(a \o b) = Len(a) + Len(b) /\ \A i \in 1 .. Len(a) : (a \o b)[i] = a[i]
    OBVIOUS
  <1> DEFINE d == a \o b
  <1> HIDE DEF d
  <1>2. d \in Seq(S) /\ Len(d) = Len(a) + Len(b) /\ \A i \in 1 .. Len(a) : d[i] = a[i]
    BY <1>1 DEF d
  <1>3. d \o c \in Seq(S) /\ Len(d \o c) = Len(d) + Len(c) /\ \A i \in 1 .. Len(d) : (d \o c)[i] = d[i]
    <2>1. d \in Seq(S)
      BY <1>2
    <2> QED BY <2>1
  <1>4. Len(a) \in Nat /\ Len(b) \in Nat /\ Len(c) \in Nat
    OBVIOUS
  <1> DEFINE e == d \o c
  <1> HIDE DEF e
  <1>5. e \in Seq(S) /\ Len(e) = (Len(a) + Len(b)) + Len(c) /\ \A i \in 1 .. Len(a) + Len(b) : e[i] = d[i]
    BY <1>2, <1>3 DEF e
  <1>6. e \in Seq(S) /\ Len(a) <= Len(e) /\ \A i \in 1 .. Len(a) : e[i] = a[i]
    BY <1>2, <1>4, <1>5
  <1> QED BY <1>6 DEF d, e

(* A free address.                                                         *)
LEMMA NoSessionOK ==
    ASSUME server \in Deployments
    PROVE  SessionInv(NoSession) /\ Told(NoSession)
  <1>1. NoSession \in Session
    BY DEF NoSession, Session, OPEN, AFTER_FLUSH, NOW, Running
  <1>2. Fits(NoSession) /\ Placed(NoSession) /\ Settled(NoSession)
    BY ApiConstants DEF NoSession, Fits, Placed, Settled, Running
  <1>3. Whole(NoSession)
    BY DEF NoSession, Whole, Way, Begins
  <1>4. Told(NoSession)
    BY DEF NoSession, Told
  <1> QED BY <1>1, <1>2, <1>3, <1>4 DEF SessionInv

(* session_queue_locked() leaves a session in order.                       *)
LEMMA QueueEffect ==
    ASSUME NEW x \in Session, NEW line \in Lines
    PROVE  LET y == Queue(x, line)
           IN  /\ y \in Session /\ y.pc = x.pc /\ y.linked = x.linked /\ y.auth = x.auth /\ y.topics = x.topics
               /\ y.drained = x.drained /\ y.cut = x.cut /\ y.since = x.since
               /\ x.closing = NOW => y = x
               /\ x.closing # NOW => y.owed = Append(x.owed, line) /\ y.closing \in {x.closing, NOW}
  <1> DEFINE y == Queue(x, line)
             a == [x EXCEPT !.closing = NOW, !.owed = Append(x.owed, line)]
             b == [x EXCEPT !.outbox = Append(x.outbox, line), !.owed = Append(x.owed, line)]
  <1>1. x.owed \in Seq(Lines) /\ x.outbox \in Seq(Lines)
    BY DEF Session
  <1>2. Append(x.owed, line) \in Seq(Lines) /\ Append(x.outbox, line) \in Seq(Lines)
    BY <1>1
  <1>3. a \in Session /\ a.pc = x.pc /\ a.linked = x.linked /\ a.auth = x.auth /\ a.topics = x.topics
        /\ a.drained = x.drained /\ a.cut = x.cut /\ a.since = x.since /\ a.owed = Append(x.owed, line) /\ a.closing = NOW
    BY <1>2 DEF Session
  <1>4. b \in Session /\ b.pc = x.pc /\ b.linked = x.linked /\ b.auth = x.auth /\ b.topics = x.topics
        /\ b.drained = x.drained /\ b.cut = x.cut /\ b.since = x.since /\ b.owed = Append(x.owed, line)
        /\ b.closing = x.closing
    BY <1>2 DEF Session
  <1>5. (x.closing = NOW /\ y = x) \/ (x.closing # NOW /\ (y = a \/ y = b))
    BY DEF Queue
  <1> HIDE DEF a, b, y
  <1>6. /\ y \in Session /\ y.pc = x.pc /\ y.linked = x.linked /\ y.auth = x.auth /\ y.topics = x.topics
        /\ y.drained = x.drained /\ y.cut = x.cut /\ y.since = x.since
        /\ x.closing = NOW => y = x
        /\ x.closing # NOW => y.owed = Append(x.owed, line) /\ y.closing \in {x.closing, NOW}
    BY <1>3, <1>4, <1>5
  <1> QED BY <1>6 DEF y

(* api_session_queue() on a session that is not free keeps what is known   *)
(* of it, whether it queues, overflows or drops the line.                  *)
LEMMA QueueKeeps ==
    ASSUME server \in Deployments, NEW x, SessionInv(x), NEW line \in Lines, x.pc # "free",
           x.closing = NOW \/ ~x.drained
    PROVE  SessionInv(Queue(x, line))
  <1> DEFINE y == Queue(x, line)
  <1>0. x \in Session /\ OutboxCap \in Nat
    BY ApiConstants DEF SessionInv
  <1>1. CASE x.closing = NOW
    BY <1>0, <1>1, QueueEffect
  <1>2. CASE x.closing # NOW /\ Len(x.outbox) + 1 > OutboxCap
    <2>1. y = [x EXCEPT !.closing = NOW, !.owed = Append(@, line)]
      BY <1>2 DEF Queue
    <2>2. y \in Session
      BY <1>0, QueueEffect
    <2>3. Way(y) = Way(x) /\ y.closing = NOW /\ y.owed = Append(x.owed, line)
      BY <2>1, <1>0 DEF Way, Session
    <2>4. Whole(y)
      <3>1. Len(Way(x)) \in Nat /\ x.owed \in Seq(Lines)
        BY <1>0 DEF Way, Session
      <3>2. Begins(Way(x), x.owed)
        BY DEF SessionInv, Whole
      <3>3. Len(Append(x.owed, line)) = Len(x.owed) + 1 /\ \A i \in 1 .. Len(x.owed) : Append(x.owed, line)[i] = x.owed[i]
        BY <3>1
      <3> HIDE DEF y
      <3> QED BY <2>3, <3>1, <3>2, <3>3 DEF Whole, Begins
    <2>5. Fits(y) /\ Placed(y) /\ Settled(y)
      BY <2>1, <1>0 DEF SessionInv, Fits, Placed, Settled, NoSession, Session
    <2> QED BY <2>2, <2>4, <2>5 DEF SessionInv
  <1>3. CASE x.closing # NOW /\ ~(Len(x.outbox) + 1 > OutboxCap)
    <2>1. y = [x EXCEPT !.outbox = Append(@, line), !.owed = Append(@, line)]
      BY <1>3 DEF Queue
    <2>2. y \in Session
      BY <1>0, QueueEffect
    <2>3. y.got = x.got /\ y.sending = x.sending /\ y.outbox = Append(x.outbox, line) /\ y.owed = Append(x.owed, line)
          /\ y.closing = x.closing
      BY <2>1, <1>0 DEF Session
    <2>4. Whole(y)
      <3> DEFINE g == x.got \o x.sending
      <3>1. g \in Seq(Lines) /\ x.outbox \in Seq(Lines) /\ x.owed \in Seq(Lines)
        BY <1>0 DEF Session
      <3>2. Way(x) = g \o x.outbox /\ Way(y) = g \o Append(x.outbox, line)
        BY <2>3 DEF Way
      <3> HIDE DEF g, y
      <3>3. Way(y) = Append(Way(x), line) /\ Way(x) \in Seq(Lines)
        BY <3>1, <3>2
      <3>4. Begins(Way(x), x.owed) /\ Len(Way(x)) = Len(x.owed)
        BY <1>3 DEF SessionInv, Whole
      <3>5. Begins(Append(Way(x), line), Append(x.owed, line))
        BY <3>1, <3>3, <3>4 DEF Begins
      <3>6. Len(Append(Way(x), line)) = Len(Append(x.owed, line))
        BY <3>1, <3>3, <3>4
      <3> QED BY <2>3, <3>3, <3>5, <3>6 DEF Whole
    <2>5. Fits(y) /\ Placed(y) /\ Settled(y)
      BY <2>1, <1>0, <1>3 DEF SessionInv, Fits, Placed, Settled, NoSession, Session
    <2> QED BY <2>2, <2>4, <2>5 DEF SessionInv
  <1> QED BY <1>1, <1>2, <1>3

(* What was accounted for stays so when lines are added.                   *)
LEMMA AccountedStays ==
    ASSUME NEW o \in Seq(Lines), NEW line, NEW n, Accounted(o, n)
    PROVE  Accounted(Append(o, line), n)
  <1>1. PICK k \in DOMAIN o :
           \/ o[k].type = "result" /\ o[k].seq = n
           \/ o[k].type = "gap" /\ n \in o[k].seq - o[k].missed .. o[k].seq - 1
    BY DEF Accounted
  <1>2. k \in DOMAIN Append(o, line) /\ Append(o, line)[k] = o[k]
    OBVIOUS
  <1> QED BY <1>1, <1>2 DEF Accounted

(* What a session was told of the results, when a line of another kind is  *)
(* queued for it.                                                          *)
LEMMA QueueTells ==
    ASSUME NEW x \in Session, Told(x), NEW line \in Lines, line.type # "result"
    PROVE  Told(Queue(x, line))
  <1> DEFINE y == Queue(x, line)
  <1>1. y.topics = x.topics /\ y.since = x.since /\ (y.closing = OPEN => x.closing = OPEN)
        /\ (y.owed = x.owed \/ y.owed = Append(x.owed, line))
    BY QueueEffect DEF OPEN, NOW
  <1>2. x.owed \in Seq(Lines)
    BY DEF Session
  <1> HIDE DEF y
  <1>3. \A n : Accounted(x.owed, n) => Accounted(y.owed, n)
    BY <1>1, <1>2, AccountedStays
  <1>4. \A k \in 1 .. Len(y.owed) : y.owed[k].type = "result" => k \in 1 .. Len(x.owed) /\ y.owed[k] = x.owed[k]
    <2>1. Len(Append(x.owed, line)) = Len(x.owed) + 1 /\ Append(x.owed, line)[Len(x.owed) + 1] = line
          /\ \A k \in 1 .. Len(x.owed) : Append(x.owed, line)[k] = x.owed[k]
      BY <1>2
    <2>2. Len(x.owed) \in Nat
      BY <1>2
    <2> QED BY <1>1, <2>1, <2>2
  <1>5. Told(y)
    BY <1>1, <1>3, <1>4 DEF Told
  <1> QED BY <1>5 DEF y

(* A session of which neither the lines nor the subscription changes.      *)
LEMMA SameTold ==
    ASSUME NEW x, NEW y, Told(x), y.owed = x.owed, y.since = x.since,
           "result" \in y.topics /\ y.closing = OPEN => "result" \in x.topics /\ x.closing = OPEN
    PROVE  Told(y)
  BY DEF Told

(* Each session in order, in the next state.                               *)
LEMMA NextSessions ==
    ASSUME server' = server, \A s \in Sessions : SessionInv(ses'[s])
    PROVE  (\A s \in Sessions : SessionInv(ses[s]))'
  BY DEF SessionInv, Session, Fits, Topics, OutboxCap, Placed, Whole, Settled

(* With the history and the pump left alone, what a session was told is    *)
(* judged on the session alone.                                            *)
LEMMA NextTold ==
    ASSUME pump' = pump, results' = results, \A s \in Sessions : Told(ses'[s])
    PROVE  (\A s \in Sessions : Told(ses[s]))'
  BY DEF Told, Newest, Accounted

(* The accept thread and the drain see of a session whether it is being    *)
(* made, is linked, is authorised and is drained.                          *)
LEMMA AcceptAndDrain ==
    ASSUME AcceptInv, DrainInv, ses' \in [Sessions -> Session], server' = server, accept' = accept,
           phase' = phase, late' = late, marked' = marked,
           \A s \in Sessions :
              /\ ses'[s].pc = "new" <=> ses[s].pc = "new"
              /\ ses'[s].linked <=> ses[s].linked
              /\ ses[s].drained => ses'[s].drained
              /\ ses[s].pc = "new" => (ses'[s].auth <=> ses[s].auth)
    PROVE  AcceptInv' /\ DrainInv' /\ Linked' = Linked
  <1>1. Linked' = Linked
    BY DEF Linked
  <1>2. DrainInv'
    BY <1>1 DEF DrainInv, Linked
  <1>3. AcceptInv'
    BY <1>1 DEF AcceptInv, MaxClients
  <1> QED BY <1>1, <1>2, <1>3

(* The counters see who is authorised and who subscribed.                  *)
LEMMA CountsStay ==
    ASSUME CountInv, phase # "gone", server' = server, phase' = phase, interest' = interest, authed' = authed,
           \A s \in Sessions : ses'[s].topics = ses[s].topics /\ (ses'[s].auth <=> ses[s].auth)
    PROVE  CountInv'
  <1>1. Known' = Known
    BY DEF Known
  <1>2. \A t : Listeners(t)' = Listeners(t)
    BY DEF Listeners
  <1> QED BY <1>1, <1>2 DEF CountInv, Topics

(* The pump and the stop, when neither steps.                              *)
LEMMA PumpAndStop ==
    ASSUME PumpInv, StopInv, pump' = pump, results' = results, phase' = phase, stopSeq' = stopSeq
    PROVE  PumpInv' /\ StopInv'
  BY DEF PumpInv, StopInv, Newest, Phases

(* A step in which a session's thread leaves its session as y.             *)
LEMMA OneSession ==
    ASSUME ApiInv, NEW s \in Sessions, NEW y, SessionInv(y), Told(y), ses' = [ses EXCEPT ![s] = y],
           server' = server, accept' = accept, phase' = phase, late' = late, marked' = marked, refused' = refused,
           pump' = pump, results' = results, stopSeq' = stopSeq,
           used' \in Counts,
           ses[s].pc # "new", y.pc # "new", y.linked <=> ses[s].linked, ses[s].drained => y.drained,
           CountInv'
    PROVE  ApiInv'
  <1>1. ses \in [Sessions -> Session] /\ ses[s] \in Session /\ y \in Session
    BY DEF ApiInv, SessionInv
  <1>2. ses'[s] = y /\ \A t \in Sessions \ {s} : ses'[t] = ses[t]
    BY <1>1
  <1>3. ses' \in [Sessions -> Session]
    BY <1>1
  <1>4. (ses \in [Sessions -> Session])'
    BY <1>3 DEF Session, Topics
  <1>5. (\A t \in Sessions : SessionInv(ses[t]))'
    BY <1>2, NextSessions DEF ApiInv
  <1>6. (\A t \in Sessions : Told(ses[t]))'
    BY <1>2, NextTold DEF ApiInv
  <1>7. AcceptInv' /\ DrainInv'
    BY <1>1, <1>2, <1>3, AcceptAndDrain DEF ApiInv
  <1>8. PumpInv' /\ StopInv'
    BY PumpAndStop DEF ApiInv
  <1>9. (refused \in 0 .. RefusedMax)' /\ (server \in Deployments)'
    BY DEF ApiInv, RefusedMax
  <1> QED BY <1>4, <1>5, <1>6, <1>7, <1>8, <1>9 DEF ApiInv

-----------------------------------------------------------------------------
(* A session's thread.                                                     *)

(* A session that a thread runs.                                           *)
LEMMA LiveSession ==
    ASSUME ApiInv, NEW s \in Sessions, ses[s].pc \in Running
    PROVE  /\ phase # "gone" /\ ses[s] \in Session /\ SessionInv(ses[s]) /\ Told(ses[s]) /\ ses[s].linked
           /\ ses[s].pc # "new" /\ ses[s].pc # "free"
           /\ server \in Deployments /\ used \in Counts
  <1>1. SessionInv(ses[s]) /\ Told(ses[s]) /\ CountInv
    BY DEF ApiInv
  <1>2. phase # "gone"
    BY <1>1 DEF CountInv, NoSession, Running
  <1> QED BY <1>1, <1>2 DEF SessionInv, Placed, Running, ApiInv

(* A thread that moves to another place, noting a cut stream or not.       *)
Moved(x, y, q) ==
    /\ y \in Session /\ y.pc = q /\ y.linked = x.linked /\ y.auth = x.auth /\ y.topics = x.topics
    /\ y.closing = x.closing /\ y.outbox = x.outbox /\ y.sending = x.sending /\ y.drained = x.drained
    /\ y.got = x.got /\ y.owed = x.owed /\ y.since = x.since

(* A session that only moves on, its socket cut or not, keeps every other  *)
(* field.                                                                  *)
LEMMA MoveEffect ==
    ASSUME NEW x \in Session, NEW q \in Running
    PROVE  Moved(x, [x EXCEPT !.pc = q], q) /\ Moved(x, [x EXCEPT !.pc = q, !.cut = TRUE], q)
  <1>1. Moved(x, [x EXCEPT !.pc = q], q)
    BY DEF Moved, Session
  <1>2. Moved(x, [x EXCEPT !.pc = q, !.cut = TRUE], q)
    BY DEF Moved, Session
  <1> QED BY <1>1, <1>2

(* Moving within the session loop, to the lingering or to the retirement   *)
(* keeps what is known of the session.                                     *)
LEMMA MovesOn ==
    ASSUME NEW x, SessionInv(x), Told(x), x.pc \in {"top", "work", "reply", "linger"},
           NEW q \in {"top", "work", "linger", "retire"},
           q \in {"top", "work"} => x.pc # "linger",
           NEW y, Moved(x, y, q)
    PROVE  SessionInv(y) /\ Told(y) /\ y.pc = q /\ (y.linked <=> x.linked) /\ (x.drained <=> y.drained)
           /\ (y.auth <=> x.auth) /\ y.topics = x.topics
  <1>1. x \in Session
    BY DEF SessionInv
  <1>2. y \in Session /\ y.pc = q /\ y.linked = x.linked /\ y.auth = x.auth /\ y.topics = x.topics
        /\ y.closing = x.closing /\ y.outbox = x.outbox /\ y.sending = x.sending /\ y.drained = x.drained
        /\ y.got = x.got /\ y.owed = x.owed /\ y.since = x.since
    BY DEF Moved
  <1>3. Fits(y) /\ Whole(y)
    BY <1>2 DEF SessionInv, Fits, Whole, Way
  <1>4. Placed(y)
    BY <1>2 DEF SessionInv, Placed, Running
  <1>5. Settled(y)
    BY <1>2 DEF SessionInv, Settled
  <1>6. Told(y)
    BY <1>2, SameTold
  <1> QED BY <1>2, <1>3, <1>4, <1>5, <1>6 DEF SessionInv

(* The step of a thread that leaves the counters alone.                    *)
LEMMA OneSessionUncounted ==
    ASSUME ApiInv, NEW s \in Sessions, ses[s].pc \in Running, NEW y, SessionInv(y), Told(y),
           ses' = [ses EXCEPT ![s] = y],
           server' = server, accept' = accept, phase' = phase, late' = late, marked' = marked, refused' = refused,
           pump' = pump, results' = results, stopSeq' = stopSeq, interest' = interest, authed' = authed,
           used' \in Counts,
           y.pc # "new", y.linked <=> ses[s].linked, ses[s].drained => y.drained,
           y.auth <=> ses[s].auth, y.topics = ses[s].topics
    PROVE  ApiInv'
  <1>1. CountInv'
    <2>1. CountInv /\ phase # "gone"
      BY LiveSession DEF ApiInv
    <2>2. ses \in [Sessions -> Session]
      BY DEF ApiInv
    <2>3. \A t \in Sessions : ses'[t].topics = ses[t].topics /\ (ses'[t].auth <=> ses[t].auth)
      BY <2>2
    <2> QED BY <2>1, <2>3, CountsStay
  <1>2. ses[s].pc # "new"
    BY LiveSession
  <1> QED BY <1>1, <1>2, OneSession

(* The top of the session loop: stopped, dropped, drained, timed out, or   *)
(* on to its work.                                                         *)
LEMMA TopKeeps ==
    ASSUME ApiInv, NEW s \in Sessions, Top(s)
    PROVE  ApiInv'
  <1> DEFINE x == ses[s]
  <1>1. x.pc = "top" /\ x.pc \in Running
    BY DEF Top, Running
  <1>2. x \in Session /\ SessionInv(x) /\ Told(x) /\ used \in Counts
    BY <1>1, LiveSession
  <1>3. UNCHANGED <<server, interest, authed, refused, accept, results, pump, phase, draining, late, stopSeq, marked, used>>
    BY DEF Top
  <1>4. CASE \E q \in {"retire", "work"} :
               \/ ses' = [ses EXCEPT ![s] = [x EXCEPT !.pc = q]]
               \/ ses' = [ses EXCEPT ![s] = [x EXCEPT !.pc = q, !.cut = TRUE]]
    <2>1. PICK q \in {"retire", "work"} :
               \/ ses' = [ses EXCEPT ![s] = [x EXCEPT !.pc = q]]
               \/ ses' = [ses EXCEPT ![s] = [x EXCEPT !.pc = q, !.cut = TRUE]]
      BY <1>4
    <2>2. PICK y : Moved(x, y, q) /\ ses' = [ses EXCEPT ![s] = y]
      <3>1. q \in Running
        BY DEF Running
      <3> HIDE DEF x
      <3> QED BY <1>2, <2>1, <3>1, MoveEffect
    <2>3. SessionInv(y) /\ Told(y) /\ y.pc = q /\ (y.linked <=> x.linked) /\ (x.drained <=> y.drained)
           /\ (y.auth <=> x.auth) /\ y.topics = x.topics
      <3>1. x.pc \in {"top", "work", "reply", "linger"} /\ x.pc # "linger" /\ q \in {"top", "work", "linger", "retire"}
        BY <1>1
      <3> HIDE DEF x
      <3> QED BY <1>2, <2>2, <3>1, MovesOn
    <2> QED BY <1>1, <1>2, <1>3, <2>2, <2>3, OneSessionUncounted
  <1>5. CASE /\ x.closing = AFTER_FLUSH /\ ~HasOutput(x)
             /\ ses' = [ses EXCEPT ![s].pc = "linger", ![s].drained = TRUE]
    <2> DEFINE y == [x EXCEPT !.pc = "linger", !.drained = TRUE]
    <2>1. ses' = [ses EXCEPT ![s] = y]
      BY <1>5, <1>2
    <2>2. y \in Session /\ y.pc = "linger" /\ y.linked = x.linked /\ y.auth = x.auth /\ y.topics = x.topics
          /\ y.closing = x.closing /\ y.outbox = x.outbox /\ y.sending = x.sending /\ y.drained = TRUE
          /\ y.got = x.got /\ y.owed = x.owed /\ y.since = x.since
      BY <1>2 DEF Session, Running
    <2>3. x.got = x.owed
      <3>1. x.got \in Seq(Lines) /\ x.owed \in Seq(Lines) /\ x.sending = <<>> /\ x.outbox = <<>>
        BY <1>2, <1>5 DEF Session, HasOutput
      <3>2. Way(x) = x.got
        BY <3>1 DEF Way
      <3>3. Len(x.got) = Len(x.owed) /\ \A i \in 1 .. Len(x.got) : x.owed[i] = x.got[i]
        BY <1>2, <1>5, <3>2 DEF SessionInv, Whole, Begins, AFTER_FLUSH, NOW
      <3> QED BY <3>1, <3>3, SeqEqual
    <2> HIDE DEF y
    <2>4. SessionInv(y)
      <3>1. Fits(y) /\ Whole(y)
        BY <1>2, <2>2 DEF SessionInv, Fits, Whole, Way
      <3>2. Placed(y)
        BY <1>1, <1>2, <2>2 DEF SessionInv, Placed, Running
      <3>3. Settled(y)
        BY <1>5, <2>2, <2>3 DEF Settled
      <3> QED BY <2>2, <3>1, <3>2, <3>3 DEF SessionInv
    <2>5. Told(y)
      BY <1>2, <2>2, SameTold
    <2> QED BY <1>1, <1>2, <1>3, <2>1, <2>2, <2>4, <2>5, OneSessionUncounted
  <1>6. \/ ses' = [ses EXCEPT ![s] = [x EXCEPT !.pc = "retire"]]
        \/ ses' = [ses EXCEPT ![s] = [x EXCEPT !.pc = "retire", !.cut = TRUE]]
        \/ ses' = [ses EXCEPT ![s] = [x EXCEPT !.pc = "work"]]
        \/ /\ x.closing = AFTER_FLUSH /\ ~HasOutput(x)
           /\ ses' = [ses EXCEPT ![s].pc = "linger", ![s].drained = TRUE]
    BY <1>2 DEF Top
  <1> QED BY <1>4, <1>5, <1>6

(* A reply is a line a session may queue.                                  *)
LEMMA ReplyIsLine == Reply \in Lines /\ Reply.type = "reply"
  BY DEF Reply, Line, Lines

(* Queueing a reply.                                                       *)
LEMMA ReplyQueued ==
    ASSUME server \in Deployments, NEW x, SessionInv(x), Told(x), x.pc \in {"work", "reply"}
    PROVE  LET y == Queue(x, Reply)
           IN  /\ SessionInv(y) /\ Told(y) /\ y.pc = x.pc /\ (y.linked <=> x.linked) /\ (x.drained <=> y.drained)
               /\ (y.auth <=> x.auth) /\ y.topics = x.topics
  <1>1. x \in Session /\ (x.closing = NOW \/ ~x.drained) /\ x.pc # "free"
    BY DEF SessionInv, Settled
  <1>2. SessionInv(Queue(x, Reply))
    BY <1>1, ReplyIsLine, QueueKeeps
  <1>3. Told(Queue(x, Reply))
    BY <1>1, ReplyIsLine, QueueTells
  <1> QED BY <1>1, <1>2, <1>3, ReplyIsLine, QueueEffect

(* A session asked to close.                                               *)
LEMMA ClosedKeeps ==
    ASSUME NEW x, SessionInv(x), Told(x), x.pc # "free"
    PROVE  LET y == Closed(x, AFTER_FLUSH)
           IN  /\ SessionInv(y) /\ Told(y) /\ y.pc = x.pc /\ (y.linked <=> x.linked) /\ (x.drained <=> y.drained)
               /\ (y.auth <=> x.auth) /\ y.topics = x.topics
  <1> DEFINE y == Closed(x, AFTER_FLUSH)
  <1>1. x \in Session
    BY DEF SessionInv
  <1>2. x.closing \in {0, 1, 2}
    BY <1>1 DEF Session, OPEN, AFTER_FLUSH, NOW
  <1>3. y \in Session /\ y.pc = x.pc /\ y.linked = x.linked /\ y.auth = x.auth /\ y.topics = x.topics
        /\ y.outbox = x.outbox /\ y.sending = x.sending /\ y.drained = x.drained
        /\ y.got = x.got /\ y.owed = x.owed /\ y.since = x.since
        /\ y.closing = IF x.closing = 2 THEN 2 ELSE 1
    <2> DEFINE c == IF x.closing = 2 THEN 2 ELSE 1
    <2>1. y = [x EXCEPT !.closing = c]
      BY <1>2 DEF Closed, AFTER_FLUSH
    <2>2. c \in {0, 1, 2}
      OBVIOUS
    <2> HIDE DEF c, y
    <2>3. y \in Session /\ y.pc = x.pc /\ y.linked = x.linked /\ y.auth = x.auth /\ y.topics = x.topics
          /\ y.outbox = x.outbox /\ y.sending = x.sending /\ y.drained = x.drained
          /\ y.got = x.got /\ y.owed = x.owed /\ y.since = x.since /\ y.closing = c
      BY <1>1, <2>1, <2>2 DEF Session, OPEN, AFTER_FLUSH, NOW
    <2> QED BY <2>3 DEF c
  <1> HIDE DEF y
  <1>4. Fits(y) /\ Whole(y)
    BY <1>2, <1>3 DEF SessionInv, Fits, Whole, Way, NOW
  <1>5. Placed(y) /\ Settled(y)
    BY <1>2, <1>3 DEF SessionInv, Placed, Settled, NOW, AFTER_FLUSH
  <1>6. Told(y)
    <2>1. y.closing # OPEN
      BY <1>2, <1>3 DEF OPEN
    <2> QED BY <1>3, <2>1, SameTold
  <1>7. SessionInv(y)
    BY <1>3, <1>4, <1>5 DEF SessionInv
  <1> QED BY <1>3, <1>6, <1>7 DEF y

(* A request that is answered at once.                                     *)
LEMMA CommandKeeps ==
    ASSUME ApiInv, NEW s \in Sessions, Command(s)
    PROVE  ApiInv'
  <1> DEFINE x == ses[s]
             y == Queue(x, Reply)
  <1>1. x.pc = "work" /\ x.pc \in Running /\ x.pc \in {"work", "reply"}
    BY DEF Command, Serving, Running
  <1>2. SessionInv(x) /\ Told(x) /\ server \in Deployments /\ used \in Counts
    BY <1>1, LiveSession
  <1>3. UNCHANGED <<server, interest, authed, refused, accept, results, pump, phase, draining, late, stopSeq, marked>>
        /\ used' \in Counts /\ ses' = [ses EXCEPT ![s] = y]
    BY <1>2 DEF Command, Serving, Counts
  <1>4. SessionInv(y) /\ Told(y) /\ y.pc = x.pc /\ (y.linked <=> x.linked) /\ (x.drained <=> y.drained)
        /\ (y.auth <=> x.auth) /\ y.topics = x.topics
    BY <1>1, <1>2, ReplyQueued
  <1> HIDE DEF y
  <1> QED BY <1>1, <1>2, <1>3, <1>4, OneSessionUncounted

(* A line that is no request or a wrong token: answered once, then the     *)
(* session closes.                                                         *)
LEMMA RefusedKeeps ==
    ASSUME ApiInv, NEW s \in Sessions, Refused(s)
    PROVE  ApiInv'
  <1> DEFINE x == ses[s]
             z == Queue(x, Reply)
             y == Closed(z, AFTER_FLUSH)
  <1>1. x.pc = "work" /\ x.pc \in Running /\ x.pc \in {"work", "reply"}
    BY DEF Refused, Serving, Running
  <1>2. SessionInv(x) /\ Told(x) /\ server \in Deployments /\ used \in Counts
    BY <1>1, LiveSession
  <1>3. UNCHANGED <<server, interest, authed, refused, accept, results, pump, phase, draining, late, stopSeq, marked>>
        /\ used' \in Counts /\ ses' = [ses EXCEPT ![s] = y]
    BY <1>2 DEF Refused, Serving, Counts
  <1>4. SessionInv(z) /\ Told(z) /\ z.pc = x.pc /\ (z.linked <=> x.linked) /\ (x.drained <=> z.drained)
        /\ (z.auth <=> x.auth) /\ z.topics = x.topics
    BY <1>1, <1>2, ReplyQueued
  <1> HIDE DEF z
  <1>5. SessionInv(y) /\ Told(y) /\ y.pc = z.pc /\ (y.linked <=> z.linked) /\ (z.drained <=> y.drained)
        /\ (y.auth <=> z.auth) /\ y.topics = z.topics
    BY <1>1, <1>4, ClosedKeeps
  <1> HIDE DEF y
  <1> QED BY <1>1, <1>2, <1>3, <1>4, <1>5, OneSessionUncounted

(* The reply in its own critical section, after the state it reports has   *)
(* changed.                                                                *)
LEMMA AnswerKeeps ==
    ASSUME ApiInv, NEW s \in Sessions, Answer(s)
    PROVE  ApiInv'
  <1> DEFINE x == ses[s]
             z == Queue(x, Reply)
             y == [z EXCEPT !.pc = "work"]
  <1>1. x.pc = "reply" /\ x.pc \in Running /\ x.pc \in {"work", "reply"} /\ "work" \in Running
    BY DEF Answer, Running
  <1>2. SessionInv(x) /\ Told(x) /\ server \in Deployments /\ used \in Counts
    BY <1>1, LiveSession
  <1>3. UNCHANGED <<server, interest, authed, refused, accept, results, pump, phase, draining, late, stopSeq, marked, used>>
        /\ ses' = [ses EXCEPT ![s] = y]
    BY <1>2 DEF Answer
  <1>4. SessionInv(z) /\ Told(z) /\ z.pc = x.pc /\ (z.linked <=> x.linked) /\ (x.drained <=> z.drained)
        /\ (z.auth <=> x.auth) /\ z.topics = x.topics
    BY <1>1, <1>2, ReplyQueued
  <1> HIDE DEF z
  <1>5. z \in Session /\ Moved(z, y, "work")
    BY <1>1, <1>4, MoveEffect DEF SessionInv
  <1> HIDE DEF y
  <1>6. z.pc \in {"top", "work", "reply", "linger"} /\ z.pc # "linger" /\ "work" \in {"top", "work", "linger", "retire"}
    BY <1>1, <1>4
  <1>7. SessionInv(y) /\ Told(y) /\ y.pc = "work" /\ (y.linked <=> z.linked) /\ (z.drained <=> y.drained)
        /\ (y.auth <=> z.auth) /\ y.topics = z.topics
    BY <1>4, <1>5, <1>6, MovesOn
  <1> QED BY <1>1, <1>2, <1>3, <1>4, <1>7, OneSessionUncounted

(* The peer finished sending: what is queued is still flushed.             *)
LEMMA PeerEofKeeps ==
    ASSUME ApiInv, NEW s \in Sessions, PeerEof(s)
    PROVE  ApiInv'
  <1> DEFINE x == ses[s]
             y == Closed(x, AFTER_FLUSH)
  <1>1. x.pc = "work" /\ x.pc \in Running
    BY DEF PeerEof, Running
  <1>2. SessionInv(x) /\ Told(x) /\ server \in Deployments /\ used \in Counts
    BY <1>1, LiveSession
  <1>3. UNCHANGED <<server, interest, authed, refused, accept, results, pump, phase, draining, late, stopSeq, marked, used>>
        /\ ses' = [ses EXCEPT ![s] = y]
    BY <1>2 DEF PeerEof
  <1>4. SessionInv(y) /\ Told(y) /\ y.pc = x.pc /\ (y.linked <=> x.linked) /\ (x.drained <=> y.drained)
        /\ (y.auth <=> x.auth) /\ y.topics = x.topics
    BY <1>1, <1>2, ClosedKeeps
  <1> HIDE DEF y
  <1> QED BY <1>1, <1>2, <1>3, <1>4, OneSessionUncounted

(* A socket error or the end of the lingering: the session goes to its     *)
(* retirement.                                                             *)
LEMMA GoesToRetire ==
    ASSUME ApiInv, NEW s \in Sessions, SocketFails(s) \/ LingerEnds(s)
    PROVE  ApiInv'
  <1> DEFINE x == ses[s]
  <1>1. x.pc \in {"work", "linger"} /\ x.pc \in Running /\ "retire" \in Running
    BY DEF SocketFails, LingerEnds, Running
  <1>2. x \in Session /\ SessionInv(x) /\ Told(x) /\ used \in Counts
    BY <1>1, LiveSession
  <1>3. UNCHANGED <<server, interest, authed, refused, accept, results, pump, phase, draining, late, stopSeq, marked, used>>
    BY DEF SocketFails, LingerEnds
  <1>4. \/ ses' = [ses EXCEPT ![s] = [x EXCEPT !.pc = "retire"]]
        \/ ses' = [ses EXCEPT ![s] = [x EXCEPT !.pc = "retire", !.cut = TRUE]]
    BY <1>2 DEF SocketFails, LingerEnds
  <1> HIDE DEF x
  <1>5. PICK y : Moved(x, y, "retire") /\ ses' = [ses EXCEPT ![s] = y]
    BY <1>1, <1>2, <1>4, MoveEffect
  <1>6. x.pc \in {"top", "work", "reply", "linger"} /\ "retire" \notin {"top", "work"}
        /\ "retire" \in {"top", "work", "linger", "retire"}
    BY <1>1
  <1>7. SessionInv(y) /\ Told(y) /\ y.pc = "retire" /\ (y.linked <=> x.linked) /\ (x.drained <=> y.drained)
        /\ (y.auth <=> x.auth) /\ y.topics = x.topics
    BY <1>2, <1>5, <1>6, MovesOn
  <1> QED BY <1>1, <1>2, <1>3, <1>5, <1>7, OneSessionUncounted DEF x

(* session_flush() moves lines along their way.                            *)
LEMMA FlushKeeps ==
    ASSUME ApiInv, NEW s \in Sessions, Flush(s)
    PROVE  ApiInv'
  <1> DEFINE x == ses[s]
             z == Taken(x)
  <1>1. x.pc = "work" /\ x.pc \in Running /\ "top" \in Running
    BY DEF Flush, Running
  <1>2. x \in Session /\ SessionInv(x) /\ Told(x) /\ used \in Counts
    BY <1>1, LiveSession
  <1>3. UNCHANGED <<server, interest, authed, refused, accept, results, pump, phase, draining, late, stopSeq, marked, used>>
    BY DEF Flush
  <1>4. PICK k \in 0 .. Len(z.sending) :
           ses' = [ses EXCEPT ![s] = [z EXCEPT !.got = z.got \o SubSeq(z.sending, 1, k),
                                               !.sending = SubSeq(z.sending, k + 1, Len(z.sending)), !.pc = "top"]]
    BY DEF Flush
  <1>5. x.got \in Seq(Lines) /\ x.sending \in Seq(Lines) /\ x.outbox \in Seq(Lines)
    BY <1>2 DEF Session
  <1>6. /\ z \in Session /\ z.pc = x.pc /\ z.linked = x.linked /\ z.auth = x.auth /\ z.topics = x.topics
        /\ z.closing = x.closing /\ z.drained = x.drained /\ z.got = x.got /\ z.owed = x.owed /\ z.since = x.since
        /\ z.cut = x.cut
        /\ \/ z.sending = x.sending /\ z.outbox = x.outbox
           \/ x.sending = <<>> /\ z.sending = x.outbox /\ z.outbox = <<>>
    <2>1. CASE x.sending = <<>>
      <3>1. z = [x EXCEPT !.sending = x.outbox, !.outbox = <<>>]
        BY <2>1 DEF Taken
      <3>2. <<>> \in Seq(Lines)
        OBVIOUS
      <3> HIDE DEF x, z
      <3> QED BY <1>2, <1>5, <2>1, <3>1, <3>2 DEF Session
    <2>2. CASE x.sending # <<>>
      BY <1>2, <2>2 DEF Taken
    <2> QED BY <2>1, <2>2
  <1>7. Way(z) = Way(x) /\ Fits(z)
    <2>1. CASE z.sending = x.sending /\ z.outbox = x.outbox
      BY <1>2, <1>6, <2>1 DEF Way, Fits, SessionInv
    <2>2. CASE x.sending = <<>> /\ z.sending = x.outbox /\ z.outbox = <<>>
      <3>1. Way(z) = (x.got \o x.outbox) \o <<>> /\ Way(x) = (x.got \o <<>>) \o x.outbox
        BY <1>6, <2>2 DEF Way
      <3>2. x.got \o <<>> = x.got /\ (x.got \o x.outbox) \o <<>> = x.got \o x.outbox
        BY <1>5
      <3>3. OutboxCap \in Nat
        BY ApiConstants DEF ApiInv
      <3> QED BY <1>2, <2>2, <3>1, <3>2, <3>3 DEF Fits, SessionInv
    <2> QED BY <1>6, <2>1, <2>2
  <1> HIDE DEF z
  <1> DEFINE sent == SubSeq(z.sending, 1, k)
             rest == SubSeq(z.sending, k + 1, Len(z.sending))
             y == [z EXCEPT !.got = z.got \o sent, !.sending = rest, !.pc = "top"]
  <1>8. z.got \in Seq(Lines) /\ z.sending \in Seq(Lines) /\ z.outbox \in Seq(Lines) /\ k \in 0 .. Len(z.sending)
    BY <1>6 DEF Session
  <1>9. sent \in Seq(Lines) /\ rest \in Seq(Lines) /\ sent \o rest = z.sending /\ Len(rest) <= Len(z.sending)
    <2>1. 1 \in 1 .. Len(z.sending) + 1 /\ k \in 1 - 1 .. Len(z.sending) /\ Len(z.sending) \in k .. Len(z.sending)
      BY <1>8
    <2>2. sent \o rest = SubSeq(z.sending, 1, Len(z.sending))
      BY <1>8, <2>1, ConcatAdjacentSubSeq
    <2>3. SubSeq(z.sending, 1, Len(z.sending)) = z.sending
      BY <1>8, SubSeqFull
    <2>4. sent \in Seq(Lines) /\ rest \in Seq(Lines)
      BY <1>8
    <2>5. Len(rest) <= Len(z.sending)
      BY <1>8
    <2> QED BY <2>2, <2>3, <2>4, <2>5
  <1>10. ses' = [ses EXCEPT ![s] = y]
    BY <1>4
  <1> HIDE DEF sent, rest
  <1>11. z.got \o sent \in Seq(Lines)
    BY <1>8, <1>9
  <1>12. y \in Session /\ y.pc = "top" /\ y.linked = z.linked /\ y.auth = z.auth /\ y.topics = z.topics
        /\ y.closing = z.closing /\ y.drained = z.drained /\ y.got = z.got \o sent /\ y.sending = rest
        /\ y.outbox = z.outbox /\ y.owed = z.owed /\ y.since = z.since
    BY <1>1, <1>6, <1>9, <1>11 DEF Session
  <1> HIDE DEF y
  <1>13. Way(y) = Way(z)
    <2>1. (z.got \o sent) \o rest = z.got \o (sent \o rest)
      <3>1. z.got \in Seq(Lines) /\ sent \in Seq(Lines) /\ rest \in Seq(Lines)
        BY <1>8, <1>9
      <3> DEFINE g == z.got
      <3> HIDE DEF g, z, x
      <3>2. g \in Seq(Lines)
        BY <3>1 DEF g
      <3>3. (g \o sent) \o rest = g \o (sent \o rest)
        BY <3>1, <3>2
      <3> QED BY <3>3 DEF g
    <2> QED BY <1>9, <1>12, <2>1 DEF Way
  <1>14. SessionInv(y)
    <2>1. Fits(y)
      <3>1. OutboxCap \in Nat
        BY ApiConstants DEF ApiInv
      <3> QED BY <1>7, <1>8, <1>9, <1>12, <3>1 DEF Fits
    <2>2. Whole(y)
      BY <1>2, <1>6, <1>7, <1>12, <1>13 DEF SessionInv, Whole
    <2>3. Placed(y)
      BY <1>1, <1>2, <1>6, <1>12 DEF SessionInv, Placed, Running
    <2>4. Settled(y)
      BY <1>1, <1>2, <1>6, <1>12 DEF SessionInv, Settled
    <2> QED BY <1>12, <2>1, <2>2, <2>3, <2>4 DEF SessionInv
  <1>15. Told(y)
    BY <1>2, <1>6, <1>12, SameTold
  <1> QED BY <1>1, <1>2, <1>3, <1>6, <1>10, <1>12, <1>14, <1>15, OneSessionUncounted

(* The thread returns.                                                     *)
LEMMA FinishKeeps ==
    ASSUME ApiInv, NEW s \in Sessions, Finish(s)
    PROVE  ApiInv'
  <1> DEFINE x == ses[s]
             y == [x EXCEPT !.drained = TRUE, !.pc = "ended"]
  <1>1. x.pc = "finish" /\ x.pc \in Running
    BY DEF Finish, Running
  <1>2. x \in Session /\ SessionInv(x) /\ Told(x) /\ used \in Counts
    BY <1>1, LiveSession
  <1>3. UNCHANGED <<server, interest, authed, refused, accept, results, pump, phase, draining, late, stopSeq, marked, used>>
        /\ ses' = [ses EXCEPT ![s] = y]
    BY <1>2 DEF Finish
  <1>4. y \in Session /\ y.pc = "ended" /\ y.linked = x.linked /\ y.auth = x.auth /\ y.topics = x.topics
        /\ y.closing = x.closing /\ y.outbox = x.outbox /\ y.sending = x.sending /\ y.drained = TRUE
        /\ y.got = x.got /\ y.owed = x.owed /\ y.since = x.since
    BY <1>2 DEF Session, Running
  <1> HIDE DEF y
  <1>5. SessionInv(y)
    <2>1. Fits(y) /\ Whole(y)
      BY <1>2, <1>4 DEF SessionInv, Fits, Whole, Way
    <2>2. Placed(y) /\ y.closing = NOW
      BY <1>1, <1>2, <1>4 DEF SessionInv, Placed, Running
    <2>3. Settled(y)
      BY <2>2 DEF Settled
    <2> QED BY <1>4, <2>1, <2>2, <2>3 DEF SessionInv
  <1>6. Told(y)
    BY <1>2, <1>4, SameTold
  <1> QED BY <1>1, <1>2, <1>3, <1>4, <1>5, <1>6, OneSessionUncounted

(* Who subscribed and who is authorised are finite sets.                   *)
LEMMA FiniteCounts ==
    ASSUME server \in Deployments
    PROVE  /\ IsFiniteSet(Known) /\ Cardinality(Known) \in 0 .. Cardinality(Sessions)
           /\ \A t : IsFiniteSet(Listeners(t)) /\ Cardinality(Listeners(t)) \in 0 .. Cardinality(Sessions)
           /\ IsFiniteSet(Linked) /\ Cardinality(Linked) \in Nat /\ Cardinality(Sessions) \in Nat
  <1>1. IsFiniteSet(Sessions) /\ Cardinality(Sessions) \in Nat
    BY ApiConstants, FS_CardinalityType
  <1>2. \A T \in SUBSET Sessions : IsFiniteSet(T) /\ Cardinality(T) \in 0 .. Cardinality(Sessions)
    BY <1>1, FS_Subset, FS_CardinalityType
  <1>3. Known \in SUBSET Sessions /\ Linked \in SUBSET Sessions /\ \A t : Listeners(t) \in SUBSET Sessions
    BY DEF Known, Listeners, Linked
  <1> QED BY <1>1, <1>2, <1>3

(* The same in the next state.                                             *)
LEMMA FiniteCountsNext ==
    ASSUME server \in Deployments
    PROVE  /\ Cardinality(Known') \in 0 .. Cardinality(Sessions)
           /\ \A t : Cardinality(Listeners(t)') \in 0 .. Cardinality(Sessions)
  <1>1. IsFiniteSet(Sessions) /\ Cardinality(Sessions) \in Nat
    BY ApiConstants, FS_CardinalityType
  <1>2. \A T \in SUBSET Sessions : IsFiniteSet(T) /\ Cardinality(T) \in 0 .. Cardinality(Sessions)
    BY <1>1, FS_Subset, FS_CardinalityType
  <1>3. Known' \in SUBSET Sessions /\ \A t : Listeners(t)' \in SUBSET Sessions
    BY DEF Known, Listeners
  <1> QED BY <1>1, <1>2, <1>3

(* Counters that follow the sets stay in their range.                      *)
LEMMA CountsFollow ==
    ASSUME server \in Deployments, CountInv, phase # "gone", server' = server, phase' = phase,
           interest' = [t \in Topics |-> Cardinality(Listeners(t)')], authed' = Cardinality(Known')
    PROVE  CountInv'
  <1>1. interest' \in [Topics -> 0 .. Cardinality(Sessions)] /\ authed' \in 0 .. Cardinality(Sessions)
    BY FiniteCountsNext
  <1>2. \A t \in Topics : interest'[t] = Cardinality(Listeners(t)')
    OBVIOUS
  <1> QED BY <1>1, <1>2 DEF CountInv, Topics

(* The token, or a request for it where none is required: the session is   *)
(* counted once.                                                           *)
LEMMA AuthKeeps ==
    ASSUME ApiInv, NEW s \in Sessions, Auth(s)
    PROVE  ApiInv'
  <1> DEFINE x == ses[s]
             y == [x EXCEPT !.auth = TRUE, !.pc = "reply"]
  <1>1. x.pc = "work" /\ x.pc \in Running
    BY DEF Auth, Serving, Running
  <1>2. x \in Session /\ SessionInv(x) /\ Told(x) /\ used \in Counts
        /\ server \in Deployments /\ phase # "gone" /\ x.linked /\ CountInv
    BY <1>1, LiveSession DEF ApiInv
  <1>3. UNCHANGED <<server, interest, refused, accept, results, pump, phase, draining, late, stopSeq, marked>>
        /\ ses' = [ses EXCEPT ![s] = y] /\ used' \in Counts
    <2>1. ses' = [ses EXCEPT ![s] = y]
      BY <1>2 DEF Auth
    <2>2. used' \in Counts
      BY <1>2 DEF Auth, Serving, Counts
    <2> QED BY <2>1, <2>2 DEF Auth
  <1>4. y \in Session /\ y.pc = "reply" /\ y.linked = x.linked /\ y.auth = TRUE /\ y.topics = x.topics
        /\ y.closing = x.closing /\ y.outbox = x.outbox /\ y.sending = x.sending /\ y.drained = x.drained
        /\ y.got = x.got /\ y.owed = x.owed /\ y.since = x.since
    BY <1>2 DEF Session, Running
  <1> HIDE DEF y
  <1>5. SessionInv(y)
    <2>1. Fits(y) /\ Whole(y)
      BY <1>2, <1>4 DEF SessionInv, Fits, Whole, Way
    <2>2. Placed(y)
      BY <1>1, <1>2, <1>4 DEF SessionInv, Placed, Running
    <2>3. Settled(y)
      BY <1>1, <1>2, <1>4 DEF SessionInv, Settled
    <2> QED BY <1>4, <2>1, <2>2, <2>3 DEF SessionInv
  <1>6. Told(y)
    BY <1>2, <1>4, SameTold
  <1>7. ses \in [Sessions -> Session]
    BY DEF ApiInv
  <1>8. ses'[s] = y /\ \A t \in Sessions \ {s} : ses'[t] = ses[t]
    BY <1>3, <1>7
  <1>9. CountInv'
    <2>1. Known' = Known \cup {s} /\ (s \in Known <=> x.auth)
      BY <1>4, <1>8 DEF Known
    <2>2. \A t : Listeners(t)' = Listeners(t)
      BY <1>4, <1>8 DEF Listeners
    <2>3. authed' = Cardinality(Known')
      <3>1. authed = Cardinality(Known) /\ authed' = IF x.auth THEN authed ELSE authed + 1
        BY <1>2 DEF Auth, CountInv
      <3>2. IsFiniteSet(Known)
        BY <1>2, FiniteCounts
      <3> QED BY <2>1, <3>1, <3>2, FS_AddElement
    <2>4. interest' = [t \in Topics |-> Cardinality(Listeners(t)')]
      <3>1. interest = [t \in Topics |-> Cardinality(Listeners(t))]
        BY <1>2 DEF CountInv
      <3> QED BY <1>3, <2>2, <3>1
    <2> QED BY <1>2, <1>3, <2>3, <2>4, CountsFollow
  <1> QED BY <1>1, <1>2, <1>3, <1>4, <1>5, <1>6, <1>9, OneSession

(* A subscription to a topic: the topic's interest grows by one unless the *)
(* session had it.                                                         *)
LEMMA SubscribeKeeps ==
    ASSUME ApiInv, NEW s \in Sessions, NEW mask \in Masks, Subscribe(s, mask)
    PROVE  ApiInv'
  <1> DEFINE x == ses[s]
             n == IF "result" \in mask \ x.topics THEN Newest ELSE x.since
             y == [x EXCEPT !.topics = x.topics \cup mask, !.pc = "reply", !.since = n]
  <1>1. x.pc = "work" /\ x.pc \in Running
    BY DEF Subscribe, Serving, Running
  <1>2. x \in Session /\ SessionInv(x) /\ Told(x) /\ used \in Counts
        /\ server \in Deployments /\ phase # "gone" /\ x.linked /\ CountInv /\ x.auth
    BY <1>1, LiveSession DEF ApiInv, Subscribe
  <1>3. UNCHANGED <<server, authed, refused, accept, results, pump, phase, draining, late, stopSeq, marked>>
    BY DEF Subscribe
  <1>4. used' \in Counts
    BY <1>2 DEF Subscribe, Serving, Counts
  <1>5. ses' = [ses EXCEPT ![s] = y]
    BY <1>2 DEF Subscribe
  <1>6. y \in Session /\ y.pc = "reply" /\ y.linked = x.linked /\ y.auth = x.auth /\ y.topics = x.topics \cup mask
        /\ y.closing = x.closing /\ y.outbox = x.outbox /\ y.sending = x.sending /\ y.drained = x.drained
        /\ y.got = x.got /\ y.owed = x.owed /\ y.since = n
    <2>1. n \in Nat /\ x.topics \cup mask \subseteq Topics
      BY <1>2 DEF ApiInv, PumpInv, Newest, Session, Masks
    <2> HIDE DEF n
    <2> QED BY <1>2, <2>1 DEF Session, Running
  <1> HIDE DEF y
  <1>7. SessionInv(y)
    <2>1. Fits(y) /\ Whole(y)
      BY <1>2, <1>6 DEF SessionInv, Fits, Whole, Way
    <2>2. Placed(y)
      BY <1>1, <1>2, <1>6 DEF SessionInv, Placed, Running
    <2>3. Settled(y)
      BY <1>1, <1>2, <1>6 DEF SessionInv, Settled
    <2> QED BY <1>6, <2>1, <2>2, <2>3 DEF SessionInv
  <1>8. Told(y)
    <2>1. CASE "result" \in mask \ x.topics
      <3>1. pump.last <= Newest /\ pump.last \in Nat /\ Newest \in Nat
        BY DEF ApiInv, PumpInv, Newest
      <3>2. \A i \in y.since + 1 .. pump.last : FALSE
        BY <1>6, <2>1, <3>1
      <3> QED BY <1>2, <1>6, <3>2 DEF Told
    <2>2. CASE "result" \notin mask \ x.topics
      <3>1. "result" \in y.topics <=> "result" \in x.topics
        BY <1>6, <2>2
      <3> QED BY <1>2, <1>6, <2>2, <3>1, SameTold
    <2> QED BY <2>1, <2>2
  <1>9. ses \in [Sessions -> Session]
    BY DEF ApiInv
  <1>10. ses'[s] = y /\ \A t \in Sessions \ {s} : ses'[t] = ses[t]
    BY <1>5, <1>9
  <1>11. CountInv'
    <2>1. Known' = Known
      BY <1>6, <1>10 DEF Known
    <2>2. authed' = Cardinality(Known')
      BY <1>2, <1>3, <2>1 DEF CountInv
    <2>3. ASSUME NEW t \in Topics
          PROVE  interest'[t] = Cardinality(Listeners(t)')
      <3>1. interest[t] = Cardinality(Listeners(t)) /\ interest'[t] = interest[t] + (IF t \in mask \ x.topics THEN 1 ELSE 0)
        BY <1>2 DEF CountInv, Subscribe
      <3>2. IsFiniteSet(Listeners(t)) /\ Cardinality(Listeners(t)) \in Nat /\ (s \in Listeners(t) <=> t \in x.topics)
        BY <1>2, FiniteCounts, FS_CardinalityType DEF Listeners
      <3>3. CASE t \in mask
        <4>1. Listeners(t)' = Listeners(t) \cup {s}
          BY <1>6, <1>10, <3>3 DEF Listeners
        <4>2. Cardinality(Listeners(t) \cup {s})
              = IF s \in Listeners(t) THEN Cardinality(Listeners(t)) ELSE Cardinality(Listeners(t)) + 1
          BY <3>2, FS_AddElement
        <4> QED BY <3>1, <3>2, <3>3, <4>1, <4>2
      <3>4. CASE t \notin mask
        <4>1. Listeners(t)' = Listeners(t)
          BY <1>6, <1>10, <3>4 DEF Listeners
        <4> QED BY <3>1, <3>2, <3>4, <4>1
      <3> QED BY <3>3, <3>4
    <2>4. interest' = [t \in Topics |-> Cardinality(Listeners(t)')]
      <3>1. interest' = [t \in Topics |-> interest'[t]]
        BY DEF Subscribe
      <3> QED BY <2>3, <3>1
    <2> QED BY <1>2, <1>3, <2>2, <2>4, CountsFollow
  <1> QED BY <1>1, <1>2, <1>3, <1>4, <1>5, <1>6, <1>7, <1>8, <1>11, OneSession

(* The end of a subscription: the topic's interest falls by one if the     *)
(* session had it.                                                         *)
LEMMA UnsubscribeKeeps ==
    ASSUME ApiInv, NEW s \in Sessions, NEW mask \in Masks, Unsubscribe(s, mask)
    PROVE  ApiInv'
  <1> DEFINE x == ses[s]
             y == [x EXCEPT !.topics = x.topics \ mask, !.pc = "reply"]
  <1>1. x.pc = "work" /\ x.pc \in Running
    BY DEF Unsubscribe, Serving, Running
  <1>2. x \in Session /\ SessionInv(x) /\ Told(x) /\ used \in Counts
        /\ server \in Deployments /\ phase # "gone" /\ x.linked /\ CountInv /\ x.auth
    BY <1>1, LiveSession DEF ApiInv, Unsubscribe
  <1>3. UNCHANGED <<server, authed, refused, accept, results, pump, phase, draining, late, stopSeq, marked>>
    BY DEF Unsubscribe
  <1>4. used' \in Counts
    BY <1>2 DEF Unsubscribe, Serving, Counts
  <1>5. ses' = [ses EXCEPT ![s] = y]
    BY <1>2 DEF Unsubscribe
  <1>6. y \in Session /\ y.pc = "reply" /\ y.linked = x.linked /\ y.auth = x.auth /\ y.topics = x.topics \ mask
        /\ y.closing = x.closing /\ y.outbox = x.outbox /\ y.sending = x.sending /\ y.drained = x.drained
        /\ y.got = x.got /\ y.owed = x.owed /\ y.since = x.since
    <2>1. x.topics \ mask \subseteq Topics
      BY <1>2 DEF Session
    <2> QED BY <1>2, <2>1 DEF Session, Running
  <1> HIDE DEF y
  <1>7. SessionInv(y)
    <2>1. Fits(y) /\ Whole(y)
      BY <1>2, <1>6 DEF SessionInv, Fits, Whole, Way
    <2>2. Placed(y)
      BY <1>1, <1>2, <1>6 DEF SessionInv, Placed, Running
    <2>3. Settled(y)
      BY <1>1, <1>2, <1>6 DEF SessionInv, Settled
    <2> QED BY <1>6, <2>1, <2>2, <2>3 DEF SessionInv
  <1>8. Told(y)
    BY <1>2, <1>6, SameTold
  <1>9. ses \in [Sessions -> Session]
    BY DEF ApiInv
  <1>10. ses'[s] = y /\ \A t \in Sessions \ {s} : ses'[t] = ses[t]
    BY <1>5, <1>9
  <1>11. CountInv'
    <2>1. Known' = Known
      BY <1>6, <1>10 DEF Known
    <2>2. authed' = Cardinality(Known')
      BY <1>2, <1>3, <2>1 DEF CountInv
    <2>3. ASSUME NEW t \in Topics
          PROVE  interest'[t] = Cardinality(Listeners(t)')
      <3>1. interest[t] = Cardinality(Listeners(t)) /\ interest'[t] = interest[t] - (IF t \in mask \cap x.topics THEN 1 ELSE 0)
        BY <1>2 DEF CountInv, Unsubscribe
      <3>2. IsFiniteSet(Listeners(t)) /\ Cardinality(Listeners(t)) \in Nat /\ (s \in Listeners(t) <=> t \in x.topics)
        BY <1>2, FiniteCounts, FS_CardinalityType DEF Listeners
      <3>3. CASE t \in mask
        <4>1. Listeners(t)' = Listeners(t) \ {s}
          BY <1>6, <1>10, <3>3 DEF Listeners
        <4>2. Cardinality(Listeners(t) \ {s})
              = IF s \in Listeners(t) THEN Cardinality(Listeners(t)) - 1 ELSE Cardinality(Listeners(t))
          BY <3>2, FS_RemoveElement
        <4> QED BY <3>1, <3>2, <3>3, <4>1, <4>2
      <3>4. CASE t \notin mask
        <4>1. Listeners(t)' = Listeners(t)
          BY <1>6, <1>10, <3>4 DEF Listeners
        <4> QED BY <3>1, <3>2, <3>4, <4>1
      <3> QED BY <3>3, <3>4
    <2>4. interest' = [t \in Topics |-> Cardinality(Listeners(t)')]
      <3>1. interest' = [t \in Topics |-> interest'[t]]
        BY DEF Unsubscribe
      <3> QED BY <2>3, <3>1
    <2> QED BY <1>2, <1>3, <2>2, <2>4, CountsFollow
  <1> QED BY <1>1, <1>2, <1>3, <1>4, <1>5, <1>6, <1>7, <1>8, <1>11, OneSession

(* session_retire().                                                       *)
LEMMA RetireKeeps ==
    ASSUME ApiInv, NEW s \in Sessions, Retire(s)
    PROVE  ApiInv'
  <1> DEFINE x == ses[s]
             y == [Off(x) EXCEPT !.pc = "finish"]
  <1>1. x.pc = "retire" /\ x.pc \in Running
    BY DEF Retire, Running
  <1>2. x \in Session /\ SessionInv(x) /\ Told(x) /\ used \in Counts
        /\ server \in Deployments /\ phase # "gone" /\ x.linked /\ CountInv
    BY <1>1, LiveSession DEF ApiInv
  <1>3. UNCHANGED <<server, refused, accept, results, pump, phase, draining, late, stopSeq, marked, used>>
    BY DEF Retire
  <1>4. ses' = [ses EXCEPT ![s] = y]
    BY <1>2 DEF Retire
  <1>5. y \in Session /\ y.pc = "finish" /\ y.linked = x.linked /\ y.auth = FALSE /\ y.topics = {}
        /\ y.closing = NOW /\ y.outbox = x.outbox /\ y.sending = x.sending /\ y.drained = x.drained
        /\ y.got = x.got /\ y.owed = x.owed /\ y.since = x.since
    BY <1>2 DEF Session, Running, Off
  <1> HIDE DEF y
  <1>6. SessionInv(y)
    <2>1. Fits(y) /\ Whole(y)
      BY <1>2, <1>5 DEF SessionInv, Fits, Whole, Way
    <2>2. Placed(y)
      BY <1>2, <1>5 DEF Placed
    <2>3. Settled(y)
      BY <1>5 DEF Settled
    <2> QED BY <1>5, <2>1, <2>2, <2>3 DEF SessionInv
  <1>7. Told(y)
    BY <1>2, <1>5, SameTold
  <1>8. ses \in [Sessions -> Session]
    BY DEF ApiInv
  <1>9. ses'[s] = y /\ \A t \in Sessions \ {s} : ses'[t] = ses[t]
    BY <1>4, <1>8
  <1>10. CountInv'
    <2>1. Known' = Known \ {s} /\ (s \in Known <=> x.auth)
      BY <1>5, <1>9 DEF Known
    <2>2. authed' = Cardinality(Known')
      <3>1. authed = Cardinality(Known) /\ authed' = IF x.auth THEN authed - 1 ELSE authed
        BY <1>2 DEF CountInv, Retire
      <3>2. IsFiniteSet(Known)
        BY <1>2, FiniteCounts
      <3> QED BY <2>1, <3>1, <3>2, FS_RemoveElement
    <2>3. ASSUME NEW t \in Topics
          PROVE  interest'[t] = Cardinality(Listeners(t)')
      <3>1. interest[t] = Cardinality(Listeners(t)) /\ interest'[t] = interest[t] - (IF t \in x.topics THEN 1 ELSE 0)
        BY <1>2 DEF CountInv, Retire, InterestWithout
      <3>2. IsFiniteSet(Listeners(t)) /\ Cardinality(Listeners(t)) \in Nat /\ (s \in Listeners(t) <=> t \in x.topics)
        BY <1>2, FiniteCounts, FS_CardinalityType DEF Listeners
      <3>3. Listeners(t)' = Listeners(t) \ {s}
        BY <1>5, <1>9 DEF Listeners
      <3>4. Cardinality(Listeners(t) \ {s})
            = IF s \in Listeners(t) THEN Cardinality(Listeners(t)) - 1 ELSE Cardinality(Listeners(t))
        BY <3>2, FS_RemoveElement
      <3> QED BY <3>1, <3>2, <3>3, <3>4
    <2>4. interest' = [t \in Topics |-> Cardinality(Listeners(t)')]
      <3>1. interest' = [t \in Topics |-> interest'[t]]
        BY DEF Retire, InterestWithout
      <3> QED BY <2>3, <3>1
    <2> QED BY <1>2, <1>3, <2>2, <2>4, CountsFollow
  <1> QED BY <1>1, <1>2, <1>3, <1>4, <1>5, <1>6, <1>7, <1>10, OneSession

(* Every step of a session thread keeps the invariant.                     *)
LEMMA SessionStepKeeps ==
    ASSUME ApiInv, NEW s \in Sessions, SessionStep(s)
    PROVE  ApiInv'
  BY TopKeeps, CommandKeeps, RefusedKeeps, AuthKeeps, SubscribeKeeps, UnsubscribeKeeps, AnswerKeeps, PeerEofKeeps,
     GoesToRetire, FlushKeeps, RetireKeeps, FinishKeeps DEF SessionStep

-----------------------------------------------------------------------------
(* The accept thread.                                                      *)

(* A step of the accept thread.                                            *)
LEMMA AcceptFrame ==
    ASSUME ApiInv, ses' \in [Sessions -> Session], \A s \in Sessions : SessionInv(ses'[s]) /\ Told(ses'[s]),
           server' = server, pump' = pump, results' = results, phase' = phase, stopSeq' = stopSeq,
           refused' \in 0 .. RefusedMax, used' \in Counts, AcceptInv', CountInv', DrainInv'
    PROVE  ApiInv'
  <1>1. (ses \in [Sessions -> Session])'
    BY DEF Session, Topics
  <1>2. (\A t \in Sessions : SessionInv(ses[t]))'
    BY NextSessions
  <1>3. (\A t \in Sessions : Told(ses[t]))'
    BY NextTold
  <1>4. PumpInv' /\ StopInv'
    BY PumpAndStop DEF ApiInv
  <1>5. (refused \in 0 .. RefusedMax)' /\ (server \in Deployments)'
    BY DEF ApiInv, RefusedMax
  <1> QED BY <1>1, <1>2, <1>3, <1>4, <1>5 DEF ApiInv

(* reap_sessions() frees sessions that are neither counted nor being made. *)
LEMMA CleanedEffect ==
    ASSUME ApiInv
    PROVE  /\ Cleaned \in [Sessions -> Session] /\ \A s \in Sessions : SessionInv(Cleaned[s]) /\ Told(Cleaned[s])
           /\ \A s \in Sessions :
                 /\ Cleaned[s].pc = "new" <=> ses[s].pc = "new"
                 /\ Cleaned[s].auth <=> ses[s].auth
                 /\ Cleaned[s].topics = ses[s].topics
                 /\ Cleaned[s].linked <=> s \in Linked \ Reaped
                 /\ s \notin Reaped => Cleaned[s] = ses[s]
           /\ Reaped \subseteq Linked /\ \A s \in Reaped : ses[s].pc = "ended"
  <1>1. server \in Deployments /\ ses \in [Sessions -> Session]
    BY DEF ApiInv
  <1>2. SessionInv(NoSession) /\ Told(NoSession) /\ NoSession \in Session
    BY <1>1, NoSessionOK DEF SessionInv
  <1>3. Reaped \subseteq Linked /\ Linked \subseteq Sessions /\ \A s \in Reaped : ses[s].pc = "ended"
    BY DEF Reaped, Linked
  <1>4. \A s \in Sessions : Cleaned[s] = IF s \in Reaped THEN NoSession ELSE ses[s]
    BY DEF Cleaned
  <1>5. Cleaned \in [Sessions -> Session]
    BY <1>1, <1>2 DEF Cleaned
  <1>6. \A s \in Sessions : SessionInv(Cleaned[s]) /\ Told(Cleaned[s])
    BY <1>2, <1>4 DEF ApiInv
  <1>7. ASSUME NEW s \in Sessions
        PROVE  /\ Cleaned[s].pc = "new" <=> ses[s].pc = "new"
               /\ Cleaned[s].auth <=> ses[s].auth
               /\ Cleaned[s].topics = ses[s].topics
               /\ Cleaned[s].linked <=> s \in Linked \ Reaped
               /\ s \notin Reaped => Cleaned[s] = ses[s]
    <2>1. CASE s \in Reaped
      <3>1. Cleaned[s] = NoSession /\ ses[s].pc = "ended"
        BY <1>3, <1>4, <2>1
      <3>2. Placed(ses[s])
        BY DEF ApiInv, SessionInv
      <3>3. ~ses[s].auth /\ ses[s].topics = {}
        BY <3>1, <3>2 DEF Placed
      <3> QED BY <2>1, <3>1, <3>3 DEF NoSession
    <2>2. CASE s \notin Reaped
      BY <1>4, <2>2 DEF Linked
    <2> QED BY <2>1, <2>2
  <1> QED BY <1>3, <1>5, <1>6, <1>7

(* A round that makes no session.                                          *)
LEMMA CleanedKeeps ==
    ASSUME ApiInv, ses' = Cleaned, marked' = marked \ Reaped, accept.at = "loop", ~Stopped,
           UNCHANGED <<server, interest, authed, accept, results, pump, phase, late, stopSeq>>,
           refused' \in 0 .. RefusedMax, used' \in Counts
    PROVE  ApiInv'
  <1>1. phase \in {"up", "join", "emit", "drain", "mark", "wait"}
    BY DEF ApiInv, StopInv, Stopped, Phases
  <1>2. Linked' = Linked \ Reaped
    BY CleanedEffect DEF Linked
  <1>3. AcceptInv'
    <2>1. Cardinality(Linked') <= MaxClients
      <3>1. IsFiniteSet(Linked) /\ Linked \ Reaped \in SUBSET Linked /\ Cardinality(Linked) <= MaxClients
            /\ MaxClients \in Nat /\ Cardinality(Linked) \in Nat
        BY FiniteCounts, ApiConstants DEF ApiInv, AcceptInv
      <3>2. Cardinality(Linked \ Reaped) <= Cardinality(Linked) /\ IsFiniteSet(Linked \ Reaped)
        BY <3>1, FS_Subset
      <3>3. Cardinality(Linked \ Reaped) \in Nat
        BY <3>2, FS_CardinalityType
      <3> QED BY <1>2, <3>1, <3>2, <3>3
    <2>2. \A s \in Sessions : ses'[s].pc = "new" <=> s \in accept.made
      BY CleanedEffect DEF ApiInv, AcceptInv
    <2> QED BY <1>1, <2>1, <2>2 DEF ApiInv, AcceptInv, MaxClients
  <1>4. CountInv'
    BY <1>1, CleanedEffect, CountsStay DEF ApiInv
  <1>5. DrainInv'
    BY <1>1, <1>2 DEF ApiInv, DrainInv
  <1> QED BY <1>3, <1>4, <1>5, CleanedEffect, AcceptFrame

(* The turn of the accept loop: ended sessions are joined, and a client    *)
(* over the limit is refused.                                              *)
LEMMA AcceptLoopKeeps ==
    ASSUME ApiInv, AcceptLoop \/ RefuseBusy
    PROVE  ApiInv'
  <1>1. /\ ses' = Cleaned /\ marked' = marked \ Reaped /\ accept.at = "loop" /\ ~Stopped
        /\ UNCHANGED <<server, interest, authed, accept, results, pump, phase, late, stopSeq>>
    BY DEF AcceptLoop, RefuseBusy
  <1>2. used' \in Counts
    BY DEF AcceptLoop, RefuseBusy, ApiInv, Counts
  <1>3. refused' \in 0 .. RefusedMax
    <2>1. refused \in 0 .. RefusedMax /\ RefusedMax \in Nat
      BY ApiConstants DEF ApiInv
    <2> QED BY <2>1 DEF AcceptLoop, RefuseBusy
  <1> QED BY <1>1, <1>2, <1>3, CleanedKeeps

(* The accept thread makes a session that is not linked yet.               *)
LEMMA MakeKeeps ==
    ASSUME ApiInv, Make
    PROVE  ApiInv'
  <1> DEFINE a == CHOOSE t \in Sessions : Cleaned[t].pc = "free"
             m == [NoSession EXCEPT !.pc = "new", !.auth = ~Token]
             q == Queue(m, Reply)
  <1>1. a \in Sessions /\ Cleaned[a].pc = "free"
    BY DEF Make
  <1>2. /\ ses' = [Cleaned EXCEPT ![a] = q] /\ accept' = [at |-> "link", made |-> {a}]
        /\ UNCHANGED <<server, interest, results, pump, phase, draining, late, stopSeq>>
        /\ marked' = marked \ Reaped /\ authed' = (IF Token THEN authed ELSE authed + 1)
        /\ accept.at = "loop" /\ ~Stopped /\ ~Full /\ refused' \in 0 .. refused
        /\ used' = [used EXCEPT !.conns = @ + 1]
    <2>1. ses' = [Cleaned EXCEPT ![a] = q] /\ accept' = [at |-> "link", made |-> {a}]
      BY Zenon DEF Make
    <2>2. UNCHANGED <<server, interest, results, pump, phase, draining, late, stopSeq>>
          /\ marked' = marked \ Reaped /\ authed' = (IF Token THEN authed ELSE authed + 1)
      BY DEF Make
    <2>3. accept.at = "loop" /\ ~Stopped /\ ~Full /\ refused' \in 0 .. refused
      BY DEF Make
    <2>4. used' = [used EXCEPT !.conns = @ + 1]
      BY DEF Make
    <2> HIDE DEF a, m, q
    <2> QED BY <2>1, <2>2, <2>3, <2>4, Zenon
  <1> HIDE DEF a
  <1>3. server \in Deployments /\ Token \in BOOLEAN /\ MaxClients \in Nat /\ RefusedMax \in Nat
    BY ApiConstants DEF ApiInv
  <1>4. /\ m \in Session /\ m.pc = "new" /\ ~m.linked /\ (m.auth <=> ~Token) /\ m.topics = {} /\ ~m.drained
        /\ m.owed = <<>> /\ m.got = <<>> /\ m.sending = <<>> /\ m.outbox = <<>> /\ m.closing = OPEN
    <2> DEFINE n == NoSession
               b == ~Token
    <2>1. n \in Session /\ ~n.linked /\ n.topics = {} /\ ~n.drained /\ n.owed = <<>> /\ n.got = <<>>
          /\ n.sending = <<>> /\ n.outbox = <<>> /\ n.closing = OPEN
      BY <1>3, NoSessionOK DEF NoSession, SessionInv
    <2>2. b \in BOOLEAN /\ m = [n EXCEPT !.pc = "new", !.auth = b]
      BY <1>3
    <2> HIDE DEF n, b, m
    <2>3. m \in Session /\ m.pc = "new" /\ m.auth = b /\ m.linked = n.linked /\ m.topics = n.topics
          /\ m.drained = n.drained /\ m.owed = n.owed /\ m.got = n.got /\ m.sending = n.sending
          /\ m.outbox = n.outbox /\ m.closing = n.closing
      BY <2>1, <2>2 DEF Session
    <2> QED BY <2>1, <2>3 DEF b
  <1> HIDE DEF m
  <1>5. SessionInv(m) /\ Told(m)
    <2>1. Fits(m)
      BY <1>3, <1>4, ApiConstants DEF Fits
    <2>2. Placed(m) /\ Settled(m)
      BY <1>4 DEF Placed, Settled, Running
    <2>3. Whole(m)
      BY <1>4 DEF Whole, Way, Begins
    <2>4. Told(m)
      BY <1>4 DEF Told
    <2> QED BY <1>4, <2>1, <2>2, <2>3, <2>4 DEF SessionInv
  <1>6. SessionInv(q) /\ Told(q)
    BY <1>3, <1>4, <1>5, ReplyIsLine, QueueKeeps, QueueTells
  <1>7. q \in Session /\ q.pc = "new" /\ ~q.linked /\ (q.auth <=> ~Token) /\ q.topics = {}
    BY <1>4, ReplyIsLine, QueueEffect
  <1> HIDE DEF q
  <1>8. ses'[a] = q /\ (\A s \in Sessions \ {a} : ses'[s] = Cleaned[s]) /\ ses' \in [Sessions -> Session]
    BY <1>1, <1>2, <1>7, CleanedEffect
  <1>9. phase \in {"up", "join", "emit", "drain", "mark", "wait"}
    BY <1>2 DEF ApiInv, StopInv, Stopped, Phases
  <1>10. Cleaned[a] = NoSession
    BY <1>1, CleanedEffect DEF SessionInv, Placed
  <1>11. ~Cleaned[a].auth /\ Cleaned[a].topics = {} /\ ~Cleaned[a].linked
    BY <1>10 DEF NoSession
  <1>12. Linked' = Linked \ Reaped
    BY <1>1, <1>7, <1>8, <1>11, CleanedEffect DEF Linked
  <1>13. AcceptInv'
    <2>1. Cardinality(Linked') < MaxClients /\ Cardinality(Linked') <= MaxClients
      <3>1. IsFiniteSet(Linked) /\ Linked \ Reaped \in SUBSET Linked
        BY <1>3, FiniteCounts
      <3>2. IsFiniteSet(Linked \ Reaped)
        BY <3>1, FS_Subset
      <3>3. Cardinality(Linked \ Reaped) \in Nat
        BY <3>2, FS_CardinalityType
      <3>4. ~(Cardinality(Linked \ Reaped) >= MaxClients)
        BY <1>2 DEF Full
      <3> QED BY <1>3, <1>12, <3>3, <3>4
    <2>2. \A s \in Sessions : ses'[s].pc = "new" <=> s \in {a}
      <3>1. \A s \in Sessions : ses[s].pc # "new"
        BY <1>2 DEF ApiInv, AcceptInv
      <3> QED BY <1>1, <1>7, <1>8, <3>1, CleanedEffect
    <2>3. accept'.at = "link" /\ accept'.made = {a}
      BY <1>2
    <2>4. accept' \in [at : {"loop", "link", "spawn", "failed", "exited"}, made : SUBSET Sessions]
      BY <1>1, <1>2
    <2> QED BY <1>1, <1>2, <1>7, <1>8, <1>9, <2>1, <2>2, <2>3, <2>4 DEF AcceptInv, MaxClients
  <1>14. CountInv'
    <2>1. \A t : Listeners(t)' = Listeners(t)
      BY <1>1, <1>7, <1>8, <1>11, CleanedEffect DEF Listeners
    <2>2. CountInv /\ phase # "gone"
      BY <1>9 DEF ApiInv
    <2>3. interest' = [t \in Topics |-> Cardinality(Listeners(t)')]
      <3>1. interest = [t \in Topics |-> Cardinality(Listeners(t))]
        BY <2>2 DEF CountInv
      <3> QED BY <1>2, <2>1, <3>1
    <2>4. authed = Cardinality(Known) /\ IsFiniteSet(Known)
      BY <1>3, <2>2, FiniteCounts DEF CountInv
    <2>5. authed' = Cardinality(Known')
      <3>1. CASE Token
        <4>1. Known' = Known
          BY <1>1, <1>7, <1>8, <1>11, <3>1, CleanedEffect DEF Known
        <4> QED BY <1>2, <2>4, <3>1, <4>1
      <3>2. CASE ~Token
        <4>1. Known' = Known \cup {a} /\ a \notin Known
          BY <1>1, <1>7, <1>8, <1>11, <3>2, CleanedEffect DEF Known
        <4>2. Cardinality(Known \cup {a}) = Cardinality(Known) + 1
          BY <2>4, <4>1, FS_AddElement
        <4> QED BY <1>2, <2>4, <3>2, <4>1, <4>2
      <3> QED BY <3>1, <3>2
    <2> QED BY <1>2, <1>3, <2>2, <2>3, <2>5, CountsFollow
  <1>15. DrainInv'
    BY <1>2, <1>9, <1>12 DEF ApiInv, DrainInv
  <1>16. refused' \in 0 .. RefusedMax /\ used' \in Counts
    <2>1. refused \in 0 .. RefusedMax /\ used \in Counts
      BY DEF ApiInv
    <2> QED BY <1>2, <1>3, <2>1 DEF Counts
  <1>17. \A s \in Sessions : SessionInv(ses'[s]) /\ Told(ses'[s])
    BY <1>6, <1>8, CleanedEffect
  <1> QED BY <1>2, <1>8, <1>13, <1>14, <1>15, <1>16, <1>17, AcceptFrame

(* The new session is linked, where the pump and the stop can see it.      *)
LEMMA LinkKeeps ==
    ASSUME ApiInv, Link
    PROVE  ApiInv'
  <1>1. ses \in [Sessions -> Session] /\ server \in Deployments /\ AcceptInv /\ CountInv /\ DrainInv
        /\ refused \in 0 .. RefusedMax /\ used \in Counts /\ MaxClients \in Nat
    BY ApiConstants DEF ApiInv
  <1>2. PICK a \in Sessions : accept.made = {a}
    BY <1>1 DEF AcceptInv, Link
  <1> DEFINE x == ses[a]
             y == [x EXCEPT !.linked = TRUE]
  <1>3. accept.at = "link" /\ accept' = [accept EXCEPT !.at = "spawn"]
        /\ UNCHANGED <<server, interest, authed, refused, results, pump, phase, draining, late, stopSeq, marked, used>>
    BY DEF Link
  <1>4. ses' = [s \in Sessions |-> IF s = a THEN y ELSE ses[s]]
    BY <1>2 DEF Link
  <1>5. x \in Session /\ SessionInv(x) /\ Told(x) /\ x.pc = "new" /\ ~x.linked
    BY <1>1, <1>2, <1>3 DEF ApiInv, AcceptInv
  <1>6. y \in Session /\ y.pc = x.pc /\ y.linked = TRUE /\ y.auth = x.auth /\ y.topics = x.topics
        /\ y.closing = x.closing /\ y.outbox = x.outbox /\ y.sending = x.sending /\ y.drained = x.drained
        /\ y.got = x.got /\ y.owed = x.owed /\ y.since = x.since
    BY <1>5 DEF Session
  <1> HIDE DEF y
  <1>7. SessionInv(y) /\ Told(y)
    <2>1. Fits(y) /\ Whole(y)
      BY <1>5, <1>6 DEF SessionInv, Fits, Whole, Way
    <2>2. Placed(y)
      BY <1>5, <1>6 DEF SessionInv, Placed, Running
    <2>3. Settled(y)
      BY <1>5, <1>6 DEF SessionInv, Settled
    <2>4. Told(y)
      BY <1>5, <1>6, SameTold
    <2> QED BY <1>6, <2>1, <2>2, <2>3, <2>4 DEF SessionInv
  <1>8. ses' \in [Sessions -> Session] /\ ses'[a] = y /\ \A s \in Sessions \ {a} : ses'[s] = ses[s]
    BY <1>1, <1>4, <1>6
  <1>9. \A s \in Sessions : SessionInv(ses'[s]) /\ Told(ses'[s])
    BY <1>7, <1>8 DEF ApiInv
  <1>10. phase # "gone" /\ phase # "reap"
    BY <1>1, <1>3 DEF AcceptInv
  <1>11. Linked' = Linked \cup {a} /\ a \notin Linked
    BY <1>5, <1>6, <1>8 DEF Linked
  <1>12. AcceptInv'
    <2>1. Cardinality(Linked') <= MaxClients
      <3>1. IsFiniteSet(Linked) /\ Cardinality(Linked) \in Nat /\ Cardinality(Linked) < MaxClients
        BY <1>1, <1>3, FiniteCounts DEF AcceptInv
      <3>2. Cardinality(Linked \cup {a}) = Cardinality(Linked) + 1
        BY <1>11, <3>1, FS_AddElement
      <3> QED BY <1>1, <1>11, <3>1, <3>2
    <2>2. accept'.at = "spawn" /\ accept'.made = {a}
          /\ accept' \in [at : {"loop", "link", "spawn", "failed", "exited"}, made : SUBSET Sessions]
      BY <1>1, <1>2, <1>3 DEF AcceptInv
    <2>3. \A s \in Sessions : ses'[s].pc = "new" <=> s \in {a}
      BY <1>1, <1>2, <1>5, <1>6, <1>8 DEF AcceptInv
    <2> QED BY <1>3, <1>6, <1>8, <1>10, <2>1, <2>2, <2>3 DEF AcceptInv, MaxClients
  <1>13. CountInv'
    BY <1>1, <1>3, <1>6, <1>8, <1>10, CountsStay
  <1>14. DrainInv'
    BY <1>1, <1>3, <1>6, <1>8, <1>11 DEF DrainInv, Linked
  <1> QED BY <1>1, <1>3, <1>8, <1>9, <1>12, <1>13, <1>14, AcceptFrame

(* The thread of the new session is started.                               *)
LEMMA SpawnKeeps ==
    ASSUME ApiInv, Spawn
    PROVE  ApiInv'
  <1>1. ses \in [Sessions -> Session] /\ server \in Deployments /\ AcceptInv /\ CountInv /\ DrainInv
        /\ refused \in 0 .. RefusedMax /\ used \in Counts /\ MaxClients \in Nat
    BY ApiConstants DEF ApiInv
  <1>2. PICK a \in Sessions : accept.made = {a}
    BY <1>1 DEF AcceptInv, Spawn
  <1> DEFINE x == ses[a]
             y == [x EXCEPT !.pc = "top"]
  <1>3. accept.at = "spawn" /\ accept' = [at |-> "loop", made |-> {}]
        /\ UNCHANGED <<server, interest, authed, refused, results, pump, phase, draining, late, stopSeq, marked, used>>
    BY DEF Spawn
  <1>4. ses' = [s \in Sessions |-> IF s = a THEN y ELSE ses[s]]
    BY <1>2 DEF Spawn
  <1>5. x \in Session /\ SessionInv(x) /\ Told(x) /\ x.pc = "new" /\ x.linked
    BY <1>1, <1>2, <1>3 DEF ApiInv, AcceptInv
  <1>6. y \in Session /\ y.pc = "top" /\ y.linked = x.linked /\ y.auth = x.auth /\ y.topics = x.topics
        /\ y.closing = x.closing /\ y.outbox = x.outbox /\ y.sending = x.sending /\ y.drained = x.drained
        /\ y.got = x.got /\ y.owed = x.owed /\ y.since = x.since
    BY <1>5 DEF Session, Running
  <1> HIDE DEF y
  <1>7. SessionInv(y) /\ Told(y)
    <2>1. Fits(y) /\ Whole(y)
      BY <1>5, <1>6 DEF SessionInv, Fits, Whole, Way
    <2>2. Placed(y)
      BY <1>5, <1>6 DEF SessionInv, Placed, Running
    <2>3. Settled(y)
      BY <1>5, <1>6 DEF SessionInv, Settled
    <2>4. Told(y)
      BY <1>5, <1>6, SameTold
    <2> QED BY <1>6, <2>1, <2>2, <2>3, <2>4 DEF SessionInv
  <1>8. ses' \in [Sessions -> Session] /\ ses'[a] = y /\ \A s \in Sessions \ {a} : ses'[s] = ses[s]
    BY <1>1, <1>4, <1>6
  <1>9. \A s \in Sessions : SessionInv(ses'[s]) /\ Told(ses'[s])
    BY <1>7, <1>8 DEF ApiInv
  <1>10. phase # "gone" /\ phase # "reap"
    BY <1>1, <1>3 DEF AcceptInv
  <1>11. Linked' = Linked
    BY <1>6, <1>8 DEF Linked
  <1>12. AcceptInv'
    <2>1. accept'.at = "loop" /\ accept'.made = {}
          /\ accept' \in [at : {"loop", "link", "spawn", "failed", "exited"}, made : SUBSET Sessions]
      BY <1>3
    <2>2. \A s \in Sessions : ses'[s].pc # "new"
      BY <1>1, <1>2, <1>6, <1>8 DEF AcceptInv
    <2> QED BY <1>1, <1>3, <1>10, <1>11, <2>1, <2>2 DEF AcceptInv, MaxClients
  <1>13. CountInv'
    BY <1>1, <1>3, <1>6, <1>8, <1>10, CountsStay
  <1>14. DrainInv'
    BY <1>1, <1>3, <1>6, <1>8, <1>11 DEF DrainInv, Linked
  <1> QED BY <1>1, <1>3, <1>8, <1>9, <1>12, <1>13, <1>14, AcceptFrame

(* The thread cannot be started: the session is retired by the accept      *)
(* thread.                                                                 *)
LEMMA SpawnFailsKeeps ==
    ASSUME ApiInv, SpawnFails
    PROVE  ApiInv'
  <1>1. ses \in [Sessions -> Session] /\ server \in Deployments /\ AcceptInv /\ CountInv /\ DrainInv
        /\ refused \in 0 .. RefusedMax /\ used \in Counts
    BY DEF ApiInv
  <1>2. accept.at = "spawn" /\ accept' = [accept EXCEPT !.at = "failed"]
        /\ UNCHANGED <<server, refused, results, pump, phase, draining, late, stopSeq, marked, used>>
    BY DEF SpawnFails
  <1>3. PICK a \in accept.made : /\ ses' = [ses EXCEPT ![a] = [Off(ses[a]) EXCEPT !.cut = TRUE]]
                                 /\ interest' = InterestWithout(ses[a])
                                 /\ authed' = IF ses[a].auth THEN authed - 1 ELSE authed
    BY <1>1 DEF SpawnFails, AcceptInv
  <1>4. a \in Sessions /\ accept.made = {a}
    BY <1>1, <1>2 DEF AcceptInv
  <1> DEFINE x == ses[a]
             y == [Off(x) EXCEPT !.cut = TRUE]
  <1>5. x \in Session /\ SessionInv(x) /\ Told(x) /\ x.pc = "new" /\ x.linked
    BY <1>1, <1>2, <1>4 DEF ApiInv, AcceptInv
  <1>6. y \in Session /\ y.pc = x.pc /\ y.linked = x.linked /\ y.auth = FALSE /\ y.topics = {}
        /\ y.closing = NOW /\ y.outbox = x.outbox /\ y.sending = x.sending /\ y.drained = x.drained
        /\ y.got = x.got /\ y.owed = x.owed /\ y.since = x.since
    BY <1>5 DEF Session, Off
  <1> HIDE DEF y
  <1>7. SessionInv(y) /\ Told(y)
    <2>1. Fits(y) /\ Whole(y)
      BY <1>5, <1>6 DEF SessionInv, Fits, Whole, Way
    <2>2. Placed(y)
      BY <1>5, <1>6 DEF Placed, Running
    <2>3. Settled(y)
      BY <1>6 DEF Settled
    <2>4. Told(y)
      BY <1>5, <1>6, SameTold
    <2> QED BY <1>6, <2>1, <2>2, <2>3, <2>4 DEF SessionInv
  <1>8. ses' \in [Sessions -> Session] /\ ses'[a] = y /\ \A s \in Sessions \ {a} : ses'[s] = ses[s]
    BY <1>1, <1>3, <1>4, <1>6 DEF y
  <1>9. \A s \in Sessions : SessionInv(ses'[s]) /\ Told(ses'[s])
    BY <1>7, <1>8 DEF ApiInv
  <1>10. phase # "gone" /\ phase # "reap"
    BY <1>1, <1>2 DEF AcceptInv
  <1>11. Linked' = Linked
    BY <1>4, <1>5, <1>6, <1>8 DEF Linked
  <1>12. AcceptInv'
    <2>1. accept'.at = "failed" /\ accept'.made = {a}
          /\ accept' \in [at : {"loop", "link", "spawn", "failed", "exited"}, made : SUBSET Sessions]
      BY <1>1, <1>2, <1>4 DEF AcceptInv
    <2>2. \A s \in Sessions : ses'[s].pc = "new" <=> s \in {a}
      BY <1>1, <1>4, <1>5, <1>6, <1>8 DEF AcceptInv
    <2> QED BY <1>1, <1>2, <1>4, <1>5, <1>6, <1>8, <1>10, <1>11, <2>1, <2>2 DEF AcceptInv, MaxClients
  <1>13. CountInv'
    <2>1. Known' = Known \ {a} /\ (a \in Known <=> x.auth)
      BY <1>4, <1>6, <1>8 DEF Known
    <2>2. authed' = Cardinality(Known')
      <3>1. authed = Cardinality(Known) /\ authed' = IF x.auth THEN authed - 1 ELSE authed
        BY <1>1, <1>3, <1>10 DEF CountInv
      <3>2. IsFiniteSet(Known)
        BY <1>1, FiniteCounts
      <3> QED BY <2>1, <3>1, <3>2, FS_RemoveElement
    <2>3. ASSUME NEW t \in Topics
          PROVE  interest'[t] = Cardinality(Listeners(t)')
      <3>1. interest[t] = Cardinality(Listeners(t)) /\ interest'[t] = interest[t] - (IF t \in x.topics THEN 1 ELSE 0)
        BY <1>1, <1>3, <1>10 DEF CountInv, InterestWithout
      <3>2. IsFiniteSet(Listeners(t)) /\ Cardinality(Listeners(t)) \in Nat /\ (a \in Listeners(t) <=> t \in x.topics)
        BY <1>1, <1>4, FiniteCounts, FS_CardinalityType DEF Listeners
      <3>3. Listeners(t)' = Listeners(t) \ {a}
        BY <1>4, <1>6, <1>8 DEF Listeners
      <3>4. Cardinality(Listeners(t) \ {a})
            = IF a \in Listeners(t) THEN Cardinality(Listeners(t)) - 1 ELSE Cardinality(Listeners(t))
        BY <3>2, FS_RemoveElement
      <3> QED BY <3>1, <3>2, <3>3, <3>4
    <2>4. interest' = [t \in Topics |-> Cardinality(Listeners(t)')]
      <3>1. interest' = [t \in Topics |-> interest'[t]]
        BY <1>3 DEF InterestWithout
      <3> QED BY <2>3, <3>1
    <2> QED BY <1>1, <1>2, <1>10, <2>2, <2>4, CountsFollow
  <1>14. DrainInv'
    BY <1>1, <1>2, <1>4, <1>6, <1>8, <1>11 DEF DrainInv, Linked
  <1> QED BY <1>1, <1>2, <1>8, <1>9, <1>12, <1>13, <1>14, AcceptFrame

(* The session without a thread is unlinked and released.                  *)
LEMMA UnlinkKeeps ==
    ASSUME ApiInv, Unlink
    PROVE  ApiInv'
  <1>1. ses \in [Sessions -> Session] /\ server \in Deployments /\ AcceptInv /\ CountInv /\ DrainInv
        /\ refused \in 0 .. RefusedMax /\ used \in Counts /\ MaxClients \in Nat
    BY ApiConstants DEF ApiInv
  <1>2. PICK a \in Sessions : accept.made = {a}
    BY <1>1 DEF AcceptInv, Unlink
  <1>3. accept.at = "failed" /\ accept' = [at |-> "loop", made |-> {}] /\ marked' = marked \ {a}
        /\ UNCHANGED <<server, interest, authed, refused, results, pump, phase, draining, late, stopSeq, used>>
    BY <1>2 DEF Unlink
  <1>4. ses' = [s \in Sessions |-> IF s = a THEN NoSession ELSE ses[s]]
    BY <1>2 DEF Unlink
  <1>5. SessionInv(NoSession) /\ Told(NoSession) /\ NoSession \in Session
    BY <1>1, NoSessionOK DEF SessionInv
  <1>6. SessionInv(ses[a]) /\ ses[a].pc = "new" /\ ses[a].linked /\ ~ses[a].auth
    BY <1>1, <1>2, <1>3 DEF ApiInv, AcceptInv
  <1>7. ses[a].topics = {}
    BY <1>6 DEF SessionInv, Placed
  <1>8. ses' \in [Sessions -> Session] /\ ses'[a] = NoSession /\ \A s \in Sessions \ {a} : ses'[s] = ses[s]
    BY <1>1, <1>4, <1>5
  <1>9. \A s \in Sessions : SessionInv(ses'[s]) /\ Told(ses'[s])
    BY <1>5, <1>8 DEF ApiInv
  <1>10. phase # "gone" /\ phase # "reap"
    BY <1>1, <1>3 DEF AcceptInv
  <1>11. Linked' = Linked \ {a}
    BY <1>8 DEF Linked, NoSession
  <1>12. AcceptInv'
    <2>1. accept'.at = "loop" /\ accept'.made = {}
          /\ accept' \in [at : {"loop", "link", "spawn", "failed", "exited"}, made : SUBSET Sessions]
      BY <1>3
    <2>2. \A s \in Sessions : ses'[s].pc # "new"
      BY <1>1, <1>2, <1>8 DEF AcceptInv, NoSession
    <2>3. Cardinality(Linked') <= MaxClients
      <3>1. IsFiniteSet(Linked) /\ Cardinality(Linked) \in Nat /\ Cardinality(Linked) <= MaxClients
        BY <1>1, FiniteCounts DEF AcceptInv
      <3>2. Cardinality(Linked \ {a}) = IF a \in Linked THEN Cardinality(Linked) - 1 ELSE Cardinality(Linked)
        BY <3>1, FS_RemoveElement
      <3> QED BY <1>1, <1>11, <3>1, <3>2
    <2> QED BY <1>3, <1>10, <2>1, <2>2, <2>3 DEF AcceptInv, MaxClients
  <1>13. CountInv'
    <2>1. \A s \in Sessions : ses'[s].topics = ses[s].topics /\ (ses'[s].auth <=> ses[s].auth)
      <3>1. ses'[a].topics = {} /\ ~ses'[a].auth
        BY <1>8 DEF NoSession
      <3> QED BY <1>6, <1>7, <1>8, <3>1
    <2> QED BY <1>1, <1>3, <1>10, <2>1, CountsStay
  <1>14. DrainInv'
    <2>1. marked \subseteq Linked /\ Linked \subseteq Sessions
      BY <1>1 DEF DrainInv, Linked
    <2> QED BY <1>1, <1>3, <1>8, <1>11, <2>1 DEF DrainInv
  <1> QED BY <1>1, <1>3, <1>8, <1>9, <1>12, <1>13, <1>14, AcceptFrame

(* The accept thread sees the stop and ends.                               *)
LEMMA AcceptExitsKeeps ==
    ASSUME ApiInv, AcceptExits
    PROVE  ApiInv'
  <1>1. ses \in [Sessions -> Session] /\ AcceptInv /\ CountInv /\ DrainInv /\ used \in Counts /\ RefusedMax \in Nat
    BY ApiConstants DEF ApiInv
  <1>2. accept.at = "loop" /\ accept' = [accept EXCEPT !.at = "exited"] /\ refused' = 0
        /\ UNCHANGED <<server, ses, interest, authed, results, pump, phase, draining, late, stopSeq, marked, used>>
    BY DEF AcceptExits
  <1>3. Linked' = Linked
    BY <1>2 DEF Linked
  <1>4. accept'.at = "exited" /\ accept'.made = {}
        /\ accept' \in [at : {"loop", "link", "spawn", "failed", "exited"}, made : SUBSET Sessions]
    BY <1>1, <1>2 DEF AcceptInv
  <1>5. AcceptInv'
    BY <1>1, <1>2, <1>3, <1>4 DEF AcceptInv, MaxClients
  <1>6. CountInv'
    BY <1>1, <1>2 DEF CountInv, Topics, Listeners, Known
  <1>7. DrainInv'
    BY <1>1, <1>2, <1>3 DEF DrainInv
  <1>8. \A s \in Sessions : SessionInv(ses'[s]) /\ Told(ses'[s])
    BY <1>2 DEF ApiInv
  <1>9. refused' \in 0 .. RefusedMax
    BY <1>1, <1>2
  <1> QED BY <1>1, <1>2, <1>5, <1>6, <1>7, <1>8, <1>9, AcceptFrame

(* Every step of the accept thread keeps the invariant.                    *)
LEMMA AcceptStepKeeps ==
    ASSUME ApiInv, AcceptStep
    PROVE  ApiInv'
  BY AcceptLoopKeeps, MakeKeeps, LinkKeeps, SpawnKeeps, SpawnFailsKeeps, UnlinkKeeps, AcceptExitsKeeps DEF AcceptStep

-----------------------------------------------------------------------------
(* The feed and the results.                                               *)

(* A broadcast leaves every session in order, the accept thread and the    *)
(* drain undisturbed, and the counts as they were.                         *)
LEMMA BroadcastKeeps ==
    ASSUME ApiInv, NEW line \in Lines, NEW topic, Broadcast(line, topic)
    PROVE  /\ ses' \in [Sessions -> Session]
           /\ \A s \in Sessions :
                 /\ SessionInv(ses'[s])
                 /\ ses'[s].pc = "new" <=> ses[s].pc = "new"
                 /\ ses'[s].linked <=> ses[s].linked
                 /\ ses'[s].drained <=> ses[s].drained
                 /\ ses'[s].auth <=> ses[s].auth
                 /\ ses'[s].topics = ses[s].topics
                 /\ ses'[s] = ses[s] \/ (Heard(s, topic) /\ ses'[s] = Queue(ses[s], line))
                 /\ Heard(s, topic) => ses'[s] = Queue(ses[s], line)
  <1>1. server \in Deployments /\ ses \in [Sessions -> Session]
    BY DEF ApiInv
  <1>2. ASSUME NEW s \in Sessions
        PROVE  /\ ses'[s] \in Session
               /\ SessionInv(ses'[s])
               /\ ses'[s].pc = ses[s].pc
               /\ ses'[s].linked = ses[s].linked
               /\ ses'[s].drained = ses[s].drained
               /\ ses'[s].auth = ses[s].auth
               /\ ses'[s].topics = ses[s].topics
               /\ ses'[s] = ses[s] \/ (Heard(s, topic) /\ ses'[s] = Queue(ses[s], line))
               /\ Heard(s, topic) => ses'[s] = Queue(ses[s], line)
    <2>1. ses'[s] = IF Heard(s, topic) THEN Queue(ses[s], line) ELSE ses[s]
      BY DEF Broadcast
    <2>2. SessionInv(ses[s]) /\ ses[s] \in Session
      BY <1>1 DEF ApiInv
    <2>3. CASE Heard(s, topic)
      <3>1. ses[s].linked /\ ses[s].closing = OPEN
        BY <2>3 DEF Heard
      <3>2. ses[s].pc # "free" /\ ~ses[s].drained
        BY <2>2, <3>1 DEF SessionInv, Placed, Settled, NoSession, OPEN, AFTER_FLUSH, NOW
      <3> QED BY <1>1, <2>1, <2>2, <2>3, <3>2, QueueKeeps, QueueEffect
    <2>4. CASE ~Heard(s, topic)
      BY <2>1, <2>2, <2>4
    <2> QED BY <2>3, <2>4
  <1>3. ses' \in [Sessions -> Session]
    <2>1. ses' = [s \in Sessions |-> ses'[s]]
      BY DEF Broadcast
    <2> QED BY <1>2, <2>1
  <1> QED BY <1>2, <1>3

(* The decode thread's lines.                                              *)
LEMMA EventKeeps ==
    ASSUME ApiInv, Event
    PROVE  ApiInv'
  <1> DEFINE line == Line("event", used.events + 1, 0)
  <1>1. used \in Counts /\ AcceptInv /\ CountInv /\ DrainInv /\ ses \in [Sessions -> Session]
        /\ refused \in 0 .. RefusedMax
    BY DEF ApiInv
  <1>2. line \in Lines /\ line.type = "event"
    BY <1>1 DEF Counts, Line, Lines
  <1>3. Broadcast(line, "event") /\ phase = "up" /\ used' = [used EXCEPT !.events = @ + 1]
        /\ UNCHANGED <<server, interest, authed, refused, accept, results, pump, phase, draining, late, stopSeq, marked>>
    BY DEF Event
  <1> HIDE DEF line
  <1>4. \A s \in Sessions : SessionInv(ses'[s]) /\ Told(ses'[s])
    <2> SUFFICES ASSUME NEW s \in Sessions PROVE SessionInv(ses'[s]) /\ Told(ses'[s])
      OBVIOUS
    <2>1. Told(ses[s]) /\ ses[s] \in Session
      BY <1>1 DEF ApiInv
    <2>2. ses'[s] = ses[s] \/ ses'[s] = Queue(ses[s], line)
      BY <1>2, <1>3, BroadcastKeeps
    <2>3. Told(Queue(ses[s], line))
      BY <1>2, <2>1, QueueTells
    <2>4. SessionInv(ses'[s])
      BY <1>2, <1>3, BroadcastKeeps
    <2> QED BY <2>1, <2>2, <2>3, <2>4
  <1>5. AcceptInv' /\ DrainInv'
    BY <1>1, <1>2, <1>3, BroadcastKeeps, AcceptAndDrain
  <1>6. CountInv'
    BY <1>1, <1>2, <1>3, BroadcastKeeps, CountsStay
  <1>7. used' \in Counts
    BY <1>1, <1>3 DEF Counts
  <1> QED BY <1>1, <1>2, <1>3, <1>4, <1>5, <1>6, <1>7, BroadcastKeeps, AcceptFrame

(* A result is kept.                                                       *)
LEMMA ResultKeeps ==
    ASSUME ApiInv, NEW ours \in BOOLEAN, Result(ours)
    PROVE  ApiInv'
  <1>1. results' = Append(results, ours) /\ phase # "gone"
        /\ UNCHANGED <<server, ses, interest, authed, refused, accept, pump, phase, draining, late, stopSeq, marked, used>>
    BY DEF Result
  <1>2. results \in Seq(BOOLEAN) /\ PumpInv /\ StopInv
    BY DEF ApiInv, PumpInv
  <1>3. results' \in Seq(BOOLEAN) /\ Newest' = Newest + 1 /\ Newest \in Nat
        /\ \A n \in 1 .. Newest : results'[n] = results[n]
    BY <1>1, <1>2 DEF Newest
  <1>4. PumpInv'
    <2>1. pump.last \in Nat /\ pump.last <= Newest /\ \A i \in 1 .. Len(pump.batch) : pump.batch[i] \in Nat
      BY <1>2 DEF PumpInv
    <2>2. pump.at = "send" => pump.last \in 1 .. Newest
      BY <1>2, <1>3, <2>1 DEF PumpInv
    <2>3. (pump.at = "send" => pump.last > 0 /\ pump.batch[1] = pump.last /\ results[pump.last])'
      BY <1>1, <1>2, <1>3, <2>2 DEF PumpInv
    <2>4. (\A i \in 1 .. Len(pump.batch) : pump.batch[i] = pump.batch[1] + (i - 1) /\ pump.batch[i] <= Newest)'
      <3> SUFFICES ASSUME NEW i \in 1 .. Len(pump.batch)
                   PROVE  pump.batch[i] = pump.batch[1] + (i - 1) /\ pump.batch[i] <= Newest'
        BY <1>1
      <3>1. pump.batch[i] = pump.batch[1] + (i - 1) /\ pump.batch[i] <= Newest /\ pump.batch[i] \in Nat
        BY <1>2, <2>1 DEF PumpInv
      <3> QED BY <1>3, <3>1
    <2>5. (pump.last <= Newest)'
      BY <1>1, <1>3, <2>1
    <2> QED BY <1>1, <1>2, <1>3, <2>3, <2>4, <2>5 DEF PumpInv
  <1>5. StopInv'
    <2>1. stopSeq \in 0 .. Newest
      BY <1>2 DEF StopInv
    <2>2. (stopSeq \in 0 .. Newest)'
      BY <1>1, <1>3, <2>1
    <2> QED BY <1>1, <1>2, <2>2 DEF StopInv, Phases
  <1>6. (\A s \in Sessions : Told(ses[s]))'
    <2> SUFFICES ASSUME NEW s \in Sessions PROVE Told(ses[s])'
      OBVIOUS
    <2>1. Told(ses[s]) /\ ses[s] \in Session /\ pump.last \in Nat /\ pump.last <= Newest
      BY <1>2 DEF ApiInv, PumpInv
    <2>2. ses[s].since \in Nat /\ ses[s].owed \in Seq(Lines)
      BY <2>1 DEF Session
    <2>3. \A n \in ses[s].since + 1 .. pump.last : n \in 1 .. Newest
      BY <1>3, <2>1, <2>2
    <2>4. \A n : Accounted(ses[s].owed, n)' <=> Accounted(ses[s].owed, n)
      BY <1>1 DEF Accounted
    <2>5. ("result" \in ses[s].topics /\ ses[s].closing = OPEN =>
             \A n \in ses[s].since + 1 .. pump.last :
                ~results[n] \/ Accounted(ses[s].owed, n) \/ (pump.at = "send" /\ n = pump.last))'
      BY <1>1, <1>3, <2>1, <2>3, <2>4 DEF Told
    <2>6. (\A k \in 1 .. Len(ses[s].owed) :
             ses[s].owed[k].type = "result" => ses[s].owed[k].seq \in 1 .. Newest /\ results[ses[s].owed[k].seq])'
      <3> SUFFICES ASSUME NEW k \in 1 .. Len(ses[s].owed), ses[s].owed[k].type = "result"
                   PROVE  ses[s].owed[k].seq \in 1 .. Newest' /\ results'[ses[s].owed[k].seq]
        BY <1>1
      <3>1. ses[s].owed[k].seq \in 1 .. Newest /\ results[ses[s].owed[k].seq]
        BY <2>1 DEF Told
      <3> QED BY <1>3, <3>1
    <2> QED BY <2>5, <2>6 DEF Told
  <1>7. (\A s \in Sessions : SessionInv(ses[s]))'
    BY <1>1, NextSessions DEF ApiInv
  <1>8. AcceptInv' /\ CountInv' /\ DrainInv'
    BY <1>1 DEF ApiInv, AcceptInv, CountInv, DrainInv, Linked, MaxClients, Listeners, Known, Topics
  <1>9. (server \in Deployments /\ ses \in [Sessions -> Session] /\ refused \in 0 .. RefusedMax)'
    BY <1>1 DEF ApiInv, Session, Topics, RefusedMax
  <1> QED BY <1>1, <1>4, <1>5, <1>6, <1>7, <1>8, <1>9 DEF ApiInv

Pumps == [at : {"none", "sleep", "fetch", "look", "gap", "send", "joined"}, last : Nat, batch : Seq(Nat), full : BOOLEAN]

(* The result in the pump's hands.                                         *)
LEMMA InHand ==
    ASSUME ApiInv, pump.at \in {"look", "gap", "send"}
    PROVE  /\ pump \in Pumps /\ pump.batch \in Seq(Nat) /\ Len(pump.batch) \in Nat /\ Len(pump.batch) > 0
           /\ Head(pump.batch) = pump.batch[1] /\ pump.batch[1] \in 1 .. Newest
           /\ pump.last \in Nat /\ Newest \in Nat /\ phase \in {"up", "join", "emit"}
           /\ pump.at = "look" => pump.batch[1] > pump.last
           /\ pump.at = "gap" => pump.batch[1] > pump.last + 1
           /\ pump.at = "send" => pump.batch[1] = pump.last /\ results[pump.last]
  <1>1. PumpInv /\ StopInv
    BY DEF ApiInv
  <1>2. pump \in Pumps /\ pump.batch \in Seq(Nat) /\ Len(pump.batch) \in Nat /\ Len(pump.batch) # 0 /\ Newest \in Nat
        /\ pump.last \in Nat
    BY <1>1 DEF PumpInv, Pumps, Newest
  <1>3. Head(pump.batch) = pump.batch[1] /\ pump.batch[1] \in Nat /\ 1 \in 1 .. Len(pump.batch)
    BY <1>2
  <1>4. pump.batch[1] <= Newest
    BY <1>1, <1>3 DEF PumpInv
  <1>5. /\ pump.at = "look" => pump.batch[1] > pump.last
        /\ pump.at = "gap" => pump.batch[1] > pump.last + 1
        /\ pump.at = "send" => pump.last > 0 /\ pump.batch[1] = pump.last /\ results[pump.last]
    BY <1>1 DEF PumpInv
  <1>6. phase \in {"up", "join", "emit"}
    BY <1>1 DEF StopInv, Phases
  <1> QED BY <1>2, <1>3, <1>4, <1>5, <1>6

(* A result is dealt with, and the next is taken up.                       *)
LEMMA ConsumedKeeps ==
    ASSUME ApiInv, pump.at \in {"look", "gap", "send"}, NEW p \in Pumps, p.batch = pump.batch, p.full = pump.full,
           p.last = pump.batch[1], pump' = Consumed(p), results' = results, phase' = phase, stopSeq' = stopSeq
    PROVE  PumpInv' /\ StopInv' /\ pump'.last = pump.batch[1] /\ pump'.at # "send"
  <1> DEFINE b == pump.batch
             q == pump'
  <1>1. b \in Seq(Nat) /\ Len(b) \in Nat /\ Len(b) > 0 /\ b[1] \in 1 .. Newest /\ Newest \in Nat /\ pump.full \in BOOLEAN
        /\ phase \in {"up", "join", "emit"}
    BY InHand DEF Pumps
  <1>0. (~(Len(b) > 1) <=> Len(b) = 1) /\ (~(Len(b) > 1) <=> Len(b) - 1 = 0)
    <2> DEFINE n == Len(b)
    <2>1. n \in Nat /\ n > 0
      BY <1>1
    <2> HIDE DEF n
    <2>2. (~(n > 1) <=> n = 1) /\ (~(n > 1) <=> n - 1 = 0)
      BY <2>1
    <2> QED BY <2>2 DEF n
  <1>2. \A i \in 1 .. Len(b) : b[i] = b[1] + (i - 1) /\ b[i] <= Newest
    BY DEF ApiInv, PumpInv
  <1>3. Tail(b) \in Seq(Nat) /\ Len(Tail(b)) = Len(b) - 1 /\ \A i \in 1 .. Len(Tail(b)) : Tail(b)[i] = b[i + 1]
    BY <1>1
  <1> DEFINE a == IF Len(b) > 1 THEN "look" ELSE IF pump.full THEN "fetch" ELSE "sleep"
             f == pump.full /\ Len(b) > 1
  <1>4. q = [p EXCEPT !.batch = Tail(p.batch), !.full = p.full /\ Len(p.batch) > 1,
                      !.at = IF Len(p.batch) > 1 THEN "look" ELSE IF p.full THEN "fetch" ELSE "sleep"]
    BY DEF Consumed
  <1>5. a \in {"look", "fetch", "sleep"} /\ f \in BOOLEAN
    BY <1>1
  <1>6. /\ a = "look" <=> Len(b) > 1
        /\ a = "sleep" => ~pump.full /\ Len(b) = 1
        /\ f <=> pump.full /\ Len(b) > 1
    <2>1. CASE Len(b) > 1
      BY <1>1, <2>1
    <2>2. CASE ~(Len(b) > 1)
      <3>1. Len(b) = 1
        BY <1>0, <2>2
      <3> QED BY <1>1, <2>2, <3>1
    <2> QED BY <2>1, <2>2
  <1> HIDE DEF a, f, q
  <1>7. q \in Pumps /\ q.batch = Tail(b) /\ q.full = f /\ q.at = a /\ q.last = b[1]
    <2>1. q = [p EXCEPT !.batch = Tail(b), !.full = f, !.at = a]
      BY <1>4 DEF a, f
    <2> QED BY <1>3, <1>5, <2>1 DEF Pumps
  <1> HIDE DEF b
  <1>8. Len(q.batch) = Len(b) - 1 /\ \A i \in 1 .. Len(q.batch) : q.batch[i] = b[i + 1] /\ q.batch[i] <= Newest
    <2>1. \A i \in 1 .. Len(Tail(b)) : i + 1 \in 1 .. Len(b)
      BY <1>1, <1>3
    <2> QED BY <1>2, <1>3, <1>7, <2>1
  <1>9. \A i \in 1 .. Len(q.batch) : q.batch[i] = q.batch[1] + (i - 1)
    <2> SUFFICES ASSUME NEW i \in 1 .. Len(q.batch) PROVE q.batch[i] = q.batch[1] + (i - 1)
      OBVIOUS
    <2>1. i \in Nat /\ 1 \in 1 .. Len(q.batch) /\ i + 1 \in 1 .. Len(b) /\ 2 \in 1 .. Len(b)
      BY <1>1, <1>8
    <2>2. q.batch[i] = b[i + 1] /\ q.batch[1] = b[1 + 1]
      BY <1>8, <2>1
    <2>3. b[i + 1] = b[1] + ((i + 1) - 1) /\ b[2] = b[1] + (2 - 1)
      BY <1>2, <2>1
    <2> QED BY <1>1, <2>1, <2>2, <2>3
  <1>10. a = "look" => q.batch[1] > q.last
    <2> HAVE a = "look"
    <2>1. 1 \in 1 .. Len(q.batch) /\ 2 \in 1 .. Len(b)
      BY <1>1, <1>6, <1>8
    <2>2. q.batch[1] = b[2]
      BY <1>8, <2>1
    <2>3. b[2] = b[1] + (2 - 1)
      BY <1>2, <2>1
    <2>4. b[1] + (2 - 1) > b[1]
      BY <1>1
    <2> QED BY <1>7, <2>2, <2>3, <2>4
  <1>11. PumpInv'
    <2>1. Newest' = Newest /\ results \in Seq(BOOLEAN)
      BY DEF Newest, ApiInv, PumpInv
    <2>2. q.last <= Newest
      BY <1>1, <1>7
    <2>3. q.at \in {"none", "sleep", "fetch", "joined"} <=> Len(q.batch) = 0
      <3>1. a \in {"none", "sleep", "fetch", "joined"} <=> ~(Len(b) > 1)
        BY <1>5, <1>6
      <3>2. ~(Len(b) > 1) <=> Len(b) - 1 = 0
        BY <1>0
      <3> QED BY <1>7, <1>8, <3>1, <3>2
    <2> QED BY <1>5, <1>7, <1>8, <1>9, <1>10, <2>1, <2>2, <2>3 DEF PumpInv, Pumps, q
  <1>12. StopInv'
    <2>1. stopSeq \in 0 .. Newest /\ StopInv
      BY DEF ApiInv, StopInv
    <2>2. phase = "emit" /\ ~pump.full => b[Len(b)] >= stopSeq
      BY <1>1, <2>1 DEF StopInv, b
    <2>3. (stopSeq \in 0 .. Newest)'
      BY <2>1 DEF Newest
    <2>4. phase = "emit" /\ q.at = "sleep" => q.last >= stopSeq
      BY <1>6, <1>7, <2>2
    <2>5. phase = "emit" /\ Len(q.batch) > 0 /\ ~q.full => q.batch[Len(q.batch)] >= stopSeq
      <3> HAVE phase = "emit" /\ Len(q.batch) > 0 /\ ~q.full
      <3>1. Len(b) > 1 /\ ~pump.full /\ Len(q.batch) \in 1 .. Len(q.batch) /\ Len(q.batch) + 1 = Len(b)
        BY <1>1, <1>6, <1>7, <1>8
      <3>2. q.batch[Len(q.batch)] = b[Len(b)]
        BY <1>8, <3>1
      <3> QED BY <2>2, <3>1, <3>2
    <2>6. phase' \in Phases /\ phase' \in {"up", "join", "emit"} /\ q.at \notin {"none", "joined"}
      BY <1>1, <1>5, <1>7 DEF Phases
    <2> QED BY <2>3, <2>4, <2>5, <2>6 DEF StopInv, q
  <1>13. q.last = b[1] /\ q.at # "send"
    BY <1>5, <1>7
  <1> QED BY <1>11, <1>12, <1>13 DEF q, b

(* A step of the pump that queues nothing.                                 *)
LEMMA PumpFrame ==
    ASSUME ApiInv, UNCHANGED <<server, ses, interest, authed, refused, accept, phase, late, marked, used>>,
           PumpInv', StopInv', (\A s \in Sessions : Told(ses[s]))'
    PROVE  ApiInv'
  <1>1. (\A s \in Sessions : SessionInv(ses[s]))'
    BY NextSessions DEF ApiInv
  <1>2. AcceptInv' /\ CountInv' /\ DrainInv'
    BY DEF ApiInv, AcceptInv, CountInv, DrainInv, Linked, MaxClients, Listeners, Known, Topics
  <1>3. (server \in Deployments /\ ses \in [Sessions -> Session] /\ refused \in 0 .. RefusedMax)'
    BY DEF ApiInv, Session, Topics, RefusedMax
  <1> QED BY <1>1, <1>2, <1>3 DEF ApiInv

(* The sessions know all they should while the pump's position stays.      *)
LEMMA PositionStays ==
    ASSUME ApiInv, UNCHANGED <<ses, results>>, pump'.last = pump.last, pump.at # "send"
    PROVE  (\A s \in Sessions : Told(ses[s]))'
  <1>1. \A s \in Sessions : Told(ses[s])
    BY DEF ApiInv
  <1>2. \A s, n : Accounted(ses[s].owed, n)' <=> Accounted(ses[s].owed, n)
    BY DEF Accounted
  <1> QED BY <1>1, <1>2 DEF Told, Newest

(* The pump wakes, or sees the stop and ends.                              *)
LEMMA PumpMovesKeeps ==
    ASSUME ApiInv, PumpWakes \/ PumpExits
    PROVE  ApiInv'
  <1>1. PICK a \in {"fetch", "joined"} : pump' = [pump EXCEPT !.at = a] /\ (a = "joined" => phase = "join")
                                          /\ (a = "fetch" => phase = "up")
    BY DEF PumpWakes, PumpExits, PumpStop
  <1>2. pump.at = "sleep"
        /\ UNCHANGED <<server, ses, interest, authed, refused, accept, results, phase, draining, late, stopSeq, marked, used>>
    BY DEF PumpWakes, PumpExits
  <1>3. PumpInv /\ StopInv
    BY DEF ApiInv
  <1>4. pump' \in Pumps /\ pump'.last = pump.last /\ pump'.batch = pump.batch /\ pump'.full = pump.full /\ pump'.at = a
    BY <1>1, <1>3 DEF PumpInv, Pumps
  <1>5. PumpInv'
    BY <1>2, <1>3, <1>4 DEF PumpInv, Pumps, Newest
  <1>6. StopInv'
    BY <1>1, <1>2, <1>3, <1>4 DEF StopInv, Phases, Newest
  <1>7. (\A s \in Sessions : Told(ses[s]))'
    BY <1>2, <1>4, PositionStays
  <1> QED BY <1>2, <1>5, <1>6, <1>7, PumpFrame

(* What ..._results_since() returns: results in order, after the last, the *)
(* newest among them unless the chunk is full.                             *)
LEMMA SinceEffect ==
    ASSUME ApiInv
    PROVE  LET b == Since(pump.last)
           IN  /\ b \in Seq(Nat) /\ Len(b) \in Nat
               /\ \A i \in 1 .. Len(b) : b[i] = b[1] + (i - 1) /\ b[i] <= Newest
               /\ Len(b) > 0 => b[1] > pump.last
               /\ Len(b) = 0 => pump.last >= Newest
               /\ Len(b) > 0 /\ Len(b) # Chunk => b[Len(b)] = Newest
  <1> DEFINE last == pump.last
             first == IF last + 1 < Oldest THEN Oldest ELSE last + 1
             m == Newest - first + 1
             k == Min({Chunk, m})
             b == [i \in 1 .. k |-> first + i - 1]
  <1>1. last \in Nat /\ Newest \in Nat /\ last <= Newest /\ Chunk \in Nat \ {0} /\ HistoryLen \in Nat \ {0}
    BY ApiConstants DEF ApiInv, PumpInv, Newest
  <1>2. Oldest \in Nat /\ Oldest >= 1 /\ (Oldest <= Newest \/ Oldest = 1)
    BY <1>1 DEF Oldest
  <1>3. first \in Nat /\ first >= last + 1 /\ first <= Newest + 1 /\ (first = Newest + 1 => last >= Newest)
    <2> HIDE DEF last
    <2> QED BY <1>1, <1>2
  <1> HIDE DEF first, last
  <1>4. m \in Nat /\ m = Newest - first + 1
    BY <1>1, <1>3
  <1> HIDE DEF m
  <1>5. k \in {Chunk, m} /\ k <= m /\ k <= Chunk
    <2>1. \E x \in {Chunk, m} : \A y \in {Chunk, m} : x <= y
      BY <1>1, <1>4
    <2>2. k \in {Chunk, m} /\ \A y \in {Chunk, m} : k <= y
      BY <2>1 DEF Min
    <2> QED BY <2>2
  <1> HIDE DEF k
  <1>6. k \in Nat
    BY <1>1, <1>4, <1>5
  <1>7. b \in [1 .. k -> Nat]
    BY <1>3, <1>6
  <1>8. b \in Seq(Nat) /\ Len(b) = k
    BY <1>6, <1>7
  <1>9. \A i \in 1 .. k : b[i] = first + i - 1
    OBVIOUS
  <1>10. Since(pump.last) = b
    BY DEF Since, first, last, m, k
  <1> HIDE DEF b
  <1>11. \A i \in 1 .. Len(b) : b[i] = b[1] + (i - 1) /\ b[i] <= Newest
    <2> SUFFICES ASSUME NEW i \in 1 .. k PROVE b[i] = b[1] + (i - 1) /\ b[i] <= Newest
      BY <1>8
    <2>1. 1 \in 1 .. k /\ i \in Nat
      BY <1>6
    <2>2. b[i] = first + i - 1 /\ b[1] = first + 1 - 1
      BY <1>9, <2>1
    <2> QED BY <1>1, <1>3, <1>4, <1>5, <1>6, <2>2
  <1>12. Len(b) > 0 => b[1] > pump.last
    <2> HAVE Len(b) > 0
    <2>1. 1 \in 1 .. k
      BY <1>6, <1>8
    <2>2. b[1] = first + 1 - 1
      BY <1>9, <2>1
    <2> QED BY <1>1, <1>3, <2>2 DEF last
  <1>13. Len(b) = 0 => last >= Newest
    BY <1>1, <1>3, <1>4, <1>5, <1>8
  <1>14. Len(b) > 0 /\ Len(b) # Chunk => b[Len(b)] = Newest
    <2> HAVE Len(b) > 0 /\ Len(b) # Chunk
    <2>1. k = m /\ k \in 1 .. k
      BY <1>5, <1>6, <1>8
    <2>2. b[k] = first + k - 1
      BY <1>9, <2>1
    <2> QED BY <1>1, <1>3, <1>4, <1>8, <2>1, <2>2
  <1> QED BY <1>6, <1>8, <1>10, <1>11, <1>12, <1>13, <1>14 DEF last

(* The pump reads the results after its position, at most a chunk of them. *)
LEMMA FetchKeeps ==
    ASSUME ApiInv, Fetch
    PROVE  ApiInv'
  <1> DEFINE b == Since(pump.last)
             a == IF b = <<>> THEN "sleep" ELSE "look"
             f == Len(b) = Chunk
  <1>1. pump.at = "fetch" /\ pump' = [pump EXCEPT !.batch = b, !.full = f, !.at = a]
        /\ UNCHANGED <<server, ses, interest, authed, refused, accept, results, phase, draining, late, stopSeq, marked, used>>
    BY DEF Fetch
  <1>2. PumpInv /\ StopInv /\ pump \in Pumps
    BY DEF ApiInv, PumpInv, Pumps
  <1>3. /\ b \in Seq(Nat) /\ Len(b) \in Nat
        /\ \A i \in 1 .. Len(b) : b[i] = b[1] + (i - 1) /\ b[i] <= Newest
        /\ Len(b) > 0 => b[1] > pump.last
        /\ Len(b) = 0 => pump.last >= Newest
        /\ Len(b) > 0 /\ Len(b) # Chunk => b[Len(b)] = Newest
    BY SinceEffect
  <1> HIDE DEF b
  <1>4. (b = <<>> <=> Len(b) = 0) /\ f \in BOOLEAN /\ (f <=> Len(b) = Chunk)
    BY <1>3
  <1>5. a \in {"sleep", "look"} /\ (a = "sleep" <=> Len(b) = 0)
    BY <1>4
  <1> HIDE DEF a, f
  <1>6. pump' \in Pumps /\ pump'.last = pump.last /\ pump'.batch = b /\ pump'.full = f /\ pump'.at = a
    BY <1>1, <1>2, <1>3, <1>4, <1>5 DEF Pumps
  <1>7. Newest' = Newest /\ Newest \in Nat /\ stopSeq \in 0 .. Newest /\ pump.last \in Nat
    BY <1>1, <1>2 DEF Newest, PumpInv, StopInv
  <1>8. PumpInv'
    <2>1. pump'.at \in {"none", "sleep", "fetch", "joined"} <=> Len(pump'.batch) = 0
      BY <1>5, <1>6
    <2>2. pump'.at = "look" => pump'.batch[1] > pump'.last
      BY <1>3, <1>5, <1>6
    <2>3. pump'.at # "gap" /\ pump'.at # "send"
      BY <1>5, <1>6
    <2> QED BY <1>1, <1>2, <1>3, <1>6, <1>7, <2>1, <2>2, <2>3 DEF PumpInv, Pumps
  <1>9. StopInv'
    <2>1. phase \in {"up", "join", "emit"}
      BY <1>1, <1>2 DEF StopInv, Phases
    <2>2. pump'.at = "sleep" => pump'.last >= stopSeq
      BY <1>3, <1>5, <1>6, <1>7
    <2>3. Len(pump'.batch) > 0 /\ ~pump'.full => pump'.batch[Len(pump'.batch)] >= stopSeq
      BY <1>3, <1>4, <1>6, <1>7
    <2>4. pump'.at # "none" /\ pump'.at # "joined"
      BY <1>5, <1>6
    <2> QED BY <1>1, <1>7, <2>1, <2>2, <2>3, <2>4 DEF StopInv, Phases
  <1>10. (\A s \in Sessions : Told(ses[s]))'
    BY <1>1, <1>6, PositionStays
  <1> QED BY <1>1, <1>8, <1>9, <1>10, PumpFrame

(* The pump goes on with the result in its hands.                          *)
LEMMA InHandStays ==
    ASSUME ApiInv, pump.at \in {"look", "gap"}, NEW a \in {"gap", "send"}, NEW l \in Nat,
           pump' = [pump EXCEPT !.at = a, !.last = l], UNCHANGED <<results, phase, stopSeq>>,
           a = "gap" => l = pump.last /\ pump.batch[1] > pump.last + 1,
           a = "send" => l = pump.batch[1] /\ results[l]
    PROVE  PumpInv' /\ StopInv' /\ pump'.at = a /\ pump'.last = l
  <1>1. PumpInv /\ StopInv /\ pump \in Pumps /\ phase \in {"up", "join", "emit"} /\ pump.batch[1] \in 1 .. Newest
        /\ Newest \in Nat /\ pump.last \in Nat /\ Len(pump.batch) > 0
    BY InHand DEF ApiInv
  <1>2. pump' \in Pumps /\ pump'.last = l /\ pump'.batch = pump.batch /\ pump'.full = pump.full /\ pump'.at = a
    BY <1>1 DEF Pumps
  <1>3. PumpInv'
    <2>1. (pump.last <= Newest)'
      BY <1>1, <1>2 DEF PumpInv, Newest
    <2>2. pump'.at \in {"none", "sleep", "fetch", "joined"} <=> Len(pump'.batch) = 0
      BY <1>1, <1>2 DEF PumpInv
    <2>3. pump'.at = "gap" => pump'.batch[1] > pump'.last + 1
      BY <1>2
    <2>4. pump'.at = "send" => pump'.last > 0 /\ pump'.batch[1] = pump'.last /\ results'[pump'.last]
      BY <1>1, <1>2
    <2>5. pump'.at # "look"
      BY <1>2
    <2> QED BY <1>1, <1>2, <2>1, <2>2, <2>3, <2>4, <2>5 DEF PumpInv, Pumps, Newest
  <1>4. StopInv'
    BY <1>1, <1>2 DEF StopInv, Phases, Newest
  <1> QED BY <1>2, <1>3, <1>4

(* A session that asked for results is counted.                            *)
LEMMA ListenerCounted ==
    ASSUME ApiInv, phase # "gone", NEW s \in Sessions, "result" \in ses[s].topics
    PROVE  interest["result"] > 0
  <1>1. ses[s] \in Session /\ CountInv /\ server \in Deployments
    BY DEF ApiInv
  <1>2. "result" \in Topics
    BY <1>1 DEF Session
  <1>3. interest["result"] = Cardinality(Listeners("result")) /\ s \in Listeners("result")
    BY <1>1, <1>2 DEF CountInv, Listeners
  <1>4. IsFiniteSet(Listeners("result")) /\ Cardinality(Listeners("result")) \in Nat
    BY <1>1, FiniteCounts, FS_CardinalityType
  <1>5. Cardinality(Listeners("result")) # 0
    BY <1>3, <1>4, FS_EmptySet
  <1> QED BY <1>3, <1>4, <1>5

(* What is told when the pump's position moves to l and no line is queued. *)
LEMMA PositionMoves ==
    ASSUME ApiInv, pump.at = "look", UNCHANGED <<ses, results>>, NEW l \in Nat, pump'.last = l,
           \A s \in Sessions : "result" \in ses[s].topics =>
              l = pump.last + 1 /\ (~results[l] \/ pump'.at = "send")
    PROVE  (\A s \in Sessions : Told(ses[s]))'
  <1> SUFFICES ASSUME NEW s \in Sessions PROVE Told(ses[s])'
    OBVIOUS
  <1>1. Told(ses[s]) /\ ses[s] \in Session /\ pump.last \in Nat
    BY InHand DEF ApiInv
  <1>2. \A n : Accounted(ses[s].owed, n)' <=> Accounted(ses[s].owed, n)
    BY DEF Accounted
  <1>3. ("result" \in ses[s].topics /\ ses[s].closing = OPEN =>
          \A n \in ses[s].since + 1 .. pump.last :
             ~results[n] \/ Accounted(ses[s].owed, n) \/ (pump.at = "send" /\ n = pump.last))'
    <2> SUFFICES ASSUME "result" \in ses[s].topics, ses[s].closing = OPEN, NEW n \in ses[s].since + 1 .. l
                 PROVE  ~results[n] \/ Accounted(ses[s].owed, n) \/ (pump'.at = "send" /\ n = l)
      BY <1>2
    <2>1. l = pump.last + 1 /\ (~results[l] \/ pump'.at = "send") /\ ses[s].since \in Nat
      BY <1>1 DEF Session
    <2>2. CASE n = l
      BY <2>1, <2>2
    <2>3. CASE n # l
      <3>1. n \in ses[s].since + 1 .. pump.last
        BY <1>1, <2>1, <2>3
      <3> QED BY <1>1, <3>1 DEF Told
    <2> QED BY <2>2, <2>3
  <1>4. (\A k \in 1 .. Len(ses[s].owed) :
          ses[s].owed[k].type = "result" => ses[s].owed[k].seq \in 1 .. Newest /\ results[ses[s].owed[k].seq])'
    BY <1>1 DEF Told, Newest
  <1> QED BY <1>3, <1>4 DEF Told

(* The pump looks at the next result: nobody listens, a gap comes first,   *)
(* or it is to be sent.                                                    *)
LEMMA LookKeeps ==
    ASSUME ApiInv, Look
    PROVE  ApiInv'
  <1> DEFINE r == pump.batch[1]
             heard == interest["result"] > 0
             p == [pump EXCEPT !.last = r]
  <1>1. pump.at = "look"
        /\ UNCHANGED <<server, ses, interest, authed, refused, accept, results, phase, draining, late, stopSeq, marked, used>>
    BY DEF Look
  <1>2. pump \in Pumps /\ Head(pump.batch) = r /\ r \in 1 .. Newest /\ r > pump.last /\ pump.last \in Nat /\ Newest \in Nat
        /\ phase # "gone" /\ pump.at \in {"look", "gap", "send"} /\ pump.at \in {"look", "gap"} /\ r \in Nat
    BY <1>1, InHand
  <1>3. pump' = IF heard /\ r > pump.last + 1 THEN [pump EXCEPT !.at = "gap"]
                ELSE IF heard /\ results[r] THEN [pump EXCEPT !.at = "send", !.last = r]
                ELSE Consumed(p)
    BY <1>2 DEF Look
  <1>4. \A s \in Sessions : "result" \in ses[s].topics => heard
    BY <1>2, ListenerCounted
  <1> HIDE DEF r, heard
  <1>5. CASE heard /\ r > pump.last + 1
    <2>1. pump' = [pump EXCEPT !.at = "gap", !.last = pump.last]
      BY <1>2, <1>3, <1>5 DEF Pumps
    <2>2. PumpInv' /\ StopInv' /\ pump'.last = pump.last
      BY <1>1, <1>2, <1>5, <2>1, InHandStays DEF r
    <2>3. (\A s \in Sessions : Told(ses[s]))'
      BY <1>1, <2>2, PositionStays
    <2> QED BY <1>1, <2>2, <2>3, PumpFrame
  <1>6. CASE ~(heard /\ r > pump.last + 1) /\ heard /\ results[r]
    <2>1. pump' = [pump EXCEPT !.at = "send", !.last = r] /\ r = pump.last + 1
      BY <1>2, <1>3, <1>6
    <2>2. PumpInv' /\ StopInv' /\ pump'.last = r /\ pump'.at = "send"
      BY <1>1, <1>2, <1>6, <2>1, InHandStays DEF r
    <2>3. (\A s \in Sessions : Told(ses[s]))'
      BY <1>1, <1>2, <2>1, <2>2, PositionMoves
    <2> QED BY <1>1, <2>2, <2>3, PumpFrame
  <1>7. CASE ~(heard /\ r > pump.last + 1) /\ ~(heard /\ results[r])
    <2>1. pump' = Consumed(p)
      BY <1>3, <1>7
    <2>2. p \in Pumps /\ p.batch = pump.batch /\ p.full = pump.full /\ p.last = r
      BY <1>2 DEF Pumps
    <2> HIDE DEF p
    <2>3. PumpInv' /\ StopInv' /\ pump'.last = r
      BY <1>1, <1>2, <2>1, <2>2, ConsumedKeeps DEF r
    <2>4. \A s \in Sessions : "result" \in ses[s].topics => r = pump.last + 1 /\ ~results[r]
      BY <1>2, <1>4, <1>7
    <2>5. (\A s \in Sessions : Told(ses[s]))'
      BY <1>1, <1>2, <2>3, <2>4, PositionMoves
    <2> QED BY <1>1, <2>3, <2>5, PumpFrame
  <1> QED BY <1>5, <1>6, <1>7

(* A line of results reaches every session that asked for them.            *)
LEMMA ResultsReach ==
    ASSUME ApiInv, NEW line \in Lines, Broadcast(line, "result"), NEW s \in Sessions
    PROVE  /\ ses'[s].since = ses[s].since
           /\ "result" \in ses'[s].topics /\ ses'[s].closing = OPEN =>
                 "result" \in ses[s].topics /\ ses[s].closing = OPEN /\ ses'[s].owed = Append(ses[s].owed, line)
           /\ \A k \in 1 .. Len(ses'[s].owed) :
                 (k \in 1 .. Len(ses[s].owed) /\ ses'[s].owed[k] = ses[s].owed[k]) \/ ses'[s].owed[k] = line
  <1> DEFINE x == ses[s]
             y == ses'[s]
  <1>1. x \in Session /\ SessionInv(x)
    BY DEF ApiInv
  <1>2. x.owed \in Seq(Lines) /\ Len(x.owed) \in Nat
    BY <1>1 DEF Session
  <1>3. (y = x \/ (Heard(s, "result") /\ y = Queue(x, line))) /\ (Heard(s, "result") => y = Queue(x, line)) /\ y.topics = x.topics
    BY BroadcastKeeps
  <1> HIDE DEF y
  <1>4. y = x \/ (x.closing = OPEN /\ y = Queue(x, line) /\ y.owed = Append(x.owed, line) /\ y.since = x.since)
    <2>1. CASE Heard(s, "result")
      <3>1. x.closing = OPEN /\ x.closing # NOW /\ y = Queue(x, line)
        BY <1>3, <2>1 DEF Heard, OPEN, NOW
      <3> HIDE DEF x
      <3> QED BY <1>1, <3>1, QueueEffect
    <2>2. CASE ~Heard(s, "result")
      BY <1>3, <2>2
    <2> QED BY <2>1, <2>2
  <1>5. y.since = x.since
    BY <1>4
  <1>6. "result" \in y.topics /\ y.closing = OPEN =>
           "result" \in x.topics /\ x.closing = OPEN /\ y.owed = Append(x.owed, line)
    <2> HAVE "result" \in y.topics /\ y.closing = OPEN
    <2>1. "result" \in x.topics /\ x.closing = OPEN
      BY <1>3, <1>4
    <2>2. x.auth /\ x.linked
      BY <1>1, <2>1 DEF SessionInv, Placed
    <2>3. Heard(s, "result")
      BY <2>1, <2>2 DEF Heard
    <2>4. x.closing # NOW /\ y = Queue(x, line)
      BY <1>3, <2>1, <2>3 DEF OPEN, NOW
    <2>5. y.owed = Append(x.owed, line)
      <3> HIDE DEF x
      <3> QED BY <1>1, <2>4, QueueEffect
    <2> QED BY <2>1, <2>5
  <1>7. \A k \in 1 .. Len(y.owed) : (k \in 1 .. Len(x.owed) /\ y.owed[k] = x.owed[k]) \/ y.owed[k] = line
    <2>1. Len(Append(x.owed, line)) = Len(x.owed) + 1 /\ Append(x.owed, line)[Len(x.owed) + 1] = line
          /\ \A k \in 1 .. Len(x.owed) : Append(x.owed, line)[k] = x.owed[k]
      BY <1>2
    <2>2. CASE y.owed = x.owed
      BY <2>2
    <2>3. CASE y.owed = Append(x.owed, line)
      <3> SUFFICES ASSUME NEW k \in 1 .. Len(y.owed)
                   PROVE  (k \in 1 .. Len(x.owed) /\ y.owed[k] = x.owed[k]) \/ y.owed[k] = line
        OBVIOUS
      <3>1. k \in 1 .. Len(x.owed) \/ k = Len(x.owed) + 1
        BY <1>2, <2>1, <2>3
      <3> QED BY <2>1, <2>3, <3>1
    <2> QED BY <1>4, <2>2, <2>3
  <1> QED BY <1>5, <1>6, <1>7 DEF y

(* A step of the pump that queues a line.                                  *)
LEMMA BroadcastFrame ==
    ASSUME ApiInv, NEW line \in Lines, NEW topic, Broadcast(line, topic), phase # "gone",
           UNCHANGED <<server, interest, authed, refused, accept, phase, late, marked, used>>,
           PumpInv', StopInv', (\A s \in Sessions : Told(ses[s]))'
    PROVE  ApiInv'
  <1>1. (\A s \in Sessions : SessionInv(ses[s]))'
    BY BroadcastKeeps, NextSessions
  <1>2. AcceptInv' /\ DrainInv'
    BY BroadcastKeeps, AcceptAndDrain DEF ApiInv
  <1>3. CountInv'
    BY BroadcastKeeps, CountsStay DEF ApiInv
  <1>4. (ses \in [Sessions -> Session])'
    BY BroadcastKeeps DEF Session, Topics
  <1>5. (server \in Deployments /\ refused \in 0 .. RefusedMax)'
    BY DEF ApiInv, RefusedMax
  <1> QED BY <1>1, <1>2, <1>3, <1>4, <1>5 DEF ApiInv

(* The new line accounts for the results it is about.                      *)
LEMMA LineAccounts ==
    ASSUME NEW o \in Seq(Lines), NEW line \in Lines, NEW n \in Nat,
           \/ line.type = "result" /\ line.seq = n
           \/ line.type = "gap" /\ n \in line.seq - line.missed .. line.seq - 1
    PROVE  Accounted(Append(o, line), n)
  <1> DEFINE k == Len(o) + 1
  <1>1. k \in DOMAIN Append(o, line) /\ Append(o, line)[k] = line
    OBVIOUS
  <1> QED BY <1>1 DEF Accounted

(* The pump first tells of the results the history let go of.              *)
LEMMA GapKeeps ==
    ASSUME ApiInv, Gap
    PROVE  ApiInv'
  <1> DEFINE r == pump.batch[1]
             p == [pump EXCEPT !.last = r]
             line == Line("gap", r, r - pump.last - 1)
  <1>1. pump.at = "gap"
        /\ UNCHANGED <<server, interest, authed, refused, accept, results, phase, draining, late, stopSeq, marked, used>>
    BY DEF Gap
  <1>2. pump \in Pumps /\ Head(pump.batch) = r /\ r \in 1 .. Newest /\ r > pump.last + 1 /\ pump.last \in Nat
        /\ Newest \in Nat /\ phase # "gone" /\ pump.at \in {"look", "gap", "send"} /\ pump.at \in {"look", "gap"} /\ r \in Nat
    BY <1>1, InHand
  <1>3. Broadcast(line, "result")
    BY <1>2 DEF Gap
  <1>4. pump' = IF results[r] THEN [p EXCEPT !.at = "send"] ELSE Consumed(p)
    BY <1>2 DEF Gap
  <1> HIDE DEF r
  <1>5. line \in Lines /\ line.type = "gap" /\ line.seq = r /\ line.missed = r - pump.last - 1
    BY <1>2 DEF Line, Lines
  <1>6. p \in Pumps /\ p.batch = pump.batch /\ p.full = pump.full /\ p.last = r
    BY <1>2 DEF Pumps
  <1> HIDE DEF line
  <1>7. PumpInv' /\ StopInv' /\ pump'.last = r /\ (~results[r] \/ pump'.at = "send")
    <2>1. CASE results[r]
      <3>1. pump' = [pump EXCEPT !.at = "send", !.last = r]
        BY <1>2, <1>4, <2>1 DEF Pumps
      <3> QED BY <1>1, <1>2, <2>1, <3>1, InHandStays DEF r
    <2>2. CASE ~results[r]
      <3>1. pump' = Consumed(p)
        BY <1>4, <2>2
      <3> HIDE DEF p
      <3> QED BY <1>1, <1>2, <1>6, <2>2, <3>1, ConsumedKeeps DEF r
    <2> QED BY <2>1, <2>2
  <1>8. (\A s \in Sessions : Told(ses[s]))'
    <2> SUFFICES ASSUME NEW s \in Sessions PROVE Told(ses[s])'
      OBVIOUS
    <2> DEFINE x == ses[s]
               y == ses'[s]
    <2>1. Told(x) /\ x \in Session /\ x.owed \in Seq(Lines) /\ x.since \in Nat
      BY DEF ApiInv, Session
    <2>2. /\ y.since = x.since
          /\ "result" \in y.topics /\ y.closing = OPEN =>
                "result" \in x.topics /\ x.closing = OPEN /\ y.owed = Append(x.owed, line)
          /\ \A k \in 1 .. Len(y.owed) : (k \in 1 .. Len(x.owed) /\ y.owed[k] = x.owed[k]) \/ y.owed[k] = line
      BY <1>3, <1>5, ResultsReach
    <2>3. ASSUME "result" \in y.topics, y.closing = OPEN, NEW n \in y.since + 1 .. r
          PROVE  ~results[n] \/ Accounted(y.owed, n) \/ (pump'.at = "send" /\ n = r)
      <3>1. "result" \in x.topics /\ x.closing = OPEN /\ y.owed = Append(x.owed, line) /\ y.since = x.since
        BY <2>2, <2>3
      <3>2. CASE n = r
        BY <1>7, <3>2
      <3>3. CASE n # r /\ n > pump.last
        <4>1. n \in Nat /\ n \in line.seq - line.missed .. line.seq - 1
          BY <1>2, <1>5, <2>1, <3>1, <3>3
        <4>2. Accounted(Append(x.owed, line), n)
          BY <1>5, <2>1, <4>1, LineAccounts
        <4> QED BY <3>1, <4>2
      <3>4. CASE n <= pump.last
        <4>1. n \in x.since + 1 .. pump.last
          BY <1>2, <2>1, <3>1, <3>4
        <4>2. ~results[n] \/ Accounted(x.owed, n)
          BY <1>1, <2>1, <3>1, <4>1 DEF Told
        <4>3. Accounted(x.owed, n) => Accounted(Append(x.owed, line), n)
          BY <2>1, AccountedStays
        <4> QED BY <3>1, <4>2, <4>3
      <3> QED BY <1>2, <2>1, <3>1, <3>2, <3>3, <3>4
    <2>4. ASSUME NEW k \in 1 .. Len(y.owed), y.owed[k].type = "result"
          PROVE  y.owed[k].seq \in 1 .. Newest /\ results[y.owed[k].seq]
      <3>1. k \in 1 .. Len(x.owed) /\ y.owed[k] = x.owed[k]
        BY <1>5, <2>2, <2>4
      <3> QED BY <2>1, <2>4, <3>1 DEF Told
    <2>5. Newest' = Newest
      BY <1>1 DEF Newest
    <2>6. \A n : Accounted(ses[s].owed, n)' <=> Accounted(y.owed, n)
      BY DEF Accounted
    <2> QED BY <1>1, <1>7, <2>3, <2>4, <2>5, <2>6 DEF Told
  <1> QED BY <1>1, <1>2, <1>3, <1>5, <1>7, <1>8, BroadcastFrame

(* The pump sends the result to the sessions that listen.                  *)
LEMMA SendKeeps ==
    ASSUME ApiInv, Send
    PROVE  ApiInv'
  <1> DEFINE r == pump.batch[1]
             line == Line("result", r, 0)
  <1>1. pump.at = "send" /\ pump' = Consumed(pump)
        /\ UNCHANGED <<server, interest, authed, refused, accept, results, phase, draining, late, stopSeq, marked, used>>
    BY DEF Send
  <1>2. pump \in Pumps /\ Head(pump.batch) = r /\ r \in 1 .. Newest /\ r = pump.last /\ results[r] /\ pump.last \in Nat
        /\ Newest \in Nat /\ phase # "gone" /\ pump.at \in {"look", "gap", "send"} /\ r \in Nat
    BY <1>1, InHand
  <1>3. Broadcast(line, "result")
    BY <1>2 DEF Send
  <1>4. PumpInv' /\ StopInv' /\ pump'.last = r
    <2>1. pump.last = pump.batch[1]
      BY <1>2
    <2> HIDE DEF r
    <2> QED BY <1>1, <1>2, <2>1, ConsumedKeeps DEF r
  <1> HIDE DEF r
  <1>5. line \in Lines /\ line.type = "result" /\ line.seq = r
    BY <1>2 DEF Line, Lines
  <1> HIDE DEF line
  <1>6. (\A s \in Sessions : Told(ses[s]))'
    <2> SUFFICES ASSUME NEW s \in Sessions PROVE Told(ses[s])'
      OBVIOUS
    <2> DEFINE x == ses[s]
               y == ses'[s]
    <2>1. Told(x) /\ x \in Session /\ x.owed \in Seq(Lines) /\ x.since \in Nat
      BY DEF ApiInv, Session
    <2>2. /\ y.since = x.since
          /\ "result" \in y.topics /\ y.closing = OPEN =>
                "result" \in x.topics /\ x.closing = OPEN /\ y.owed = Append(x.owed, line)
          /\ \A k \in 1 .. Len(y.owed) : (k \in 1 .. Len(x.owed) /\ y.owed[k] = x.owed[k]) \/ y.owed[k] = line
      BY <1>3, <1>5, ResultsReach
    <2>3. ASSUME "result" \in y.topics, y.closing = OPEN, NEW n \in y.since + 1 .. r
          PROVE  ~results[n] \/ Accounted(y.owed, n)
      <3>1. "result" \in x.topics /\ x.closing = OPEN /\ y.owed = Append(x.owed, line) /\ y.since = x.since
        BY <2>2, <2>3
      <3>2. CASE n = r
        <4>1. Accounted(Append(x.owed, line), n)
          BY <1>2, <1>5, <2>1, <3>2, LineAccounts
        <4> QED BY <3>1, <4>1
      <3>3. CASE n # r
        <4>1. n \in x.since + 1 .. pump.last /\ n # pump.last
          BY <1>2, <3>1, <3>3
        <4>2. ~results[n] \/ Accounted(x.owed, n)
          BY <2>1, <3>1, <4>1 DEF Told
        <4>3. Accounted(x.owed, n) => Accounted(Append(x.owed, line), n)
          BY <2>1, AccountedStays
        <4> QED BY <3>1, <4>2, <4>3
      <3> QED BY <3>2, <3>3
    <2>4. ASSUME NEW k \in 1 .. Len(y.owed), y.owed[k].type = "result"
          PROVE  y.owed[k].seq \in 1 .. Newest /\ results[y.owed[k].seq]
      <3>1. CASE y.owed[k] = line
        BY <1>2, <1>5, <3>1
      <3>2. CASE k \in 1 .. Len(x.owed) /\ y.owed[k] = x.owed[k]
        BY <2>1, <2>4, <3>2 DEF Told
      <3> QED BY <2>2, <3>1, <3>2
    <2>5. Newest' = Newest
      BY <1>1 DEF Newest
    <2>6. \A n : Accounted(ses[s].owed, n)' <=> Accounted(y.owed, n)
      BY DEF Accounted
    <2> QED BY <1>1, <1>4, <2>3, <2>4, <2>5, <2>6 DEF Told
  <1> QED BY <1>1, <1>2, <1>3, <1>4, <1>5, <1>6, BroadcastFrame

(* Every step of the pump keeps the invariant.                             *)
LEMMA PumpStepKeeps ==
    ASSUME ApiInv, PumpStep
    PROVE  ApiInv'
  BY PumpMovesKeeps, FetchKeeps, LookKeeps, GapKeeps, SendKeeps DEF PumpStep

-----------------------------------------------------------------------------
(* The stop, and the next start.                                           *)

(* The stop begins: the newest result is the one its last emission must    *)
(* reach.                                                                  *)
LEMMA StopKeeps ==
    ASSUME ApiInv, Stop
    PROVE  ApiInv'
  <1>1. phase = "up" /\ phase' = "join" /\ stopSeq' = Newest
        /\ UNCHANGED <<server, ses, interest, authed, refused, accept, results, pump, draining, late, marked, used>>
    BY DEF Stop
  <1>2. Newest' = Newest /\ Newest \in Nat
    BY <1>1 DEF Newest, ApiInv, PumpInv
  <1>3. StopInv'
    BY <1>1, <1>2 DEF ApiInv, StopInv, Phases
  <1>4. PumpInv'
    BY <1>1, <1>2 DEF ApiInv, PumpInv
  <1>5. (\A s \in Sessions : Told(ses[s]))'
    BY <1>1, NextTold DEF ApiInv
  <1>6. (\A s \in Sessions : SessionInv(ses[s]))'
    BY <1>1, NextSessions DEF ApiInv
  <1>7. AcceptInv' /\ CountInv' /\ DrainInv'
    BY <1>1 DEF ApiInv, AcceptInv, CountInv, DrainInv, Linked, MaxClients, Listeners, Known, Topics
  <1>8. (server \in Deployments /\ ses \in [Sessions -> Session] /\ refused \in 0 .. RefusedMax)'
    BY <1>1 DEF ApiInv, Session, Topics, RefusedMax
  <1> QED BY <1>1, <1>3, <1>4, <1>5, <1>6, <1>7, <1>8 DEF ApiInv

(* The stop has joined the pump and takes its place for the last emission. *)
LEMMA JoinPumpKeeps ==
    ASSUME ApiInv, JoinPump
    PROVE  ApiInv'
  <1>1. phase = "join" /\ phase' = "emit" /\ pump.at \in {"joined", "none"} /\ pump' = [pump EXCEPT !.at = "fetch"]
        /\ UNCHANGED <<server, ses, interest, authed, refused, accept, results, draining, late, stopSeq, marked, used>>
    BY DEF JoinPump
  <1>2. PumpInv /\ StopInv
    BY DEF ApiInv
  <1>3. pump' \in Pumps /\ pump'.last = pump.last /\ pump'.batch = pump.batch /\ pump'.full = pump.full /\ pump'.at = "fetch"
        /\ Len(pump.batch) = 0
    BY <1>1, <1>2 DEF PumpInv, Pumps
  <1>4. PumpInv'
    BY <1>1, <1>2, <1>3 DEF PumpInv, Pumps, Newest
  <1>5. StopInv'
    BY <1>1, <1>2, <1>3 DEF StopInv, Phases, Newest
  <1>6. (\A s \in Sessions : Told(ses[s]))'
    BY <1>1, <1>3, PositionStays
  <1>7. (\A s \in Sessions : SessionInv(ses[s]))'
    BY <1>1, NextSessions DEF ApiInv
  <1>8. AcceptInv' /\ CountInv' /\ DrainInv'
    BY <1>1 DEF ApiInv, AcceptInv, CountInv, DrainInv, Linked, MaxClients, Listeners, Known, Topics
  <1>9. (server \in Deployments /\ ses \in [Sessions -> Session] /\ refused \in 0 .. RefusedMax)'
    BY <1>1 DEF ApiInv, Session, Topics, RefusedMax
  <1> QED BY <1>1, <1>4, <1>5, <1>6, <1>7, <1>8, <1>9 DEF ApiInv

(* The steps of the stop that leave the sessions alone.                    *)
LEMMA StopMovesKeeps ==
    ASSUME ApiInv, Emitted \/ SetDraining \/ AllDrained \/ Deadline \/ JoinAccept
    PROVE  ApiInv'
  <1>1. UNCHANGED <<server, ses, interest, authed, refused, accept, results, pump, stopSeq, marked, used>>
    BY DEF Emitted, SetDraining, AllDrained, Deadline, JoinAccept
  <1>2. \/ phase = "emit" /\ pump.at = "sleep" /\ phase' = "drain" /\ late' = late
        \/ phase = "drain" /\ phase' = "mark" /\ late' = late
        \/ phase = "wait" /\ phase' = "stop" /\ late' = late /\ \A s \in Linked : ses[s].drained
        \/ phase = "wait" /\ phase' = "stop" /\ late' = TRUE
        \/ phase = "stop" /\ phase' = "reap" /\ late' = late /\ accept.at = "exited"
    BY DEF Emitted, SetDraining, AllDrained, Deadline, JoinAccept
  <1>3. StopInv'
    BY <1>1, <1>2 DEF ApiInv, StopInv, Phases, Newest
  <1>4. PumpInv'
    BY <1>1 DEF ApiInv, PumpInv, Newest
  <1>5. (\A s \in Sessions : Told(ses[s]))'
    BY <1>1, NextTold DEF ApiInv
  <1>6. (\A s \in Sessions : SessionInv(ses[s]))'
    BY <1>1, NextSessions DEF ApiInv
  <1>7. AcceptInv'
    BY <1>1, <1>2 DEF ApiInv, AcceptInv, Linked, MaxClients
  <1>8. CountInv'
    BY <1>1, <1>2 DEF ApiInv, CountInv, Listeners, Known, Topics
  <1>9. DrainInv'
    BY <1>1, <1>2 DEF ApiInv, DrainInv, Linked
  <1>10. (server \in Deployments /\ ses \in [Sessions -> Session] /\ refused \in 0 .. RefusedMax)'
    BY <1>1 DEF ApiInv, Session, Topics, RefusedMax
  <1> QED BY <1>1, <1>3, <1>4, <1>5, <1>6, <1>7, <1>8, <1>9, <1>10 DEF ApiInv

(* The stop marks the linked sessions to close once they are flushed.      *)
LEMMA MarkKeeps ==
    ASSUME ApiInv, Mark
    PROVE  ApiInv'
  <1>1. phase = "mark" /\ phase' = "wait" /\ marked' = Linked
        /\ UNCHANGED <<server, interest, authed, refused, accept, results, pump, draining, late, stopSeq, used>>
        /\ ses' = [s \in Sessions |-> IF ses[s].linked THEN Closed(ses[s], AFTER_FLUSH) ELSE ses[s]]
    BY DEF Mark
  <1>2. ses \in [Sessions -> Session] /\ CountInv /\ AcceptInv /\ DrainInv
    BY DEF ApiInv
  <1>3. ASSUME NEW s \in Sessions
        PROVE  /\ ses'[s] \in Session /\ SessionInv(ses'[s]) /\ Told(ses'[s]) /\ ses'[s].pc = ses[s].pc
               /\ (ses'[s].linked <=> ses[s].linked) /\ (ses[s].drained <=> ses'[s].drained)
               /\ (ses'[s].auth <=> ses[s].auth) /\ ses'[s].topics = ses[s].topics
    <2>1. SessionInv(ses[s]) /\ Told(ses[s]) /\ ses[s] \in Session
      BY <1>2 DEF ApiInv
    <2>2. CASE ses[s].linked
      <3>1. ses[s].pc # "free"
        BY <2>1, <2>2 DEF SessionInv, Placed, NoSession
      <3>2. ses'[s] = Closed(ses[s], AFTER_FLUSH)
        BY <1>1, <2>2
      <3> QED BY <2>1, <3>1, <3>2, ClosedKeeps DEF SessionInv
    <2>3. CASE ~ses[s].linked
      BY <1>1, <2>1, <2>3
    <2> QED BY <2>2, <2>3
  <1>4. (ses \in [Sessions -> Session])'
    <2>1. ses' \in [Sessions -> Session]
      <3>1. ses' = [s \in Sessions |-> ses'[s]]
        BY <1>1
      <3> QED BY <1>3, <3>1
    <2> QED BY <1>1, <2>1 DEF Session, Topics
  <1>5. (\A s \in Sessions : SessionInv(ses[s]))'
    BY <1>1, <1>3, NextSessions
  <1>6. (\A s \in Sessions : Told(ses[s]))'
    BY <1>1, <1>3, NextTold
  <1>7. Linked' = Linked
    BY <1>3 DEF Linked
  <1>8. DrainInv'
    BY <1>1, <1>7 DEF DrainInv
  <1>9. AcceptInv'
    BY <1>1, <1>2, <1>3, <1>7 DEF AcceptInv, MaxClients
  <1>10. Known' = Known /\ \A t : Listeners(t)' = Listeners(t)
    BY <1>3 DEF Known, Listeners
  <1>11. CountInv'
    BY <1>1, <1>2, <1>10 DEF CountInv, Topics
  <1>12. PumpInv' /\ StopInv'
    BY <1>1 DEF ApiInv, PumpInv, StopInv, Phases, Newest
  <1>13. (server \in Deployments /\ refused \in 0 .. RefusedMax)'
    BY <1>1 DEF ApiInv, RefusedMax
  <1> QED BY <1>1, <1>4, <1>5, <1>6, <1>8, <1>9, <1>11, <1>12, <1>13 DEF ApiInv

(* Every session has ended and is released by the stop.                    *)
LEMMA ReapAllKeeps ==
    ASSUME ApiInv, ReapAll
    PROVE  ApiInv'
  <1>1. phase = "reap" /\ phase' = "gone" /\ marked' = {} /\ interest' = [t \in Topics |-> 0]
        /\ UNCHANGED <<server, authed, refused, accept, results, pump, draining, late, stopSeq, used>>
        /\ ses' = [s \in Sessions |-> IF ses[s].linked THEN NoSession ELSE ses[s]]
    BY DEF ReapAll
  <1>2. server \in Deployments /\ AcceptInv /\ CountInv /\ accept.at = "exited" /\ accept.made = {} /\ MaxClients \in Nat
        /\ Cardinality(Sessions) \in Nat
    BY <1>1, ApiConstants, FiniteCounts DEF ApiInv, AcceptInv
  <1>3. ASSUME NEW s \in Sessions
        PROVE  ses'[s] = NoSession
    <2>1. SessionInv(ses[s]) /\ ses[s].pc # "new"
      BY <1>2 DEF ApiInv, AcceptInv
    <2>2. CASE ~ses[s].linked
      <3>1. ses[s].pc = "free"
        BY <2>1, <2>2 DEF SessionInv, Placed, Session
      <3> QED BY <1>1, <2>1, <2>2, <3>1 DEF SessionInv, Placed
    <2> QED BY <1>1, <2>2
  <1>4. SessionInv(NoSession) /\ Told(NoSession) /\ NoSession \in Session
    BY <1>2, NoSessionOK DEF SessionInv
  <1>5. (ses \in [Sessions -> Session])'
    <2>1. ses' \in [Sessions -> Session]
      <3>1. ses' = [s \in Sessions |-> ses'[s]]
        BY <1>1
      <3> QED BY <1>3, <1>4, <3>1
    <2> QED BY <1>1, <2>1 DEF Session, Topics
  <1>6. (\A s \in Sessions : SessionInv(ses[s]))'
    BY <1>1, <1>3, <1>4, NextSessions
  <1>7. (\A s \in Sessions : Told(ses[s]))'
    BY <1>1, <1>3, <1>4, NextTold
  <1>8. NoSession.pc = "free" /\ ~NoSession.linked
    BY DEF NoSession
  <1>9. Linked' = {}
    BY <1>3, <1>8 DEF Linked
  <1>10. AcceptInv'
    <2>1. Cardinality(Linked') <= MaxClients
      BY <1>2, <1>9, FS_EmptySet
    <2>2. \A s \in Sessions : ses'[s].pc # "new"
      BY <1>3, <1>8
    <2> QED BY <1>1, <1>2, <2>1, <2>2 DEF AcceptInv, MaxClients
  <1>11. CountInv'
    BY <1>1, <1>2, <1>3 DEF CountInv, Topics
  <1>12. DrainInv'
    BY <1>1 DEF DrainInv
  <1>13. PumpInv' /\ StopInv'
    BY <1>1 DEF ApiInv, PumpInv, StopInv, Phases, Newest
  <1>14. (server \in Deployments /\ refused \in 0 .. RefusedMax)'
    BY <1>1 DEF ApiInv, RefusedMax
  <1> QED BY <1>1, <1>5, <1>6, <1>7, <1>10, <1>11, <1>12, <1>13, <1>14 DEF ApiInv

(* The server is started (again).                                          *)
LEMMA StartKeeps ==
    ASSUME ApiInv, Start
    PROVE  ApiInv'
  <1>1. phase = "gone" /\ phase' = "up" /\ late' = FALSE /\ stopSeq' = 0 /\ interest' = [t \in Topics |-> 0]
        /\ authed' = 0 /\ refused' = 0 /\ accept' = [at |-> "loop", made |-> {}] /\ UNCHANGED <<server, ses, results, marked>>
    BY DEF Start
  <1>2. PICK a \in {"sleep", "none"} : pump' = [at |-> a, last |-> Newest, batch |-> <<>>, full |-> FALSE]
    BY DEF Start
  <1>3. used' \in Counts
    BY DEF Start, ApiInv, Counts
  <1>4. server \in Deployments /\ MaxClients \in Nat /\ RefusedMax \in Nat /\ Cardinality(Sessions) \in Nat
        /\ \A s \in Sessions : ses[s] = NoSession
    BY <1>1, ApiConstants, FiniteCounts DEF ApiInv, CountInv
  <1>5. NoSession.pc = "free" /\ ~NoSession.linked /\ ~NoSession.auth /\ NoSession.topics = {} /\ NoSession.owed = <<>>
    BY DEF NoSession
  <1>6. Linked' = {} /\ Known' = {} /\ \A t : Listeners(t)' = {}
    BY <1>1, <1>4, <1>5 DEF Linked, Known, Listeners
  <1>7. Cardinality({}) = 0
    BY FS_EmptySet
  <1>8. Newest' = Newest /\ Newest \in Nat /\ results \in Seq(BOOLEAN)
    BY <1>1 DEF ApiInv, PumpInv, Newest
  <1>9. pump' \in Pumps /\ pump'.last = Newest /\ pump'.batch = <<>> /\ pump'.at = a
    BY <1>2, <1>8 DEF Pumps
  <1>10. PumpInv'
    BY <1>1, <1>8, <1>9 DEF PumpInv, Pumps
  <1>11. StopInv'
    BY <1>1, <1>8, <1>9 DEF StopInv, Phases
  <1>12. AcceptInv'
    <2>1. \A s \in Sessions : ses'[s].pc # "new"
      BY <1>1, <1>4, <1>5
    <2>2. accept'.at = "loop" /\ accept'.made = {}
          /\ accept' \in [at : {"loop", "link", "spawn", "failed", "exited"}, made : SUBSET Sessions]
      BY <1>1
    <2> QED BY <1>1, <1>4, <1>6, <1>7, <2>1, <2>2 DEF AcceptInv, MaxClients
  <1>13. CountInv'
    <2>1. \A t \in Topics : interest'[t] = 0
      BY <1>1
    <2>2. interest' \in [Topics -> 0 .. Cardinality(Sessions)] /\ authed' \in 0 .. Cardinality(Sessions)
      BY <1>1, <1>4
    <2> QED BY <1>1, <1>6, <1>7, <2>1, <2>2 DEF CountInv, Topics
  <1>14. DrainInv'
    <2>1. marked \subseteq Linked /\ Linked = {}
      BY <1>4, <1>5 DEF ApiInv, DrainInv, Linked
    <2> QED BY <1>1, <2>1 DEF DrainInv
  <1>15. (\A s \in Sessions : SessionInv(ses[s]))'
    BY <1>1, NextSessions DEF ApiInv
  <1>16. (\A s \in Sessions : Told(ses[s]))'
    BY <1>1, <1>4, <1>5 DEF Told
  <1>17. (server \in Deployments /\ ses \in [Sessions -> Session] /\ refused \in 0 .. RefusedMax)'
    BY <1>1, <1>4 DEF ApiInv, Session, Topics, RefusedMax
  <1> QED BY <1>3, <1>10, <1>11, <1>12, <1>13, <1>14, <1>15, <1>16, <1>17 DEF ApiInv

-----------------------------------------------------------------------------
(* The server that was not started satisfies the invariant.                *)
LEMMA ApiInitially ==
    ASSUME Init
    PROVE  ApiInv
  <1>1. /\ server \in Deployments /\ ses = [s \in Sessions |-> NoSession] /\ interest = [t \in Topics |-> 0]
        /\ authed = 0 /\ refused = 0 /\ accept = [at |-> "loop", made |-> {}] /\ results = <<>>
        /\ phase = "up" /\ late = FALSE /\ stopSeq = 0 /\ marked = {}
    BY DEF Init
  <1>2. PICK a \in {"sleep", "none"} : pump = [at |-> a, last |-> 0, batch |-> <<>>, full |-> FALSE]
    BY DEF Init
  <1>3. used \in Counts
    BY DEF Init, Counts
  <1>4. MaxClients \in Nat /\ RefusedMax \in Nat /\ Cardinality(Sessions) \in Nat
    BY <1>1, ApiConstants, FiniteCounts
  <1>5. SessionInv(NoSession) /\ Told(NoSession) /\ NoSession \in Session
    BY <1>1, NoSessionOK DEF SessionInv
  <1>6. NoSession.pc = "free" /\ ~NoSession.linked /\ ~NoSession.auth /\ NoSession.topics = {}
    BY DEF NoSession
  <1>7. \A s \in Sessions : ses[s] = NoSession
    BY <1>1
  <1>8. Linked = {} /\ Known = {} /\ \A t : Listeners(t) = {}
    BY <1>6, <1>7 DEF Linked, Known, Listeners
  <1>9. Cardinality({}) = 0
    BY FS_EmptySet
  <1>10. Newest = 0 /\ results \in Seq(BOOLEAN)
    BY <1>1 DEF Newest
  <1>11. pump \in Pumps /\ pump.last = 0 /\ pump.batch = <<>> /\ pump.at = a
    BY <1>2 DEF Pumps
  <1>12. PumpInv
    BY <1>10, <1>11 DEF PumpInv, Pumps
  <1>13. StopInv
    BY <1>1, <1>10, <1>11 DEF StopInv, Phases
  <1>14. AcceptInv
    <2>1. \A s \in Sessions : ses[s].pc # "new"
      BY <1>6, <1>7
    <2>2. accept.at = "loop" /\ accept.made = {}
          /\ accept \in [at : {"loop", "link", "spawn", "failed", "exited"}, made : SUBSET Sessions]
      BY <1>1
    <2> QED BY <1>1, <1>4, <1>8, <1>9, <2>1, <2>2 DEF AcceptInv
  <1>15. CountInv
    <2>1. \A t \in Topics : interest[t] = 0
      BY <1>1
    <2>2. interest \in [Topics -> 0 .. Cardinality(Sessions)] /\ authed \in 0 .. Cardinality(Sessions)
      BY <1>1, <1>4
    <2> QED BY <1>1, <1>8, <1>9, <2>1, <2>2 DEF CountInv
  <1>16. DrainInv
    BY <1>1 DEF DrainInv
  <1>17. ses \in [Sessions -> Session] /\ refused \in 0 .. RefusedMax
    BY <1>1, <1>4, <1>5
  <1> QED BY <1>1, <1>3, <1>5, <1>7, <1>12, <1>13, <1>14, <1>15, <1>16, <1>17 DEF ApiInv

(* The induction step, action by action.                                   *)
LEMMA ApiStep ==
    ASSUME ApiInv, [Next]_vars
    PROVE  ApiInv'
  <1>1. CASE UNCHANGED vars
    <2>1. UNCHANGED <<server, ses, interest, authed, refused, accept, results, pump, phase, late, stopSeq, marked, used>>
      BY <1>1 DEF vars
    <2>2. PumpInv' /\ StopInv'
      BY <2>1, PumpAndStop DEF ApiInv
    <2>3. (\A s \in Sessions : Told(ses[s]))'
      BY <2>1, NextTold DEF ApiInv
    <2> QED BY <2>1, <2>2, <2>3, PumpFrame
  <1>2. CASE \E s \in Sessions : SessionStep(s)
    BY <1>2, SessionStepKeeps
  <1>3. CASE AcceptStep
    BY <1>3, AcceptStepKeeps
  <1>4. CASE PumpStep
    BY <1>4, PumpStepKeeps
  <1>5. CASE Event \/ \E ours \in BOOLEAN : Result(ours)
    BY <1>5, EventKeeps, ResultKeeps
  <1>6. CASE Stop \/ StopStep
    BY <1>6, StopKeeps, JoinPumpKeeps, StopMovesKeeps, MarkKeeps, ReapAllKeeps DEF StopStep
  <1>7. CASE Start
    BY <1>7, StartKeeps
  <1>8. CASE Gone
    BY <1>1, <1>8 DEF Gone
  <1> QED BY <1>1, <1>2, <1>3, <1>4, <1>5, <1>6, <1>7, <1>8 DEF Next

(* The invariant contains what the run checks.                             *)
LEMMA StreamsFollow ==
    ASSUME ApiInv
    PROVE  StreamsRight
  <1>1. server \in Deployments /\ ses \in [Sessions -> Session] /\ refused \in 0 .. RefusedMax
        /\ AcceptInv /\ CountInv /\ PumpInv /\ StopInv /\ DrainInv
        /\ \A s \in Sessions : ses[s] \in Session /\ SessionInv(ses[s]) /\ Told(ses[s])
    BY DEF ApiInv
  <1>2. TypeOK
    <2>1. ASSUME NEW s \in Sessions
          PROVE  /\ ses[s].pc \in {"free", "new", "top", "work", "reply", "linger", "retire", "finish", "ended"}
                 /\ ses[s].linked \in BOOLEAN /\ ses[s].auth \in BOOLEAN
                 /\ ses[s].topics \subseteq Topics /\ ses[s].closing \in {OPEN, AFTER_FLUSH, NOW}
                 /\ Len(ses[s].outbox) <= OutboxCap /\ Len(ses[s].sending) <= OutboxCap
                 /\ ses[s].linked => ses[s].pc # "free"
      <3>1. ses[s] \in Session /\ Fits(ses[s]) /\ Placed(ses[s])
        BY <1>1 DEF SessionInv
      <3>2. ses[s].linked => ses[s].pc # "free"
        BY <3>1 DEF Placed, NoSession
      <3> QED BY <3>1, <3>2 DEF Session, Running, Fits
    <2>2. accept.at \in {"loop", "link", "spawn", "failed", "exited"}
          /\ (accept.at \in {"link", "spawn", "failed"} <=> accept.made \subseteq Sessions /\ accept.made # {})
      BY <1>1 DEF AcceptInv
    <2>3. /\ \A k \in DOMAIN results : results[k] \in BOOLEAN
          /\ pump.last \in 0 .. Newest
          /\ pump.at \in {"none", "sleep", "fetch", "look", "gap", "send", "joined"}
      BY <1>1 DEF PumpInv, Newest
    <2>4. phase \in {"up", "join", "emit", "drain", "mark", "wait", "stop", "reap", "gone"}
      BY <1>1 DEF StopInv, Phases
    <2>5. DOMAIN ses = Sessions /\ interest \in [Topics -> 0 .. Cardinality(Sessions)]
          /\ authed \in 0 .. Cardinality(Sessions)
      BY <1>1 DEF CountInv
    <2> QED BY <1>1, <2>1, <2>2, <2>3, <2>4, <2>5 DEF TypeOK
  <1>3. CountersMatch
    BY <1>1 DEF CountersMatch, CountInv, AcceptInv, Listeners, Known
  <1>4. StreamWhole
    <2> SUFFICES ASSUME NEW s \in Sessions
                 PROVE  /\ IsPrefix(ses[s].got, ses[s].owed)
                        /\ ses[s].closing # NOW => ses[s].got \o ses[s].sending \o ses[s].outbox = ses[s].owed
      BY DEF StreamWhole
    <2> DEFINE x == ses[s]
               g == x.got
               w == Way(x)
    <2>1. x \in Session /\ Whole(x)
      BY <1>1 DEF SessionInv
    <2>2. g \in Seq(Lines) /\ x.sending \in Seq(Lines) /\ x.outbox \in Seq(Lines) /\ x.owed \in Seq(Lines)
      BY <2>1 DEF Session
    <2>3. w \in Seq(Lines) /\ Len(g) <= Len(w) /\ \A i \in 1 .. Len(g) : w[i] = g[i]
      <3> DEFINE b == x.sending
                 c == x.outbox
      <3>1. g \in Seq(Lines) /\ b \in Seq(Lines) /\ c \in Seq(Lines) /\ w = (g \o b) \o c
        BY <2>2 DEF Way
      <3> HIDE DEF b, c, g, w
      <3> QED BY <3>1, ConcatBegins
    <2>4. Begins(w, x.owed) /\ (x.closing # NOW => Len(w) = Len(x.owed))
      BY <2>1 DEF Whole
    <2>5. w = x.got \o x.sending \o x.outbox
      BY DEF Way
    <2> HIDE DEF w, g, x
    <2>6. Begins(g, x.owed)
      BY <2>2, <2>3, <2>4 DEF Begins
    <2>7. IsPrefix(g, x.owed)
      BY <2>2, <2>6, BeginsIsPrefix
    <2>8. x.closing # NOW => w = x.owed
      <3> HAVE x.closing # NOW
      <3>1. Len(w) = Len(x.owed) /\ \A i \in 1 .. Len(w) : w[i] = x.owed[i]
        BY <2>4 DEF Begins
      <3> DEFINE o == x.owed
      <3>2. o \in Seq(Lines) /\ Len(w) = Len(o) /\ \A i \in 1 .. Len(w) : w[i] = o[i]
        BY <2>2, <3>1
      <3> HIDE DEF o
      <3>3. w = o
        BY <2>3, <3>2, SeqEqual
      <3> QED BY <3>3 DEF o
    <2> QED BY <2>5, <2>7, <2>8 DEF x, g
  <1>5. ResultsAccounted
    <2> SUFFICES ASSUME NEW s \in Sessions
                 PROVE  /\ "result" \in ses[s].topics /\ ses[s].closing = OPEN =>
                              \A n \in ses[s].since + 1 .. pump.last :
                                 ~results[n] \/ Accounted(ses[s].owed, n) \/ (pump.at = "send" /\ n = pump.last)
                        /\ \A k \in DOMAIN ses[s].owed :
                              ses[s].owed[k].type = "result" => results[ses[s].owed[k].seq]
      BY DEF ResultsAccounted
    <2>1. Told(ses[s]) /\ ses[s].owed \in Seq(Lines)
      BY <1>1 DEF Session
    <2>2. DOMAIN ses[s].owed = 1 .. Len(ses[s].owed)
      BY <2>1
    <2> QED BY <2>1, <2>2 DEF Told
  <1>6. LastResultsRead
    BY <1>1 DEF LastResultsRead, StopInv
  <1>7. DrainDelivers
    <2> SUFFICES ASSUME phase \in {"stop", "reap"}, ~late, NEW s \in marked, ses[s].closing # NOW
                 PROVE  ses[s].got = ses[s].owed
      BY DEF DrainDelivers
    <2>1. s \in Sessions /\ ses[s].drained
      BY <1>1 DEF DrainInv, Linked
    <2> QED BY <1>1, <2>1 DEF SessionInv, Settled
  <1> QED BY <1>2, <1>3, <1>4, <1>5, <1>6, <1>7 DEF StreamsRight

(* What a client is owed, it is sent, or knows that it was not: for any    *)
(* number of sessions, any outbox, history and chunk, however clients      *)
(* read, send and fail, whenever sessions are made, retired and reaped,    *)
(* and through the drain of a stop.                                        *)
THEOREM StreamsAreRight == Spec => []StreamsRight
  <1>1. Init => ApiInv
    BY ApiInitially
  <1>2. ApiInv /\ [Next]_vars => ApiInv'
    BY ApiStep
  <1>3. ApiInv => StreamsRight
    BY StreamsFollow
  <1> QED BY <1>1, <1>2, <1>3, PTL DEF Spec

-----------------------------------------------------------------------------
(* The event feed.                                                         *)

(* The id of the row the feed remembers at i.                              *)
IdOf(i) == eh.push - (i - 1)

(* A row that is there was pushed.                                         *)
RowsCounted == \A i \in Index : ring.rows[i] # 0 => i <= ring.push

(* What the feed remembers is of this ring or of an earlier one, and of    *)
(* its revision then; at the same revision it is what the ring holds.      *)
LookRight ==
    eh.valid =>
        /\ eh.inst <= ring.inst
        /\ eh.inst = ring.inst =>
              /\ eh.push <= ring.push /\ eh.commit <= ring.rev
              /\ eh.commit = ring.rev => eh.push = ring.push /\ eh.fp = ring.rows
        /\ \A i \in Index : eh.fp[i] # 0 => i <= eh.push

(* A running feed remembers the ring that is there; only one that sends    *)
(* has lines in hand.                                                      *)
FeedPhases ==
    /\ feed # "off" => (eh.valid => eh.inst = ring.inst) /\ (looked <=> eh.valid)
    /\ feed = "off" => topics = {}
    /\ feed = "sending" => eh.valid
    /\ feed # "sending" => lines = NoLines

(* The lines in hand are of the rows that are remembered.                  *)
LinesRight ==
    \A i \in Index : lines[i] # NoLine =>
        /\ lines[i].inst = ring.inst /\ lines[i].id = IdOf(i)
        /\ lines[i].content = eh.fp[i]

(* The client has the row remembered at i, if it was pushed since it       *)
(* subscribed, and has it as it is remembered.                             *)
Knows(c, i) ==
    /\ IdOf(i) > since[c] => got[c][IdOf(i)] # 0
    /\ got[c][IdOf(i)] \in {0, eh.fp[i]}

(* Every subscriber knows every row that is not on its way to it, and was  *)
(* sent as new nothing younger than what the feed remembers.               *)
ClientsTold ==
    \A c \in topics :
        IF eh.valid
        THEN /\ fresh[c] <= eh.push
             /\ \A i \in Index :
                   /\ lines[i] # NoLine /\ ~lines[i].update => fresh[c] < lines[i].id
                   /\ eh.fp[i] # 0 /\ lines[i] = NoLine => Knows(c, i)
        ELSE fresh[c] = 0 /\ got[c] = Nothing

(* The inductive invariant.                                                *)
FeedInv == FeedTypeOK /\ RowsCounted /\ LookRight /\ FeedPhases /\ LinesRight /\ ClientsTold /\ NewOnce

(* What the ring and what the feed remembers of it are made of.            *)
Rings == [inst : 1 .. MaxRings, push : 0 .. MaxPushes, rev : 0 .. MaxRevs, rows : [Index -> Contents \cup {0}]]
Looks == [valid : BOOLEAN, inst : 0 .. MaxRings, push : 0 .. MaxPushes, commit : 0 .. MaxRevs,
          fp : [Index -> Contents \cup {0}]]

(* What the assumption says of the constants.                              *)
LEMMA FeedConstants ==
  /\ Contents \subseteq Nat \ {0}
  /\ Depth \in Nat \ {0} /\ MaxPushes \in Nat /\ MaxRevs \in Nat /\ MaxRings \in Nat \ {0}
  /\ NoLine \notin EventLine
BY FeedAssumption DEF NoLine, EventLine, Ids

(* Caught up, what the feed remembers is what the ring holds.              *)
LEMMA FeedInvImplies == FeedInv => FeedRight
<1> SUFFICES ASSUME FeedInv, CaughtUp, NEW c \in topics, NEW i \in Index, ring.rows[i] # 0
             PROVE  /\ ring.push - (i - 1) > since[c] => got[c][ring.push - (i - 1)] # 0
                    /\ got[c][ring.push - (i - 1)] \in {0, ring.rows[i]}
  BY DEF FeedInv, FeedRight, SubscriberCurrent
<1>1. eh.valid /\ eh.inst = ring.inst /\ eh.push = ring.push /\ eh.commit = ring.rev /\ feed = "on"
  BY DEF CaughtUp, FirstLook, Unchanged
<1>2. eh.fp = ring.rows
  BY <1>1 DEF FeedInv, LookRight
<1>3. lines[i] = NoLine
  BY <1>1 DEF FeedInv, FeedPhases, NoLines
<1>4. Knows(c, i)
  BY <1>1, <1>2, <1>3 DEF FeedInv, ClientsTold
<1> QED
  BY <1>1, <1>2, <1>4 DEF Knows, IdOf

(* Nothing is pushed and nobody listens.                                   *)
LEMMA FeedInvInit == FeedInit => FeedInv
<1> SUFFICES ASSUME FeedInit PROVE FeedInv
  OBVIOUS
<1> USE FeedConstants DEF FeedInit
<1>1. FeedTypeOK
  <2>1. Blank \in [Index -> Contents \cup {0}] /\ Nothing \in [Ids -> Contents \cup {0}]
    BY DEF Blank, Nothing
  <2>2. ring \in Rings /\ eh \in Looks
    BY <2>1 DEF Rings, Looks
  <2>3. lines \in [Index -> EventLine \cup {NoLine}]
    BY DEF NoLines
  <2> QED
    BY <2>1, <2>2, <2>3 DEF FeedTypeOK, Rings, Looks
<1>2. RowsCounted /\ LookRight
  BY DEF RowsCounted, LookRight, Blank
<1>3. FeedPhases /\ LinesRight
  BY DEF FeedPhases, LinesRight, NoLines
<1> QED
  BY <1>1, <1>2, <1>3 DEF FeedInv, ClientsTold, NewOnce

(* A set of numbers that is not empty has a least one.                     *)
LEMMA LeastNumber == ASSUME NEW S \in SUBSET Nat, S # {} PROVE \E n \in S : \A m \in S : n <= m
<1> DEFINE Less == {p \in Nat \X Nat : p[1] < p[2]}
<1>1. IsWellFoundedOn(Less, Nat)
  BY NatLessThanWellFounded DEF OpToRel
<1>2. \E n \in S : \A m \in S : <<m, n>> \notin Less
  <2> HIDE DEF Less
  <2> QED
    BY <1>1, WFMin
<1>3. PICK n \in S : \A m \in S : <<m, n>> \notin Less
  BY <1>2
<1>4. ASSUME NEW m \in S PROVE n <= m
  <2>1. m \in Nat /\ n \in Nat /\ <<m, n>> \in Nat \X Nat /\ <<m, n>>[1] = m /\ <<m, n>>[2] = n
    OBVIOUS
  <2>2. ~(m < n)
    BY <1>3, <2>1
  <2> QED
    BY <2>1, <2>2
<1> QED
  BY <1>4

(* The writers of the ring.  What the feed remembers is of an older        *)
(* revision afterwards, so it has yet to catch up.                         *)
LEMMA WritersKeep ==
  ASSUME FeedInv,
         \/ \E v \in Contents : Push(v)
         \/ \E i \in Index, v \in Contents : Amend(i, v)
         \/ ResetHistory
  PROVE  FeedInv'
<1> USE FeedConstants
<1>0. UNCHANGED <<eh, feed, lines, topics, clientVars>>
  BY DEF Push, Amend, ResetHistory
<1>a. ring \in Rings /\ RowsCounted
  BY DEF FeedInv, FeedTypeOK, Rings
<1> DEFINE Wrote == /\ ring' \in Rings
                    /\ ring'.inst = ring.inst /\ ring'.push >= ring.push /\ ring'.rev > ring.rev
                    /\ RowsCounted'
<1>1. Wrote
  <2>1. ASSUME NEW v \in Contents, Push(v)
        PROVE  Wrote
    <3> DEFINE rows == [i \in Index |-> IF i = 1 THEN v ELSE ring.rows[i - 1]]
    <3>1. rows \in [Index -> Contents \cup {0}]
      BY <1>a DEF Rings, Index
    <3>2. ring' = [ring EXCEPT !.push = ring.push + 1, !.rev = ring.rev + 1, !.rows = rows]
      BY <2>1 DEF Push
    <3>3. \A i \in Index : rows[i] # 0 => i <= ring.push + 1
      BY <1>a DEF Rings, Index, RowsCounted
    <3> HIDE DEF rows
    <3>4. /\ ring'.inst = ring.inst /\ ring'.push = ring.push + 1 /\ ring'.rev = ring.rev + 1 /\ ring'.rows = rows
          /\ ring' = [inst |-> ring.inst, push |-> ring.push + 1, rev |-> ring.rev + 1, rows |-> rows]
      BY <1>a, <3>2 DEF Rings
    <3>5. RowsCounted'
      BY <3>3, <3>4 DEF RowsCounted
    <3>6. ring.push + 1 \in 0 .. MaxPushes /\ ring.rev + 1 \in 0 .. MaxRevs
      <4>1. ring.push < MaxPushes /\ ring.rev < MaxRevs
        BY <2>1, Zenon DEF Push
      <4> QED
        BY <1>a, <4>1 DEF Rings
    <3>7. ring' \in Rings
      BY <1>a, <3>1, <3>4, <3>6 DEF Rings
    <3> QED
      BY <1>a, <3>4, <3>5, <3>7 DEF Rings
  <2>2. ASSUME NEW i \in Index, NEW v \in Contents, Amend(i, v)
        PROVE  Wrote
    <3> DEFINE rows == [ring.rows EXCEPT ![i] = v]
    <3>1. rows \in [Index -> Contents \cup {0}] /\ \A j \in Index : rows[j] # 0 => ring.rows[j] # 0
      BY <1>a, <2>2 DEF Rings, Amend
    <3>2. ring' = [ring EXCEPT !.rows = rows, !.rev = ring.rev + 1]
      BY <1>a, <2>2 DEF Amend, Rings
    <3> HIDE DEF rows
    <3>3. /\ ring'.inst = ring.inst /\ ring'.push = ring.push /\ ring'.rev = ring.rev + 1 /\ ring'.rows = rows
          /\ ring' = [inst |-> ring.inst, push |-> ring.push, rev |-> ring.rev + 1, rows |-> rows]
      BY <1>a, <3>2 DEF Rings
    <3>4. RowsCounted'
      BY <1>a, <3>1, <3>3 DEF RowsCounted
    <3>5. ring.rev + 1 \in 0 .. MaxRevs
      <4>1. ring.rev < MaxRevs
        BY <2>2, Zenon DEF Amend
      <4> QED
        BY <1>a, <4>1 DEF Rings
    <3>6. ring' \in Rings
      BY <1>a, <3>1, <3>3, <3>5 DEF Rings
    <3> QED
      BY <1>a, <3>3, <3>4, <3>6 DEF Rings
  <2>3. CASE ResetHistory
    <3>1. Blank \in [Index -> Contents \cup {0}] /\ \A i \in Index : Blank[i] = 0
      BY DEF Blank
    <3>2. ring' = [ring EXCEPT !.rows = Blank, !.rev = ring.rev + 1]
      BY <2>3 DEF ResetHistory
    <3>3. /\ ring'.inst = ring.inst /\ ring'.push = ring.push /\ ring'.rev = ring.rev + 1 /\ ring'.rows = Blank
          /\ ring' = [inst |-> ring.inst, push |-> ring.push, rev |-> ring.rev + 1, rows |-> Blank]
      BY <1>a, <3>2 DEF Rings
    <3> QED
      BY <1>a, <2>3, <3>1, <3>3 DEF ResetHistory, Rings, RowsCounted
  <2> QED
    BY <2>1, <2>2, <2>3
<1>2. FeedTypeOK'
  BY <1>0, <1>1 DEF FeedInv, FeedTypeOK, clientVars, Rings
<1>3. LookRight'
  BY <1>a, <1>0, <1>1 DEF FeedInv, FeedTypeOK, LookRight, Rings
<1>4. FeedPhases' /\ LinesRight'
  BY <1>0, <1>1 DEF FeedInv, FeedPhases, LinesRight, clientVars, IdOf
<1>5. ClientsTold' /\ NewOnce'
  BY <1>0 DEF FeedInv, ClientsTold, Knows, IdOf, NewOnce, clientVars
<1> QED
  BY <1>1, <1>2, <1>3, <1>4, <1>5 DEF FeedInv

(* Another ring takes the place of this one.                               *)
LEMMA NewRingKeeps == ASSUME FeedInv, NewRing PROVE FeedInv'
<1> USE FeedConstants DEF NewRing
<1>a. Blank \in [Index -> Contents \cup {0}] /\ \A i \in Index : Blank[i] = 0
  BY DEF Blank
<1>b. Nothing \in [Ids -> Contents \cup {0}]
  BY DEF Nothing
<1>c. ring' \in Rings
  BY <1>a DEF FeedInv, FeedTypeOK, Rings
<1>1. FeedTypeOK'
  BY <1>b, <1>c DEF FeedInv, FeedTypeOK, Rings
<1>2. RowsCounted' /\ LookRight'
  <2>1. ring'.inst > eh.inst \/ ~eh.valid
    BY DEF FeedInv, FeedTypeOK, LookRight
  <2> QED
    BY <1>a, <2>1 DEF FeedInv, FeedTypeOK, RowsCounted, LookRight
<1>3. FeedPhases' /\ LinesRight'
  BY DEF FeedInv, FeedPhases, LinesRight, NoLines
<1> QED
  BY <1>1, <1>2, <1>3 DEF FeedInv, FeedPhases, ClientsTold, NewOnce

(* The feed starts over, or stops, with nobody subscribed.                 *)
LEMMA StartStopKeep == ASSUME FeedInv, FeedStart \/ FeedStop PROVE FeedInv'
<1> USE FeedConstants DEF FeedStart, FeedStop, clientVars
<1>1. FeedTypeOK'
  <2>1. lines' \in [Index -> EventLine \cup {NoLine}]
    BY DEF FeedInv, FeedTypeOK, NoLines
  <2>2. [eh EXCEPT !.valid = FALSE] \in Looks /\ eh' \in Looks
    BY DEF FeedInv, FeedTypeOK, Looks
  <2> QED
    BY <2>1, <2>2 DEF FeedInv, FeedTypeOK, Looks
<1>2. RowsCounted' /\ LookRight'
  <2>1. eh'.valid => eh' = eh
    BY DEF FeedInv, FeedTypeOK
  <2> QED
    BY <2>1 DEF FeedInv, RowsCounted, LookRight
<1>3. FeedPhases' /\ LinesRight'
  BY DEF FeedInv, FeedTypeOK, FeedPhases, LinesRight, NoLines
<1> QED
  BY <1>1, <1>2, <1>3 DEF FeedInv, FeedPhases, ClientsTold, NewOnce

(* A client subscribes, in the middle of a publication too: it asks for    *)
(* the rows pushed from now on.                                            *)
LEMMA ListenKeeps == ASSUME FeedInv, NEW c \in Clients, Listen(c) PROVE FeedInv'
<1> USE FeedConstants DEF Listen
<1>1. FeedTypeOK'
  BY DEF FeedInv, FeedTypeOK, Nothing
<1>2. RowsCounted' /\ LookRight' /\ FeedPhases' /\ LinesRight' /\ NewOnce'
  BY DEF FeedInv, RowsCounted, LookRight, FeedPhases, LinesRight, IdOf, NewOnce
<1>3. ASSUME NEW d \in topics', eh.valid
      PROVE  /\ fresh'[d] <= eh.push
             /\ \A i \in Index :
                   /\ lines[i] # NoLine /\ ~lines[i].update => fresh'[d] < lines[i].id
                   /\ eh.fp[i] # 0 /\ lines[i] = NoLine => Knows(d, i)'
  <2>1. CASE d = c
    <3>1. eh.push <= ring.push
      BY <1>3 DEF FeedInv, LookRight, FeedPhases
    <3>2. fresh'[d] = 0 /\ since'[d] = ring.push /\ got'[d] = Nothing
      BY <2>1 DEF FeedInv, FeedTypeOK
    <3>3. ASSUME NEW i \in Index, eh.fp[i] # 0
          PROVE  Knows(d, i)'
      <4>1. IdOf(i) \in Ids /\ IdOf(i) <= ring.push /\ IdOf(i)' = IdOf(i)
        <5>1. eh.push \in 0 .. MaxPushes /\ ring.push \in 0 .. MaxPushes /\ i \in 1 .. Depth /\ i <= eh.push
          BY <1>3, <3>3 DEF FeedInv, FeedTypeOK, LookRight, Index
        <5> QED
          BY <3>1, <5>1 DEF IdOf, Ids
      <4> QED
        BY <3>2, <4>1 DEF Knows, Nothing, FeedInv, FeedTypeOK, Ids
    <3>4. ASSUME NEW i \in Index, lines[i] # NoLine
          PROVE  0 < lines[i].id
      BY <3>4 DEF FeedInv, FeedTypeOK, EventLine, Ids
    <3> QED
      BY <3>2, <3>3, <3>4 DEF FeedInv, FeedTypeOK
  <2>2. CASE d # c
    <3>1. d \in topics /\ fresh'[d] = fresh[d] /\ since'[d] = since[d] /\ got'[d] = got[d]
      BY <2>2 DEF FeedInv, FeedTypeOK
    <3> QED
      BY <1>3, <3>1 DEF FeedInv, ClientsTold, Knows, IdOf
  <2> QED
    BY <2>1, <2>2
<1>4. ASSUME NEW d \in topics', ~eh.valid
      PROVE  fresh'[d] = 0 /\ got'[d] = Nothing
  BY <1>4 DEF FeedInv, FeedTypeOK, ClientsTold
<1>5. ClientsTold'
  BY <1>3, <1>4 DEF ClientsTold
<1> QED
  BY <1>1, <1>2, <1>5 DEF FeedInv

(* A client leaves.                                                        *)
LEMMA StopListeningKeeps == ASSUME FeedInv, NEW c \in Clients, StopListening(c) PROVE FeedInv'
<1> USE DEF StopListening, clientVars
<1>1. FeedTypeOK'
  BY DEF FeedInv, FeedTypeOK
<1>2. RowsCounted' /\ LookRight' /\ FeedPhases' /\ LinesRight' /\ NewOnce'
  BY DEF FeedInv, RowsCounted, LookRight, FeedPhases, LinesRight, IdOf, NewOnce
<1>3. ClientsTold'
  BY DEF FeedInv, ClientsTold, Knows, IdOf
<1> QED
  BY <1>1, <1>2, <1>3 DEF FeedInv

(* The first look at a ring announces none of its rows.                    *)
LEMMA BaselineKeeps == ASSUME FeedInv, Baseline PROVE FeedInv'
<1> USE FeedConstants DEF Baseline
<1>1. ~eh.valid /\ ~looked /\ lines = NoLines
  BY DEF FeedInv, FirstLook, LookRight, FeedPhases, FeedTypeOK
<1>2. /\ eh'.valid /\ eh'.inst = ring.inst /\ eh'.push = ring.push /\ eh'.commit = ring.rev /\ eh'.fp = ring.rows
      /\ eh' \in Looks
  BY DEF FeedInv, FeedTypeOK, Looks, Remember
<1>3. lines' = NoLines /\ ring' = ring /\ feed' = feed /\ topics' = topics /\ got' = got /\ fresh' = fresh
  OBVIOUS
<1>4. \A c \in Clients : since'[c] = ring.push
  BY <1>1
<1>5. FeedTypeOK'
  <2>1. since' \in [Clients -> 0 .. MaxPushes]
    BY DEF FeedInv, FeedTypeOK
  <2>2. lines' \in [Index -> EventLine \cup {NoLine}]
    BY DEF NoLines
  <2> QED
    BY <1>2, <2>1, <2>2 DEF FeedInv, FeedTypeOK, Looks
<1>6. RowsCounted' /\ LookRight' /\ NewOnce'
  BY <1>2, <1>3 DEF FeedInv, FeedTypeOK, RowsCounted, LookRight, NewOnce
<1>7. FeedPhases' /\ LinesRight'
  BY <1>2, <1>3 DEF FeedInv, FeedPhases, LinesRight, NoLines
<1>8. ClientsTold'
  <2> SUFFICES ASSUME NEW c \in topics
               PROVE  /\ fresh[c] <= ring.push
                      /\ \A i \in Index : ring.rows[i] # 0 => Knows(c, i)'
    BY <1>2, <1>3 DEF ClientsTold, NoLines
  <2>1. fresh[c] = 0 /\ got[c] = Nothing /\ c \in Clients
    BY <1>1 DEF FeedInv, FeedTypeOK, ClientsTold
  <2>2. ASSUME NEW i \in Index, ring.rows[i] # 0
        PROVE  Knows(c, i)'
    <3>1. ring.push \in 0 .. MaxPushes /\ i \in 1 .. Depth /\ i <= ring.push
      BY <2>2 DEF FeedInv, FeedTypeOK, RowsCounted, Index
    <3>2. IdOf(i)' = ring.push - (i - 1) /\ IdOf(i)' \in Ids /\ IdOf(i)' <= ring.push
      BY <1>2, <3>1 DEF IdOf, Ids
    <3> QED
      BY <1>3, <1>4, <2>1, <3>1, <3>2 DEF Knows, Nothing
  <2> QED
    BY <2>1, <2>2 DEF FeedInv, FeedTypeOK
<1> QED
  BY <1>5, <1>6, <1>7, <1>8 DEF FeedInv

(* A look: rows that were pushed or amended since the last one become      *)
(* lines.  A row that becomes none is one the feed remembers, further up.  *)
LEMMA GatherKeeps == ASSUME FeedInv, Gather PROVE FeedInv'
<1> USE FeedConstants DEF Gather
<1>0. /\ eh.valid /\ eh.inst = ring.inst /\ eh.push <= ring.push /\ lines = NoLines
      /\ ring' = ring /\ topics' = topics /\ looked' = looked /\ since' = since /\ got' = got /\ fresh' = fresh
      /\ repeats' = repeats /\ feed = "on"
  BY DEF FeedInv, FirstLook, LookRight, FeedPhases, FeedTypeOK, clientVars
<1>1. CASE Unchanged
  <2>1. eh' = eh /\ lines' = NoLines /\ feed' = "on"
    BY <1>1
  <2> QED
    BY <1>0, <2>1 DEF FeedInv, FeedTypeOK, RowsCounted, LookRight, FeedPhases, LinesRight, ClientsTold, NewOnce,
                      Knows, IdOf
<1>2. CASE ~Unchanged
  <2>1. /\ eh'.valid /\ eh'.inst = ring.inst /\ eh'.push = ring.push /\ eh'.commit = ring.rev
        /\ eh'.fp = ring.rows /\ eh' \in Looks
    BY <1>2 DEF FeedInv, FeedTypeOK, Looks, Remember
  <2>2. /\ ring.push \in 0 .. MaxPushes /\ eh.push \in 0 .. MaxPushes /\ ring.rows \in [Index -> Contents \cup {0}]
        /\ ring.inst \in 1 .. MaxRings /\ eh.fp \in [Index -> Contents \cup {0}]
    BY DEF FeedInv, FeedTypeOK
  <2>3. /\ Pushed \in Nat /\ Pushed <= Depth /\ Pushed <= ring.push - eh.push
        /\ Pushed = ring.push - eh.push \/ Pushed = Depth
    <3> DEFINE S == {ring.push - eh.push, Depth}
    <3>1. \E x \in S : \A y \in S : x <= y
      BY <1>0, <2>2
    <3>2. Min(S) \in S /\ \A y \in S : Min(S) <= y
      <4> HIDE DEF S
      <4> QED
        BY <3>1, Zenon DEF Min
    <3> QED
      BY <1>0, <2>2, <3>2 DEF Pushed
  <2>4. lines' = NoLines \/ lines' = Gathered
    BY <1>2
  <2>5. ASSUME NEW i \in Index, lines'[i] # NoLine
        PROVE  lines' = Gathered /\ WorthSending(i) /\ lines'[i] = RowLine(i)
    BY <2>4, <2>5 DEF NoLines, Gathered
  <2>6. ASSUME NEW i \in Index, ring.rows[i] # 0
        PROVE  ring.push - (i - 1) \in Ids
    <3>1. i \in 1 .. Depth /\ i <= ring.push
      BY <2>6 DEF FeedInv, RowsCounted, Index
    <3> QED
      BY <2>2, <3>1 DEF Ids
  <2>7. FeedTypeOK'
    <3>1. ASSUME NEW i \in Index, WorthSending(i)
          PROVE  RowLine(i) \in EventLine
      <4>1. ring.rows[i] \in Contents /\ ring.push - (i - 1) \in Ids /\ (i > Pushed) \in BOOLEAN
        BY <2>2, <2>6, <3>1 DEF WorthSending
      <4> QED
        BY <2>2, <4>1 DEF RowLine, EventLine
    <3>2. lines' \in [Index -> EventLine \cup {NoLine}]
      BY <2>4, <3>1 DEF NoLines, Gathered
    <3>3. feed' \in {"off", "on", "sending"}
      OBVIOUS
    <3> QED
      BY <1>0, <2>1, <3>2, <3>3 DEF FeedInv, FeedTypeOK, Looks
  <2>8. RowsCounted' /\ LookRight' /\ NewOnce'
    BY <1>0, <2>1, <2>2 DEF FeedInv, FeedTypeOK, RowsCounted, LookRight, NewOnce
  <2>9. FeedPhases'
    BY <1>0, <2>1 DEF FeedInv, FeedPhases
  <2>10. LinesRight'
    <3> SUFFICES ASSUME NEW i \in Index, lines'[i] # NoLine
                 PROVE  /\ lines'[i].inst = ring.inst /\ lines'[i].id = IdOf(i)'
                        /\ lines'[i].content = ring.rows[i]
      BY <1>0, <2>1 DEF LinesRight
    <3>1. lines'[i] = RowLine(i)
      BY <2>5
    <3> QED
      BY <2>1, <3>1 DEF RowLine, IdOf
  <2>11. ClientsTold'
    <3> SUFFICES ASSUME NEW c \in topics
                 PROVE  /\ fresh[c] <= ring.push
                        /\ \A i \in Index :
                              /\ lines'[i] # NoLine /\ ~lines'[i].update => fresh[c] < lines'[i].id
                              /\ ring.rows[i] # 0 /\ lines'[i] = NoLine => Knows(c, i)'
      BY <1>0, <2>1 DEF ClientsTold
    <3>1. fresh[c] <= eh.push /\ fresh[c] \in Nat
      BY <1>0 DEF FeedInv, FeedTypeOK, ClientsTold
    <3>2. ASSUME NEW i \in Index, lines'[i] # NoLine, ~lines'[i].update
          PROVE  fresh[c] < lines'[i].id
      <4>1. lines'[i].id = ring.push - (i - 1) /\ ~(i > Pushed)
        <5>1. lines'[i] = RowLine(i)
          BY <2>5, <3>2
        <5>2. lines'[i].id = ring.push - (i - 1)
          BY <5>1 DEF RowLine
        <5>3. ASSUME i > Pushed PROVE FALSE
          <6>1. (i > Pushed) = TRUE
            BY <5>3
          <6>2. RowLine(i) = [inst |-> ring.inst, id |-> ring.push - (i - 1), content |-> ring.rows[i], update |-> TRUE]
            BY <6>1, Zenon DEF RowLine
          <6> QED
            BY <3>2, <5>1, <6>2
        <5> QED
          BY <5>2, <5>3
      <4>2. i \in Nat
        BY DEF Index
      <4> QED
        BY <2>2, <2>3, <3>1, <4>1, <4>2
    <3>3. ASSUME NEW i \in Index, ring.rows[i] # 0, lines'[i] = NoLine
          PROVE  Knows(c, i)'
      <4>1. lines' = Gathered
        BY <1>2 DEF Interest
      <4>2. ~WorthSending(i)
        <5>1. RowLine(i) # NoLine
          BY <2>6, <3>3 DEF RowLine, NoLine, Ids
        <5> QED
          BY <3>3, <4>1, <5>1 DEF Gathered
      <4>3. i > Pushed /\ ring.rows[i] = eh.fp[i - Pushed]
        BY <2>3, <3>3, <4>2 DEF WorthSending, Shifted, Index
      <4>4. Pushed = ring.push - eh.push /\ i - Pushed \in Index
        BY <2>3, <4>3 DEF Index
      <4>5. Knows(c, i - Pushed)
        BY <1>0, <3>3, <4>3, <4>4 DEF FeedInv, ClientsTold, NoLines
      <4>6. IdOf(i)' = IdOf(i - Pushed)
        BY <2>1, <2>2, <4>4 DEF IdOf, Index
      <4> QED
        BY <1>0, <2>1, <4>3, <4>5, <4>6 DEF Knows
    <3> QED
      BY <1>0, <2>2, <3>1, <3>2, <3>3
  <2> QED
    BY <2>7, <2>8, <2>9, <2>10, <2>11 DEF FeedInv
<1> QED
  BY <1>1, <1>2

(* The lines reach every subscriber, the oldest new one first.             *)
LEMMA SendLinesKeeps == ASSUME FeedInv, SendLines PROVE FeedInv'
<1> USE FeedConstants
<1>0. /\ eh.valid /\ feed' = "on" /\ lines' = NoLines /\ ring' = ring /\ eh' = eh /\ topics' = topics
      /\ looked' = looked /\ since' = since /\ eh.push \in 0 .. MaxPushes /\ topics \subseteq Clients
      /\ lines \in [Index -> EventLine \cup {NoLine}]
  BY DEF SendLines, FeedInv, FeedPhases, FeedTypeOK
<1>1. Current = {i \in Index : lines[i] # NoLine}
  BY DEF Current, FeedInv, LinesRight
<1>2. ASSUME NEW i \in Current
      PROVE  /\ i \in Index /\ lines[i] \in EventLine /\ lines[i].id = IdOf(i) /\ lines[i].content = eh.fp[i]
             /\ IdOf(i) \in Ids /\ IdOf(i) <= eh.push /\ eh.fp[i] \in Contents
  <2>1. i \in Index /\ lines[i] \in EventLine /\ lines[i].id = IdOf(i) /\ lines[i].content = eh.fp[i]
    BY <1>0, <1>1, <1>2 DEF FeedInv, LinesRight
  <2> QED
    BY <1>0, <2>1 DEF EventLine, Ids, IdOf, Index
<1>3. ASSUME NEW i \in Current, NEW j \in Current, lines[i].id = lines[j].id
      PROVE  i = j
  <2>1. IdOf(i) = IdOf(j) /\ i \in Nat /\ j \in Nat
    BY <1>2, <1>3 DEF Index
  <2> QED
    BY <1>0, <2>1 DEF IdOf
<1>4. ASSUME NEW i \in Current
      PROVE  LET hits == {j \in Current : lines[j].id = lines[i].id} IN hits = {i} /\ Min(hits) = i
  <2> DEFINE hits == {j \in Current : lines[j].id = lines[i].id}
  <2>1. hits = {i}
    BY <1>3
  <2>2. i <= i
    BY <1>2 DEF Index
  <2>3. Min({i}) = i
    BY <2>2, Zenon DEF Min
  <2> QED
    BY <2>1, <2>3
<1>5. NewLines # {} => Min(NewLines) \in NewLines
  <2> SUFFICES ASSUME NewLines # {} PROVE Min(NewLines) \in NewLines
    OBVIOUS
  <2>1. NewLines \in SUBSET Nat
    BY <1>2 DEF NewLines, Index
  <2>2. \E n \in NewLines : \A m \in NewLines : n <= m
    BY <2>1, LeastNumber
  <2> QED
    BY <2>2, Zenon DEF Min
<1>6. ASSUME NEW c \in topics
      PROVE  /\ fresh'[c] \in 0 .. MaxPushes /\ fresh'[c] <= eh.push
             /\ got'[c] \in [Ids -> Contents \cup {0}]
             /\ \A i \in Index : eh.fp[i] # 0 => Knows(c, i)'
  <2>1. fresh'[c] = IF NewLines # {} THEN lines[Min(NewLines)].id ELSE fresh[c]
    BY <1>0 DEF SendLines
  <2>2. fresh[c] <= eh.push /\ fresh[c] \in 0 .. MaxPushes /\ got[c] \in [Ids -> Contents \cup {0}]
    BY <1>0 DEF FeedInv, FeedTypeOK, ClientsTold
  <2>3. \A i \in NewLines : lines[i].id <= eh.push /\ lines[i].id \in 0 .. MaxPushes
    BY <1>2 DEF NewLines, Ids
  <2>4. got'[c] = [id \in Ids |-> IF {i \in Current : lines[i].id = id} = {} THEN got[c][id]
                                  ELSE lines[Min({i \in Current : lines[i].id = id})].content]
    BY <1>0 DEF SendLines
  <2>5. ASSUME NEW id \in Ids
        PROVE  got'[c][id] \in Contents \cup {0}
    <3>1. CASE {i \in Current : lines[i].id = id} = {}
      BY <2>2, <2>4, <3>1
    <3>2. CASE {i \in Current : lines[i].id = id} # {}
      <4>1. PICK i \in Current : lines[i].id = id
        BY <3>2
      <4>2. got'[c][id] = lines[i].content
        BY <1>4, <2>4, <3>2, <4>1
      <4> QED
        BY <1>2, <4>2
    <3> QED
      BY <3>1, <3>2
  <2>6. got'[c] \in [Ids -> Contents \cup {0}]
    BY <2>4, <2>5
  <2>7. ASSUME NEW i \in Index, eh.fp[i] # 0
        PROVE  Knows(c, i)'
    <3>0. IdOf(i) \in Ids /\ IdOf(i)' = IdOf(i)
      <4>1. i \in 1 .. Depth /\ i <= eh.push
        BY <1>0, <2>7 DEF FeedInv, LookRight, Index
      <4> QED
        BY <1>0, <4>1 DEF IdOf, Ids
    <3>1. CASE i \in Current
      <4>1. lines[i].id = IdOf(i) /\ lines[i].content = eh.fp[i]
        BY <1>2, <3>1
      <4>2. got'[c][IdOf(i)] = eh.fp[i]
        BY <1>4, <2>4, <3>0, <3>1, <4>1
      <4> QED
        BY <1>0, <2>7, <3>0, <4>2 DEF Knows
    <3>2. CASE i \notin Current
      <4>1. lines[i] = NoLine
        BY <1>1, <3>2
      <4>2. Knows(c, i)
        BY <1>0, <2>7, <4>1 DEF FeedInv, ClientsTold
      <4>3. ASSUME NEW j \in Current, lines[j].id = IdOf(i)
            PROVE  FALSE
        <5>1. IdOf(j) = IdOf(i) /\ j \in Nat /\ i \in Nat
          BY <1>2, <4>3 DEF Index
        <5> QED
          BY <1>0, <3>2, <5>1 DEF IdOf
      <4>4. got'[c][IdOf(i)] = got[c][IdOf(i)]
        BY <2>4, <3>0, <4>3
      <4> QED
        BY <1>0, <3>0, <4>2, <4>4 DEF Knows
    <3> QED
      BY <3>1, <3>2
  <2> QED
    BY <1>5, <2>1, <2>2, <2>3, <2>6, <2>7
<1>7. repeats' = repeats
  <2>1. ASSUME NEW c \in topics, NEW i \in NewLines
        PROVE  ~(lines[i].id <= fresh[c])
    <3>1. fresh[c] < lines[i].id
      BY <1>0, <1>1, <2>1 DEF FeedInv, ClientsTold, NewLines
    <3> QED
      BY <1>0, <1>2, <3>1 DEF FeedInv, FeedTypeOK, NewLines, Ids
  <2>2. ASSUME NEW i \in NewLines, NEW j \in NewLines, i < j
        PROVE  ~(lines[i].id <= lines[j].id)
    <3>1. i \in Nat /\ j \in Nat /\ lines[i].id = eh.push - (i - 1) /\ lines[j].id = eh.push - (j - 1)
      BY <1>2 DEF NewLines, Index, IdOf
    <3> QED
      BY <1>0, <2>2, <3>1
  <2> QED
    BY <2>1, <2>2 DEF SendLines, FeedInv, FeedTypeOK
<1>8. FeedTypeOK'
  <2>1. fresh' \in [Clients -> 0 .. MaxPushes]
    <3>1. \A c \in Clients \ topics : fresh'[c] = fresh[c]
      BY DEF SendLines
    <3>2. \A c \in Clients : fresh'[c] \in 0 .. MaxPushes
      BY <1>6, <3>1 DEF FeedInv, FeedTypeOK
    <3> QED
      BY <3>2 DEF SendLines
  <2>2. got' \in [Clients -> [Ids -> Contents \cup {0}]]
    <3>1. \A c \in Clients \ topics : got'[c] = got[c]
      BY DEF SendLines
    <3>2. \A c \in Clients : got'[c] \in [Ids -> Contents \cup {0}]
      BY <1>6, <3>1 DEF FeedInv, FeedTypeOK
    <3> QED
      BY <3>2 DEF SendLines
  <2>3. lines' \in [Index -> EventLine \cup {NoLine}]
    BY <1>0 DEF NoLines
  <2> QED
    BY <1>0, <1>7, <2>1, <2>2, <2>3 DEF FeedInv, FeedTypeOK
<1>9. RowsCounted' /\ LookRight' /\ FeedPhases' /\ LinesRight' /\ NewOnce'
  BY <1>0, <1>7 DEF FeedInv, RowsCounted, LookRight, FeedPhases, LinesRight, NewOnce, NoLines, SendLines
<1>10. ClientsTold'
  BY <1>0, <1>6 DEF ClientsTold, NoLines
<1> QED
  BY <1>8, <1>9, <1>10 DEF FeedInv

(* The event feed (api_feed.c), whatever is pushed, amended and cleared    *)
(* between the steps of a publication and whoever subscribes meanwhile: a  *)
(* subscriber is sent each row as new at most once and in order, and once  *)
(* the feed has caught up it has every row committed since it subscribed,  *)
(* as it is now.                                                           *)
THEOREM FeedIsRight == FeedSpec => []FeedRight
<1>1. FeedInv /\ [FeedNext]_feedVars => FeedInv'
  <2> SUFFICES ASSUME FeedInv, [FeedNext]_feedVars PROVE FeedInv'
    OBVIOUS
  <2>1. CASE UNCHANGED feedVars
    BY <2>1 DEF feedVars, FeedInv, FeedTypeOK, RowsCounted, LookRight, FeedPhases, LinesRight, ClientsTold, NewOnce,
                Knows, IdOf
  <2> QED
    BY <2>1, WritersKeep, NewRingKeeps, StartStopKeep, ListenKeeps, StopListeningKeeps, BaselineKeeps, GatherKeeps,
       SendLinesKeeps DEF FeedNext
<1> QED
  BY <1>1, FeedInvInit, FeedInvImplies, PTL DEF FeedSpec

(* The snapshots.                                                          *)

RowTypes == [inst: Nat, rev: Nat]
CopiedLists == [count: Nat, roll: Nat, named: Nat]
StateTypes ==
    [alive: BOOLEAN, fresh: BOOLEAN, addr: Addrs, inst: Nat, rev: [Slots -> Nat \ {0}],
     seq: Nat, map: Maps, list: Lists]
CoordTypes ==
    [active: Targets \cup {0}, last: Nat, retry: BOOLEAN, snapshot: [Targets -> [seq: Nat, map: Maps]]]
PubTypes ==
    [have: BOOLEAN, seqno: 0 .. MaxPublishes, ehSeq: [Slots -> Nat], srcRev: [Slots -> Nat],
     source: Addrs \cup {0}, present: BOOLEAN, rows: [Slots -> RowTypes], mapSeq: Nat,
     map: Maps, list: CopiedLists, tail: Nat]
ConTypes ==
    [seqno: 0 .. MaxPublishes, ehSeq: [Slots -> Nat], rows: [Slots -> RowTypes],
     mapSeq: Nat, map: Maps, list: CopiedLists, tail: Nat]

(* A new state is made only after the last one was freed.                  *)
TypeInv ==
    /\ host \in Hosts
    /\ state \in StateTypes /\ coord \in CoordTypes /\ pub \in PubTypes /\ con \in ConTypes
    /\ Targets # {} => coord.active \in Targets
    /\ session \in 1 .. MaxSessions /\ changes \in 0 .. MaxChanges
    /\ ~state.alive => session < MaxSessions
    /\ con.seqno <= pub.seqno
    /\ ~pub.have => con.seqno = 0 /\ pub.seqno = 0
    /\ seen = [rows |-> seen.rows, map |-> seen.map]
    /\ reused \subseteq Nat

(* What was published of a slot of the history: blank rows if its revision *)
(* was 1, which is that of every ring until its first publication; then    *)
(* never a newer revision than the ring's, and if the same, the same rows. *)
HistoryInv ==
    /\ state.fresh => state.alive /\ \A s \in Slots : state.rev[s] = 1
    /\ pub.have =>
         /\ pub.rows = seen.rows
         /\ \A s \in Slots :
              /\ pub.srcRev[s] = 1 => pub.rows[s] = NoRows
              /\ ~state.fresh => pub.srcRev[s] <= state.rev[s]
              /\ ~state.fresh /\ pub.srcRev[s] = state.rev[s] => pub.rows[s] = Rows(state)[s]
    /\ \A s \in Slots :
         /\ con.ehSeq[s] <= pub.ehSeq[s]
         /\ con.ehSeq[s] = pub.ehSeq[s] => con.rows[s] = pub.rows[s]
    /\ pub.have /\ con.seqno = pub.seqno => con.rows = pub.rows

(* A copy of the channel map under a number that no retry in place can     *)
(* have given again: the live map's number is no lower, and if it is the   *)
(* same, so is the map.                                                    *)
Vouched(copy) ==
    copy.mapSeq \notin reused =>
        copy.mapSeq <= state.seq /\ (copy.mapSeq = state.seq => copy.map = state.map)

(* The same of the channel map by its sequence number, which only one      *)
(* state in a process can vouch for.  Nothing was copied of an empty map   *)
(* into a copy that is empty.                                              *)
MapInv ==
    /\ ~pub.have => pub.map = NoMap
    /\ con.seqno = 0 => con.map = NoMap
    /\ MaxSessions = 1 /\ pub.have =>
         /\ Vouched(pub)
         /\ con.seqno # 0 => Vouched(con)
         /\ pub.mapSeq \notin reused =>
              /\ pub.map = seen.map
              /\ con.seqno # 0 /\ con.mapSeq = pub.mapSeq => con.map = pub.map
              /\ con.seqno = pub.seqno => con.map = pub.map

SnapshotInv == TypeInv /\ HistoryInv /\ MapInv /\ ListHeld

-----------------------------------------------------------------------------
(* Numbers and maps *)

LEMMA TwoNumbers ==
  ASSUME NEW a \in Nat, NEW b \in Nat
  PROVE  /\ Max({a, b}) \in {a, b} /\ Max({a, b}) >= a /\ Max({a, b}) >= b
         /\ Min({a, b}) \in {a, b} /\ Min({a, b}) <= a /\ Min({a, b}) <= b
<1>1. \E x \in {a, b} : \A y \in {a, b} : x >= y
  <2>1. CASE a >= b
    BY <2>1
  <2>2. CASE b >= a
    BY <2>2
  <2> QED
    BY <2>1, <2>2
<1>2. \E x \in {a, b} : \A y \in {a, b} : x <= y
  <2>1. CASE a >= b
    BY <2>1
  <2>2. CASE b >= a
    BY <2>2
  <2> QED
    BY <2>1, <2>2
<1>3. Max({a, b}) \in {a, b} /\ \A y \in {a, b} : Max({a, b}) >= y
  BY <1>1, Zenon DEF Max
<1>4. Min({a, b}) \in {a, b} /\ \A y \in {a, b} : Min({a, b}) <= y
  BY <1>2, Zenon DEF Min
<1> QED
  BY <1>3, <1>4

(* A set of numbers with a bound has a greatest one.                       *)
LEMMA GreatestNumber ==
  ASSUME NEW bound \in Nat, NEW S \in SUBSET (0 .. bound), S # {}
  PROVE  Max(S) \in S
<1> DEFINE Less == {p \in Nat \X Nat : p[1] < p[2]}
           Gaps == {bound - x : x \in S}
<1>1. IsWellFoundedOn(Less, Nat)
  BY NatLessThanWellFounded DEF OpToRel
<1>2. Gaps \subseteq Nat /\ Gaps # {}
  <2>1. \A x \in S : bound - x \in Nat
    OBVIOUS
  <2>2. PICK x \in S : TRUE
    OBVIOUS
  <2>3. bound - x \in Gaps
    BY <2>2
  <2> QED
    BY <2>1, <2>3
<1>3. \E g \in Gaps : \A h \in Gaps : <<h, g>> \notin Less
  <2> HIDE DEF Less, Gaps
  <2> QED
    BY <1>1, <1>2, WFMin
<1>4. PICK g \in Gaps : \A h \in Gaps : <<h, g>> \notin Less
  BY <1>3
<1>5. PICK x \in S : g = bound - x
  OBVIOUS
<1>6. ASSUME NEW y \in S
      PROVE  x >= y
  <2>1. bound - y \in Gaps /\ bound - y \in Nat /\ g \in Nat
    BY <1>2
  <2>2. ~(bound - y < g)
    BY <1>4, <2>1
  <2> QED
    BY <1>5, <2>1, <2>2
<1>7. \E m \in S : \A y \in S : m >= y
  BY <1>6
<1> QED
  BY <1>7, Zenon DEF Max

LEMMA ChannelsFinite == ASSUME host \in Hosts PROVE IsFiniteSet(Channels)
BY HostsAssumption DEF Channels

(* The number of mapped channels, and that only the empty map has none.    *)
LEMMA UsedCounts ==
  ASSUME host \in Hosts, NEW map \in Maps
  PROVE  /\ Cardinality(Channels) \in Nat /\ Used(map) \in 0 .. Cardinality(Channels)
         /\ Used(map) = 0 <=> map = NoMap
<1> DEFINE mapped == {c \in Channels : map[c] # 0}
<1>1. IsFiniteSet(mapped) /\ Cardinality(mapped) <= Cardinality(Channels)
  BY ChannelsFinite, FS_Subset
<1>2. Cardinality(Channels) \in Nat /\ Cardinality(mapped) \in Nat
  BY <1>1, ChannelsFinite, FS_CardinalityType
<1>3. Cardinality(mapped) = 0 <=> mapped = {}
  BY <1>1, FS_EmptySet
<1>4. mapped = {} <=> map = NoMap
  BY DEF Maps, NoMap
<1> QED
  BY <1>1, <1>2, <1>3, <1>4 DEF Used

LEMMA HostBounds ==
  ASSUME host \in Hosts
  PROVE  /\ MaxRows \in Nat /\ MaxChanges \in Nat /\ MaxPublishes \in Nat
         /\ MaxSessions \in Nat \ {0} /\ Embedded \in Nat /\ 0 \notin Freqs /\ Freqs \subseteq Nat
         /\ 0 \notin Targets /\ (Targets # {} => 1 \in Targets)
BY HostsAssumption DEF MaxRows, MaxChanges, MaxPublishes, MaxSessions, Freqs, Targets

LEMMA EmptyTyped ==
  ASSUME host \in Hosts
  PROVE  NoMap \in Maps /\ NoRows \in RowTypes /\ NoList \in Lists /\ NoList \in CopiedLists
BY HostBounds DEF NoMap, Maps, NoRows, RowTypes, NoList, Lists, CopiedLists

-----------------------------------------------------------------------------
(* Initial states *)

LEMMA FreshTyped ==
  ASSUME host \in Hosts, NEW n \in Nat, NEW a \in Addrs, NEW m \in Maps
  PROVE  FreshState(n, a, m) \in StateTypes
BY UsedCounts, EmptyTyped DEF FreshState, StateTypes

LEMMA ScanTyped ==
  ASSUME host \in Hosts, NEW n \in Nat, NEW a \in Addrs, NEW ms \in [Targets -> Maps], Targets # {}
  PROVE  /\ ScanState(n, a, ms).st \in StateTypes /\ ScanState(n, a, ms).co \in CoordTypes
         /\ ScanState(n, a, ms).co.active \in Targets
         /\ ScanState(n, a, ms).st.alive /\ ScanState(n, a, ms).st.fresh
         /\ \A s \in Slots : ScanState(n, a, ms).st.rev[s] = 1
<1> DEFINE counts == {Used(ms[t]) : t \in Targets}
           last == Max(counts)
           next == NextMapSeq(last, Used(ms[1]))
<1>1. 1 \in Targets /\ 0 \notin Targets
  BY HostBounds
<1>2. \A t \in Targets : Used(ms[t]) \in 0 .. Cardinality(Channels)
  BY UsedCounts
<1>3. last \in Nat
  <2>1. counts \in SUBSET (0 .. Cardinality(Channels)) /\ counts # {} /\ Cardinality(Channels) \in Nat
    BY <1>1, <1>2, UsedCounts
  <2>2. last \in counts
    <3> HIDE DEF counts
    <3> QED
      BY <2>1, GreatestNumber
  <2> QED
    BY <2>1, <2>2
<1>4. next \in Nat
  <2>1. Used(ms[1]) \in Nat
    BY <1>1, <1>2
  <2> HIDE DEF last
  <2> QED
    BY <1>3, <2>1, TwoNumbers DEF NextMapSeq
<1>5. ScanState(n, a, ms) =
        [st |-> [FreshState(n, a, ms[1]) EXCEPT !.seq = next],
         co |-> [active |-> 1, last |-> next, retry |-> FALSE,
                 snapshot |-> [t \in Targets |->
                     [seq |-> IF t = 1 THEN next ELSE Used(ms[t]), map |-> ms[t]]]]]
  BY DEF ScanState
<1> HIDE DEF next
<1>6. [FreshState(n, a, ms[1]) EXCEPT !.seq = next] \in StateTypes
  BY <1>1, <1>4, FreshTyped DEF StateTypes
<1>7. \A t \in Targets : Used(ms[t]) \in Nat
  BY <1>2
<1>8. ScanState(n, a, ms).co \in CoordTypes /\ ScanState(n, a, ms).co.active \in Targets
  BY <1>1, <1>4, <1>5, <1>7 DEF CoordTypes
<1>9. ScanState(n, a, ms).st = [FreshState(n, a, ms[1]) EXCEPT !.seq = next]
  BY <1>5
<1> QED
  BY <1>6, <1>8, <1>9 DEF FreshState

LEMMA InitSnapshot == SnapshotInit => SnapshotInv
<1> SUFFICES ASSUME SnapshotInit PROVE SnapshotInv
  OBVIOUS
<1>1. host \in Hosts /\ session = 1 /\ changes = 0
  BY DEF SnapshotInit
<1>2. /\ state \in StateTypes /\ coord \in CoordTypes /\ (Targets # {} => coord.active \in Targets)
      /\ state.alive /\ state.fresh /\ \A s \in Slots : state.rev[s] = 1
  <2>1. CASE Targets = {}
    <3>1. PICK a \in Addrs, m \in Maps : state = FreshState(1, a, m) /\ coord = EmptyCoord
      BY <2>1 DEF SnapshotInit
    <3>2. coord \in CoordTypes
      BY <1>1, <3>1, EmptyTyped DEF EmptyCoord, CoordTypes
    <3> QED
      BY <1>1, <2>1, <3>1, <3>2, FreshTyped DEF FreshState
  <2>2. CASE Targets # {}
    <3>1. PICK a \in Addrs, ms \in [Targets -> Maps] :
              state = ScanState(1, a, ms).st /\ coord = ScanState(1, a, ms).co
      BY <2>2 DEF SnapshotInit
    <3> QED
      BY <1>1, <2>2, <3>1, ScanTyped
  <2> QED
    BY <2>1, <2>2
<1>3. pub \in PubTypes /\ con \in ConTypes
  BY <1>1, HostBounds, EmptyTyped DEF SnapshotInit, PubTypes, ConTypes
<1>4. TypeInv
  BY <1>1, <1>2, <1>3, HostBounds DEF TypeInv, SnapshotInit, View
<1>5. HistoryInv
  BY <1>2 DEF HistoryInv, SnapshotInit
<1>6. MapInv
  BY DEF MapInv, SnapshotInit
<1>7. ListHeld
  BY <1>1, HostBounds DEF ListHeld, SnapshotInit, NoList
<1> QED
  BY <1>4, <1>5, <1>6, <1>7 DEF SnapshotInv

-----------------------------------------------------------------------------
(* Steps of the decoder *)

LEMMA SameHost ==
  ASSUME UNCHANGED host
  PROVE  /\ Slots' = Slots /\ Targets' = Targets /\ MaxSessions' = MaxSessions /\ MaxChanges' = MaxChanges
         /\ MaxPublishes' = MaxPublishes /\ NoMap' = NoMap /\ Maps' = Maps /\ Lists' = Lists /\ Addrs' = Addrs
         /\ StateTypes' = StateTypes /\ CoordTypes' = CoordTypes /\ PubTypes' = PubTypes /\ ConTypes' = ConTypes
BY DEF Slots, Targets, MaxSessions, MaxChanges, MaxPublishes, NoMap, Maps, Lists, Addrs, Channels, Freqs, MaxRows,
       StateTypes, CoordTypes, PubTypes, ConTypes

(* What any change of the decoder's state comes to: revisions never go     *)
(* back; the sequence number goes past every one before it but those that  *)
(* come again, and the map does not change without it.                     *)
Moves ==
    /\ state.alive /\ ~state.fresh
    /\ state' \in StateTypes /\ coord' \in CoordTypes /\ changes' \in 0 .. MaxChanges
    /\ Targets # {} => coord'.active \in Targets
    /\ state'.alive = state.alive /\ state'.fresh = state.fresh /\ state'.inst = state.inst
    /\ \A s \in Slots : state'.rev[s] >= state.rev[s]
    /\ reused \subseteq reused' /\ reused' \subseteq Nat
    /\ \A n \in Nat : n <= state.seq /\ n \notin reused' =>
          n < state'.seq \/ (n = state'.seq /\ state'.seq = state.seq /\ state'.map = state.map)
    /\ UNCHANGED <<host, pub, con, session, seen>>

LEMMA MovesKeep == SnapshotInv /\ Moves => SnapshotInv'
<1> SUFFICES ASSUME SnapshotInv, Moves PROVE SnapshotInv'
  OBVIOUS
<1>0. TypeInv /\ HistoryInv /\ MapInv /\ ListHeld
  BY DEF SnapshotInv
<1>1. UNCHANGED <<host, pub, con, session, seen>>
  BY DEF Moves
<1>2. TypeInv'
  BY <1>0, <1>1, SameHost DEF TypeInv, Moves
<1>3. HistoryInv'
  <2>1. \A s \in Slots : state'.rev[s] = state.rev[s] => Rows(state)'[s] = Rows(state)[s]
    BY <1>1, SameHost DEF Rows, Moves, NoRows
  <2>2. ASSUME pub.have, NEW s \in Slots
        PROVE  /\ pub.srcRev[s] = 1 => pub.rows[s] = NoRows
               /\ pub.srcRev[s] <= state'.rev[s]
               /\ pub.srcRev[s] = state'.rev[s] => pub.rows[s] = Rows(state)'[s]
    <3>1. /\ pub.srcRev[s] = 1 => pub.rows[s] = NoRows
          /\ pub.srcRev[s] <= state.rev[s]
          /\ pub.srcRev[s] = state.rev[s] => pub.rows[s] = Rows(state)[s]
      BY <1>0, <2>2 DEF HistoryInv, Moves
    <3>2. pub.srcRev[s] \in Nat /\ state.rev[s] \in Nat /\ state'.rev[s] \in Nat /\ state'.rev[s] >= state.rev[s]
      BY <1>0 DEF TypeInv, PubTypes, StateTypes, Moves
    <3> QED
      BY <2>1, <3>1, <3>2
  <2>3. ~state.fresh /\ ~state'.fresh
    BY DEF Moves
  <2> QED
    BY <1>0, <1>1, <2>2, <2>3, SameHost DEF HistoryInv, NoRows
<1>4. MapInv'
  <2>1. state.seq \in Nat /\ state'.seq \in Nat /\ pub.mapSeq \in Nat /\ con.mapSeq \in Nat
    BY <1>0 DEF TypeInv, PubTypes, ConTypes, StateTypes, Moves
  <2>2. reused \subseteq reused'
    BY DEF Moves
  <2>3. ASSUME NEW copy, copy.mapSeq \in Nat, Vouched(copy), copy.mapSeq \notin reused'
        PROVE  copy.mapSeq <= state'.seq /\ (copy.mapSeq = state'.seq => copy.map = state'.map)
    <3>1. copy.mapSeq <= state.seq /\ (copy.mapSeq = state.seq => copy.map = state.map)
      BY <2>2, <2>3 DEF Vouched
    <3>2. copy.mapSeq < state'.seq
          \/ (copy.mapSeq = state'.seq /\ state'.seq = state.seq /\ state'.map = state.map)
      BY <2>3, <3>1 DEF Moves
    <3> QED
      BY <2>1, <2>3, <3>1, <3>2
  <2>4. (Vouched(pub) => Vouched(pub)') /\ (Vouched(con) => Vouched(con)')
    BY <1>1, <2>1, <2>3 DEF Vouched
  <2> QED
    BY <1>0, <1>1, <2>2, <2>4, SameHost DEF MapInv
<1>5. ListHeld'
  BY <1>0, <1>1 DEF ListHeld
<1> QED
  BY <1>2, <1>3, <1>4, <1>5 DEF SnapshotInv

(* The state with its revisions, sequence number, map and list replaced.   *)
Altered(rev, seq, map, list) ==
    [alive |-> state.alive, fresh |-> state.fresh, addr |-> state.addr, inst |-> state.inst,
     rev |-> rev, seq |-> seq, map |-> map, list |-> list]

LEMMA AlteredMoves ==
  ASSUME TypeInv, Change, UNCHANGED <<host, pub, con, session, seen>>,
         reused \subseteq reused', reused' \subseteq Nat,
         NEW rev \in [Slots -> Nat \ {0}], NEW seq \in Nat, NEW map \in Maps, NEW list \in Lists,
         state' = Altered(rev, seq, map, list),
         coord' \in CoordTypes, Targets # {} => coord'.active \in Targets,
         \A s \in Slots : rev[s] >= state.rev[s],
         \/ seq > state.seq \/ (seq = state.seq /\ map = state.map)
         \/ seq .. state.seq \subseteq reused'
  PROVE  Moves
<1>1. changes' \in 0 .. MaxChanges /\ state.alive /\ ~state.fresh
  BY HostBounds DEF Change, TypeInv
<1>2. state.alive \in BOOLEAN /\ state.fresh \in BOOLEAN /\ state.addr \in Addrs /\ state.inst \in Nat
  BY DEF TypeInv, StateTypes
<1>3. Altered(rev, seq, map, list) \in StateTypes
  BY <1>2 DEF Altered, StateTypes
<1>4. ASSUME NEW n \in Nat, n <= state.seq, n \notin reused'
      PROVE  n < seq \/ (n = seq /\ seq = state.seq /\ map = state.map)
  <2>1. state.seq \in Nat
    BY DEF TypeInv, StateTypes
  <2>2. CASE seq .. state.seq \subseteq reused'
    <3>1. n \notin seq .. state.seq
      BY <1>4, <2>2
    <3> QED
      BY <1>4, <2>1, <3>1
  <2>3. CASE seq > state.seq \/ (seq = state.seq /\ map = state.map)
    BY <1>4, <2>1, <2>3
  <2> QED
    BY <2>2, <2>3
<1>5. state'.seq = seq /\ state'.map = map
  BY DEF Altered
<1> QED
  BY <1>1, <1>3, <1>4, <1>5 DEF Moves, Altered

LEMMA StateFields ==
  ASSUME TypeInv
  PROVE  /\ state.rev \in [Slots -> Nat \ {0}] /\ state.seq \in Nat /\ state.map \in Maps /\ state.list \in Lists
         /\ state = Altered(state.rev, state.seq, state.map, state.list)
         /\ coord \in CoordTypes /\ (Targets # {} => coord.active \in Targets)
         /\ (UNCHANGED reused => reused \subseteq reused' /\ reused' \subseteq Nat)
BY DEF TypeInv, StateTypes, Altered

LEMMA HistoryMoves ==
  ASSUME TypeInv, NEW s \in Slots, WriteHistory(s)
  PROVE  Moves
<1> DEFINE rev == [state.rev EXCEPT ![s] = @ + 1]
<1>1. state' = Altered(rev, state.seq, state.map, state.list)
  BY StateFields DEF WriteHistory, Altered
<1>2. rev \in [Slots -> Nat \ {0}] /\ \A x \in Slots : rev[x] >= state.rev[x]
  BY StateFields
<1> HIDE DEF rev
<1> QED
  BY <1>1, <1>2, StateFields, AlteredMoves DEF WriteHistory

LEMMA LearnMoves ==
  ASSUME TypeInv, NEW c \in Channels, NEW f \in Freqs \cup {0}, LearnChannel(c, f)
  PROVE  Moves
<1> DEFINE map == [state.map EXCEPT ![c] = f]
<1>1. state' = Altered(state.rev, state.seq + 1, map, state.list)
  BY StateFields DEF LearnChannel, Altered
<1>2. map \in Maps
  BY StateFields DEF Maps
<1>3. state.seq + 1 \in Nat /\ state.seq + 1 > state.seq /\ \A x \in Slots : state.rev[x] >= state.rev[x]
  BY StateFields
<1> HIDE DEF map
<1> QED
  BY <1>1, <1>2, <1>3, StateFields, AlteredMoves DEF LearnChannel

LEMMA AdoptMoves ==
  ASSUME TypeInv, NEW m \in Maps, NEW l \in Lists, AdoptMap(m, l)
  PROVE  Moves
<1>1. state' = Altered(state.rev, state.seq + 1, m, l)
  BY StateFields DEF AdoptMap, Altered
<1>2. state.seq + 1 \in Nat /\ state.seq + 1 > state.seq /\ \A x \in Slots : state.rev[x] >= state.rev[x]
  BY StateFields
<1> QED
  BY <1>1, <1>2, StateFields, AlteredMoves DEF AdoptMap

LEMMA ListMoves ==
  ASSUME TypeInv, GrowList \/ RollList
  PROVE  Moves
<1>1. MaxRows \in Nat
  BY HostBounds DEF TypeInv
<1>2. PICK l \in Lists : state' = Altered(state.rev, state.seq, state.map, l)
  <2>1. CASE GrowList
    <3>1. [state.list EXCEPT !.count = @ + 1] \in Lists
      BY <1>1, <2>1, StateFields DEF Lists, GrowList
    <3>2. state' = Altered(state.rev, state.seq, state.map, [state.list EXCEPT !.count = @ + 1])
      BY <2>1, StateFields DEF GrowList, Altered
    <3> QED
      BY <3>1, <3>2
  <2>2. CASE RollList
    <3> DEFINE l == [state.list EXCEPT !.roll = IF @ >= state.list.count THEN 1 ELSE @ + 1]
    <3>1. l \in Lists
      BY <1>1, <2>2, StateFields DEF Lists, RollList
    <3>2. state' = Altered(state.rev, state.seq, state.map, l)
      BY <2>2, StateFields DEF RollList, Altered
    <3> QED
      BY <3>1, <3>2
  <2> QED
    BY <2>1, <2>2
<1>3. Change /\ UNCHANGED <<host, coord, pub, con, session, seen, reused>>
  BY DEF GrowList, RollList
<1>4. \A x \in Slots : state.rev[x] >= state.rev[x]
  BY StateFields
<1> QED
  BY <1>2, <1>3, <1>4, StateFields, AlteredMoves

LEMMA RestoredState ==
  ASSUME TypeInv, NEW seq \in Nat, NEW map \in Maps, NEW st, st = [state EXCEPT !.map = map, !.seq = seq]
  PROVE  st = Altered(state.rev, seq, map, state.list)
BY StateFields DEF Altered

(* Saving and restoring a target: the number restored is past that of the  *)
(* map that is left, if it was saved.                                      *)
LEMMA SaveTyped ==
  ASSUME TypeInv, Targets # {}
  PROVE  /\ SaveTarget(coord, state) \in CoordTypes
         /\ SaveTarget(coord, state).last >= state.seq
<1> DEFINE saved == SaveTarget(coord, state)
           new == [seq |-> state.seq, map |-> state.map]
           last == Max({coord.last, state.seq})
<1>1. coord.last \in Nat /\ coord.active \in Targets
  BY DEF TypeInv, CoordTypes
<1>2. new \in [seq: Nat, map: Maps]
  BY StateFields
<1>3. last \in Nat /\ last >= state.seq
  BY <1>1, StateFields, TwoNumbers
<1>4. saved = [coord EXCEPT !.snapshot[coord.active] = new, !.last = last]
  BY DEF SaveTarget
<1> HIDE DEF saved, new, last
<1>5. saved \in CoordTypes /\ saved.last = last
  BY <1>1, <1>2, <1>3, <1>4 DEF TypeInv, CoordTypes
<1> QED
  BY <1>3, <1>5 DEF saved

LEMMA RestoreTyped ==
  ASSUME TypeInv, NEW co \in CoordTypes, NEW t \in Targets
  PROVE  /\ RestoreTarget(co, state, t).co \in CoordTypes
         /\ RestoreTarget(co, state, t).co.active = t
         /\ \E seq \in Nat, map \in Maps :
              /\ RestoreTarget(co, state, t).st = Altered(state.rev, seq, map, state.list)
              /\ co.last >= state.seq => seq > state.seq
<1> DEFINE next == NextMapSeq(co.last, co.snapshot[t].seq)
           restored == RestoreTarget(co, state, t).co
           st == RestoreTarget(co, state, t).st
<1>1. co.last \in Nat /\ co.snapshot[t].seq \in Nat /\ co.snapshot[t].map \in Maps
  BY DEF CoordTypes
<1>2. next \in Nat /\ (co.last >= state.seq => next > state.seq)
  <2>1. /\ Max({co.last, co.snapshot[t].seq}) \in Nat
        /\ Max({co.last, co.snapshot[t].seq}) >= co.last
        /\ Max({co.last, co.snapshot[t].seq}) >= co.snapshot[t].seq
    BY <1>1, TwoNumbers
  <2> QED
    BY <1>1, <2>1, StateFields DEF NextMapSeq
<1>3. /\ restored = [co EXCEPT !.active = t, !.last = next, !.snapshot[t].seq = next]
      /\ st = [state EXCEPT !.map = co.snapshot[t].map, !.seq = next]
  BY DEF RestoreTarget
<1> HIDE DEF next, restored, st
<1>4. restored \in CoordTypes /\ restored.active = t
  BY <1>2, <1>3 DEF CoordTypes
<1>5. st = Altered(state.rev, next, co.snapshot[t].map, state.list)
  BY <1>1, <1>2, <1>3, RestoredState, Zenon
<1>6. \E seq \in Nat, map \in Maps :
        st = Altered(state.rev, seq, map, state.list) /\ (co.last >= state.seq => seq > state.seq)
  BY <1>1, <1>2, <1>5
<1> QED
  BY <1>4, <1>6 DEF restored, st

LEMMA ScanMoves ==
  ASSUME TypeInv,
         \/ Retry \/ ParkFails
         \/ \E t \in Targets : Advance(t)
         \/ \E t \in Targets, owed \in BOOLEAN : AdvanceFails(t, owed)
  PROVE  Moves
<1>1. Targets # {} /\ Change /\ UNCHANGED <<host, pub, con, session, seen>> /\ coord.active \in Targets
  <2>1. Targets # {} /\ Change /\ UNCHANGED <<host, pub, con, session, seen>>
    BY Zenon DEF Retry, ParkFails, Advance, AdvanceFails
  <2> QED
    BY <2>1, StateFields
<1>2. \A x \in Slots : state.rev[x] >= state.rev[x]
  BY StateFields
<1>3. ASSUME NEW t \in Targets, Advance(t)
      PROVE  Moves
  <2> DEFINE saved == SaveTarget(coord, state)
             moved == RestoreTarget(saved, state, t)
  <2>1. coord' = [moved.co EXCEPT !.retry = FALSE] /\ state' = moved.st /\ UNCHANGED reused
    BY <1>3 DEF Advance
  <2>2. saved \in CoordTypes /\ saved.last >= state.seq
    BY <1>1, SaveTyped
  <2> HIDE DEF saved
  <2>3. moved.co \in CoordTypes /\ moved.co.active = t
    BY <2>2, RestoreTyped
  <2>4. PICK seq \in Nat, map \in Maps :
            moved.st = Altered(state.rev, seq, map, state.list) /\ seq > state.seq
    BY <2>2, RestoreTyped
  <2> HIDE DEF moved
  <2>5. coord' \in CoordTypes /\ coord'.active \in Targets
    BY <2>1, <2>3 DEF CoordTypes
  <2> QED
    BY <1>1, <1>2, <2>1, <2>4, <2>5, StateFields, AlteredMoves
<1>4. ASSUME NEW t \in Targets, NEW owed \in BOOLEAN, AdvanceFails(t, owed)
      PROVE  Moves
  <2> DEFINE saved == SaveTarget(coord, state)
             moved == RestoreTarget(saved, state, t)
             due == coord.retry \/ t = coord.active \/ owed
  <2>1. /\ coord' = [moved.co EXCEPT !.active = coord.active, !.retry = due]
        /\ state' = state /\ UNCHANGED reused
    BY <1>4, Zenon DEF AdvanceFails
  <2>2. saved \in CoordTypes /\ saved.last >= state.seq
    BY <1>1, SaveTyped
  <2> HIDE DEF saved
  <2>3. moved.co \in CoordTypes
    BY <2>2, RestoreTyped
  <2> HIDE DEF moved
  <2>4. due \in BOOLEAN
    OBVIOUS
  <2> HIDE DEF due
  <2>5. coord' \in CoordTypes /\ coord'.active \in Targets
    BY <1>1, <2>1, <2>3, <2>4 DEF CoordTypes
  <2> QED
    BY <1>1, <1>2, <2>1, <2>5, StateFields, AlteredMoves
<1>5. ASSUME ParkFails
      PROVE  Moves
  <2>1. coord' = [coord EXCEPT !.retry = TRUE] /\ state' = state /\ UNCHANGED reused
    BY <1>5 DEF ParkFails
  <2>2. coord' \in CoordTypes /\ coord'.active \in Targets
    BY <1>1, <2>1, StateFields DEF CoordTypes
  <2> QED
    BY <1>1, <1>2, <2>1, <2>2, StateFields, AlteredMoves
<1>6. ASSUME Retry
      PROVE  Moves
  <2> DEFINE moved == RestoreTarget(coord, state, coord.active)
  <2>1. PICK again \in BOOLEAN : coord' = [moved.co EXCEPT !.retry = again]
    BY <1>6 DEF Retry
  <2>2. state' = moved.st /\ reused' = reused \cup (moved.st.seq .. state.seq)
    BY <1>6 DEF Retry
  <2>3. moved.co \in CoordTypes /\ moved.co.active = coord.active
    BY <1>1, StateFields, RestoreTyped
  <2>4. PICK seq \in Nat, map \in Maps : moved.st = Altered(state.rev, seq, map, state.list)
    BY <1>1, StateFields, RestoreTyped
  <2> HIDE DEF moved
  <2>5. coord' \in CoordTypes /\ coord'.active \in Targets
    BY <1>1, <2>1, <2>3 DEF CoordTypes
  <2>6. moved.st.seq = seq
    BY <2>4 DEF Altered
  <2>7. reused \subseteq reused' /\ reused' \subseteq Nat /\ seq .. state.seq \subseteq reused'
    BY <2>2, <2>6, StateFields DEF TypeInv
  <2> QED
    BY <1>1, <1>2, <2>2, <2>4, <2>5, <2>7, StateFields, AlteredMoves
<1> QED
  BY <1>3, <1>4, <1>5, <1>6

-----------------------------------------------------------------------------
(* Publication and consumption *)

(* Whatever allocations fail, a copied list fits in what the copy holds.   *)
LEMMA CopyFits ==
  ASSUME NEW dst, dst.tail \in Nat, NEW src \in CopiedLists, NEW tailOk \in BOOLEAN, NEW namesOk \in BOOLEAN,
         Embedded \in Nat,
         NEW l, l = CopyList(dst, src, tailOk, namesOk)
  PROVE  /\ l.list \in CopiedLists /\ l.tail \in Nat
         /\ l.list.count <= Embedded + l.tail
         /\ l.list.roll <= l.list.count /\ l.list.named <= l.list.count
<1> DEFINE roll == IF src.roll > src.count THEN 0 ELSE src.roll
           ext == IF src.count > Embedded THEN src.count - Embedded ELSE 0
           fits == ext <= dst.tail \/ tailOk
           count == IF fits THEN src.count ELSE Embedded
           named == IF namesOk THEN Min({count, src.named}) ELSE 0
           tail == IF fits THEN Max({dst.tail, ext}) ELSE dst.tail
<1>1. src.count \in Nat /\ src.roll \in Nat /\ src.named \in Nat
  BY DEF CopiedLists
<1>2. ext \in Nat /\ roll \in Nat /\ count \in Nat /\ src.count <= Embedded + ext /\ roll <= src.count
  BY <1>1
<1>3. l.list = [count |-> count, roll |-> IF fits THEN roll ELSE 0, named |-> named] /\ l.tail = tail
  BY DEF CopyList
<1>4. named \in Nat /\ named <= count
  <2> HIDE DEF count
  <2> QED
    BY <1>1, <1>2, TwoNumbers
<1>5. tail \in Nat /\ (fits => tail >= ext)
  <2> HIDE DEF ext
  <2> QED
    BY <1>2, TwoNumbers
<1> HIDE DEF named, tail, ext, roll
<1> QED
  BY <1>1, <1>2, <1>3, <1>4, <1>5 DEF CopiedLists

LEMMA PublishKeeps ==
  ASSUME SnapshotInv, NEW tailOk \in BOOLEAN, NEW namesOk \in BOOLEAN, Publish(tailOk, namesOk)
  PROVE  SnapshotInv'
<1> DEFINE l == CopyList(pub, state.list, tailOk, namesOk)
           copied == CopiedSlots
<1>0. TypeInv /\ HistoryInv /\ MapInv /\ ListHeld /\ host \in Hosts
  BY DEF SnapshotInv, TypeInv
<1>1. /\ UNCHANGED <<host, coord, con, session, changes, reused>>
      /\ state' = [state EXCEPT !.fresh = FALSE] /\ state.alive
      /\ seen' = [rows |-> Rows(state), map |-> state.map]
      /\ pub.seqno < MaxPublishes
  BY DEF Publish
<1>2. /\ pub'.have /\ pub'.seqno = pub.seqno + 1 /\ pub'.source = state.addr /\ pub'.present
      /\ pub'.ehSeq = [s \in Slots |-> pub.ehSeq[s] + (IF s \in copied THEN 1 ELSE 0)]
      /\ pub'.srcRev = [s \in Slots |-> IF s \in copied THEN state.rev[s] ELSE pub.srcRev[s]]
      /\ pub'.rows = [s \in Slots |-> IF s \in copied THEN Rows(state)[s] ELSE pub.rows[s]]
      /\ pub'.mapSeq = state.seq
      /\ pub'.map = IF SameMap(pub, state.seq, state.map) THEN pub.map ELSE state.map
      /\ pub'.list = l.list /\ pub'.tail = l.tail
  BY DEF Publish
<1>3. /\ l.list \in CopiedLists /\ l.tail \in Nat
      /\ l.list.count <= Embedded + l.tail /\ l.list.roll <= l.list.count /\ l.list.named <= l.list.count
  <2>1. state.list \in CopiedLists /\ pub.tail \in Nat /\ Embedded \in Nat
    BY <1>0, HostBounds DEF TypeInv, StateTypes, PubTypes, Lists, CopiedLists
  <2> QED
    BY <2>1, CopyFits
<1> HIDE DEF l
<1>4. \A s \in Slots : s \notin copied => /\ pub.have /\ pub.srcRev[s] = state.rev[s]
                                         /\ pub.rows[s] = Rows(state)[s]
  <2> SUFFICES ASSUME NEW s \in Slots, s \notin copied
               PROVE  pub.have /\ pub.srcRev[s] = state.rev[s] /\ pub.rows[s] = Rows(state)[s]
    OBVIOUS
  <2>1. pub.have /\ pub.srcRev[s] = state.rev[s]
    BY DEF CopiedSlots, ForceCopy
  <2>2. CASE state.fresh
    BY <1>0, <2>1, <2>2 DEF HistoryInv, Rows
  <2>3. CASE ~state.fresh
    BY <1>0, <2>1, <2>3 DEF HistoryInv
  <2> QED
    BY <2>1, <2>2, <2>3
<1> HIDE DEF copied
<1>5. Rows(state) \in [Slots -> RowTypes] /\ Rows(state)' = Rows(state)
  BY <1>0, <1>1, SameHost DEF Rows, NoRows, RowTypes, TypeInv, StateTypes
<1>6. pub'.rows = Rows(state) /\ pub'.srcRev = state.rev
  <2>1. \A s \in Slots : /\ (IF s \in copied THEN Rows(state)[s] ELSE pub.rows[s]) = Rows(state)[s]
                         /\ (IF s \in copied THEN state.rev[s] ELSE pub.srcRev[s]) = state.rev[s]
    BY <1>4
  <2>2. pub'.rows = [s \in Slots |-> Rows(state)[s]] /\ pub'.srcRev = [s \in Slots |-> state.rev[s]]
    BY <1>2, <2>1
  <2>3. state.rev \in [Slots -> Nat \ {0}]
    BY <1>0, StateFields
  <2> QED
    BY <1>5, <2>2, <2>3
<1>7. /\ state' \in StateTypes /\ ~state'.fresh /\ state'.alive /\ state'.rev = state.rev
      /\ state'.seq = state.seq /\ state'.map = state.map
  BY <1>0, <1>1 DEF TypeInv, StateTypes
<1>8. pub' \in PubTypes
  <2>1. pub' = [have |-> TRUE, seqno |-> pub'.seqno, ehSeq |-> pub'.ehSeq, srcRev |-> pub'.srcRev,
                source |-> pub'.source, present |-> TRUE, rows |-> pub'.rows, mapSeq |-> pub'.mapSeq,
                map |-> pub'.map, list |-> pub'.list, tail |-> pub'.tail]
    BY DEF Publish
  <2>2. pub'.seqno \in 0 .. MaxPublishes /\ pub'.source \in Addrs /\ pub'.mapSeq \in Nat /\ pub'.map \in Maps
    BY <1>0, <1>1, <1>2, HostBounds DEF TypeInv, StateTypes, PubTypes
  <2>3. pub'.ehSeq \in [Slots -> Nat]
    BY <1>0, <1>2 DEF TypeInv, PubTypes
  <2>4. pub'.srcRev \in [Slots -> Nat]
    BY <1>0, <1>6 DEF TypeInv, StateTypes
  <2> QED
    BY <1>2, <1>3, <1>5, <1>6, <2>1, <2>2, <2>3, <2>4 DEF PubTypes
<1>9. pub.seqno \in Nat /\ con.seqno \in Nat /\ con.seqno <= pub.seqno
  BY <1>0, HostBounds DEF TypeInv, PubTypes, ConTypes
<1>10. TypeInv'
  BY <1>0, <1>1, <1>2, <1>7, <1>8, <1>9, SameHost DEF TypeInv
<1>11. HistoryInv'
  <2>1. ASSUME NEW s \in Slots
        PROVE  con.ehSeq[s] <= pub'.ehSeq[s] /\ (con.ehSeq[s] = pub'.ehSeq[s] => con.rows[s] = pub'.rows[s])
    <3>1. con.ehSeq[s] \in Nat /\ pub.ehSeq[s] \in Nat /\ con.ehSeq[s] <= pub.ehSeq[s]
          /\ (con.ehSeq[s] = pub.ehSeq[s] => con.rows[s] = pub.rows[s])
      BY <1>0 DEF TypeInv, PubTypes, ConTypes, HistoryInv
    <3>2. CASE s \in copied
      BY <1>2, <3>1, <3>2
    <3>3. CASE s \notin copied
      BY <1>2, <3>1, <3>3
    <3> QED
      BY <3>2, <3>3
  <2>2. \A s \in Slots : state.rev[s] = 1 => Rows(state)[s] = NoRows
    BY DEF Rows
  <2>3. \A s \in Slots : state.rev[s] \in Nat
    BY <1>0 DEF TypeInv, StateTypes
  <2>4. pub'.rows = seen'.rows
    BY <1>1, <1>6
  <2>5. con.seqno # pub'.seqno
    BY <1>2, <1>9
  <2> QED
    BY <1>1, <1>5, <1>6, <1>7, <2>1, <2>2, <2>3, <2>4, <2>5, SameHost DEF HistoryInv, NoRows
<1>12. MapInv'
  <2>1. ASSUME MaxSessions = 1, state.seq \notin reused
        PROVE  pub'.map = state.map
    <3>1. CASE pub.have
      BY <1>0, <1>2, <2>1, <3>1 DEF MapInv, Vouched, SameMap
    <3>2. CASE ~pub.have /\ SameMap(pub, state.seq, state.map)
      <4>1. pub.map = NoMap /\ Used(state.map) = Used(NoMap)
        BY <1>0, <3>2 DEF MapInv, SameMap
      <4>2. state.map \in Maps /\ NoMap \in Maps
        BY <1>0, EmptyTyped DEF TypeInv, StateTypes
      <4> QED
        BY <1>0, <1>2, <3>2, <4>1, <4>2, UsedCounts
    <3> QED
      BY <1>2, <3>1, <3>2
  <2>2. ASSUME MaxSessions = 1, con.seqno # 0
        PROVE  Vouched(con)
    <3>1. pub.have
      BY <1>0, <2>2 DEF TypeInv
    <3> QED
      BY <1>0, <2>2, <3>1 DEF MapInv
  <2>3. con.seqno # pub'.seqno /\ pub'.have
    BY <1>2, <1>9
  <2>4. state.seq \in Nat
    BY <1>0 DEF TypeInv, StateTypes
  <2>5. MaxSessions = 1 => Vouched(pub)'
    BY <1>1, <1>2, <1>7, <2>1, <2>4 DEF Vouched
  <2>6. MaxSessions = 1 /\ con.seqno # 0 => Vouched(con)'
    BY <1>1, <1>7, <2>2 DEF Vouched
  <2>7. ASSUME MaxSessions = 1, state.seq \notin reused, con.seqno # 0, con.mapSeq = pub'.mapSeq
        PROVE  con.map = pub'.map
    BY <1>2, <2>1, <2>2, <2>7 DEF Vouched
  <2> QED
    BY <1>0, <1>1, <1>2, <1>7, <2>1, <2>3, <2>5, <2>6, <2>7, SameHost DEF MapInv
<1>13. ListHeld'
  BY <1>0, <1>1, <1>2, <1>3 DEF ListHeld
<1> QED
  BY <1>10, <1>11, <1>12, <1>13 DEF SnapshotInv

LEMMA GetKeeps ==
  ASSUME SnapshotInv, NEW tailOk \in BOOLEAN, NEW namesOk \in BOOLEAN, Get(tailOk, namesOk)
  PROVE  SnapshotInv'
<1> DEFINE l == CopyList(con, pub.list, tailOk, namesOk)
<1>0. TypeInv /\ HistoryInv /\ MapInv /\ ListHeld /\ host \in Hosts
  BY DEF SnapshotInv, TypeInv
<1>1. UNCHANGED <<host, state, coord, pub, session, changes, seen, reused>> /\ pub.have
  BY DEF Get
<1>2. /\ con'.seqno = pub.seqno /\ con'.ehSeq = pub.ehSeq /\ con'.mapSeq = pub.mapSeq
      /\ con'.rows = [s \in Slots |-> IF con.ehSeq[s] # pub.ehSeq[s] THEN pub.rows[s] ELSE con.rows[s]]
      /\ con'.map = IF SameMap(con, pub.mapSeq, pub.map) THEN con.map ELSE pub.map
      /\ con'.list = l.list /\ con'.tail = l.tail
  BY DEF Get
<1>3. /\ l.list \in CopiedLists /\ l.tail \in Nat
      /\ l.list.count <= Embedded + l.tail /\ l.list.roll <= l.list.count /\ l.list.named <= l.list.count
  <2>1. pub.list \in CopiedLists /\ con.tail \in Nat /\ Embedded \in Nat
    BY <1>0, HostBounds DEF TypeInv, ConTypes, PubTypes
  <2> QED
    BY <2>1, CopyFits
<1> HIDE DEF l
<1>4. con'.rows = pub.rows
  <2>1. \A s \in Slots : (IF con.ehSeq[s] # pub.ehSeq[s] THEN pub.rows[s] ELSE con.rows[s]) = pub.rows[s]
    BY <1>0 DEF HistoryInv
  <2>2. con'.rows = [s \in Slots |-> pub.rows[s]]
    BY <1>2, <2>1
  <2>3. pub.rows \in [Slots -> RowTypes]
    BY <1>0 DEF TypeInv, PubTypes
  <2> QED
    BY <2>2, <2>3
<1>5. con' \in ConTypes
  <2>1. con' = [seqno |-> con'.seqno, ehSeq |-> con'.ehSeq, rows |-> con'.rows, mapSeq |-> con'.mapSeq,
                map |-> con'.map, list |-> con'.list, tail |-> con'.tail]
    BY DEF Get
  <2>2. /\ pub.seqno \in 0 .. MaxPublishes /\ pub.ehSeq \in [Slots -> Nat] /\ pub.mapSeq \in Nat
        /\ pub.rows \in [Slots -> RowTypes] /\ pub.map \in Maps /\ con.map \in Maps
    BY <1>0 DEF TypeInv, PubTypes, ConTypes
  <2> QED
    BY <1>2, <1>3, <1>4, <2>1, <2>2 DEF ConTypes
<1>6. pub.seqno \in Nat
  BY <1>0, HostBounds DEF TypeInv, PubTypes
<1>7. TypeInv'
  BY <1>0, <1>1, <1>2, <1>5, <1>6, SameHost DEF TypeInv
<1>8. HistoryInv'
  <2>1. \A s \in Slots : pub.ehSeq[s] <= pub.ehSeq[s]
    BY <1>0 DEF TypeInv, PubTypes
  <2>2. Rows(state)' = Rows(state)
    BY <1>1, SameHost DEF Rows
  <2> QED
    BY <1>0, <1>1, <1>2, <1>4, <2>1, <2>2, SameHost DEF HistoryInv, NoRows
<1>9. MapInv'
  <2>1. ASSUME MaxSessions = 1, pub.mapSeq \notin reused
        PROVE  con'.map = pub.map
    <3>1. CASE con.seqno # 0
      BY <1>0, <1>1, <1>2, <2>1, <3>1 DEF MapInv, SameMap
    <3>2. CASE con.seqno = 0 /\ SameMap(con, pub.mapSeq, pub.map)
      <4>1. con.map = NoMap /\ Used(pub.map) = Used(NoMap)
        BY <1>0, <3>2 DEF MapInv, SameMap
      <4>2. pub.map \in Maps /\ NoMap \in Maps
        BY <1>0, EmptyTyped DEF TypeInv, PubTypes
      <4> QED
        BY <1>0, <1>2, <3>2, <4>1, <4>2, UsedCounts
    <3> QED
      BY <1>2, <3>1, <3>2
  <2>2. con'.seqno = 0 => con'.map = NoMap
    <3>1. con.seqno <= pub.seqno /\ con.seqno # pub.seqno /\ con.seqno \in Nat
      BY <1>0, HostBounds DEF TypeInv, ConTypes, Get
    <3> QED
      BY <1>2, <1>6, <3>1
  <2>3. pub.mapSeq \in Nat
    BY <1>0 DEF TypeInv, PubTypes
  <2>4. MaxSessions = 1 => Vouched(pub)' /\ Vouched(con)'
    BY <1>0, <1>1, <1>2, <2>1, <2>3 DEF MapInv, Vouched
  <2> QED
    BY <1>0, <1>1, <1>2, <2>1, <2>2, <2>4, SameHost DEF MapInv
<1>10. ListHeld'
  BY <1>0, <1>1, <1>2, <1>3 DEF ListHeld
<1> QED
  BY <1>7, <1>8, <1>9, <1>10 DEF SnapshotInv

-----------------------------------------------------------------------------
(* Sessions *)

LEMMA EndKeeps ==
  ASSUME SnapshotInv, EndSession
  PROVE  SnapshotInv'
<1>0. TypeInv /\ HistoryInv /\ MapInv /\ ListHeld
  BY DEF SnapshotInv
<1>1. /\ UNCHANGED <<host, coord, pub, con, session, changes, seen, reused>>
      /\ state' = [state EXCEPT !.alive = FALSE] /\ ~state.fresh /\ session < MaxSessions
  BY DEF EndSession
<1>2. /\ state' \in StateTypes /\ ~state'.fresh /\ state'.rev = state.rev /\ state'.inst = state.inst
      /\ state'.seq = state.seq /\ state'.map = state.map
  BY <1>0, <1>1 DEF TypeInv, StateTypes
<1>3. TypeInv'
  BY <1>0, <1>1, <1>2, SameHost DEF TypeInv
<1>4. HistoryInv'
  <2>1. Rows(state)' = Rows(state)
    BY <1>1, <1>2, SameHost DEF Rows, NoRows
  <2> QED
    BY <1>0, <1>1, <1>2, <2>1, SameHost DEF HistoryInv, NoRows
<1>5. MapInv' /\ ListHeld'
  BY <1>0, <1>1, <1>2, SameHost DEF MapInv, Vouched, ListHeld
<1> QED
  BY <1>3, <1>4, <1>5 DEF SnapshotInv

LEMMA NewKeeps ==
  ASSUME SnapshotInv, NEW a \in Addrs, NEW m \in Maps, NewSession(a, m)
  PROVE  SnapshotInv'
<1>0. TypeInv /\ HistoryInv /\ MapInv /\ ListHeld /\ host \in Hosts
  BY DEF SnapshotInv, TypeInv
<1>1. /\ UNCHANGED <<host, coord, pub, con, seen, reused>> /\ changes' = 0 /\ session' = session + 1
      /\ state' = FreshState(session', a, m) /\ ~state.alive
  BY DEF NewSession
<1>2. MaxSessions \in Nat /\ session \in Nat /\ session >= 1 /\ session < MaxSessions /\ MaxChanges \in Nat
  BY <1>0, <1>1, HostBounds DEF TypeInv
<1>3. state' \in StateTypes
  BY <1>0, <1>1, <1>2, FreshTyped
<1>4. state'.fresh /\ state'.alive /\ \A s \in Slots : state'.rev[s] = 1
  BY <1>1 DEF FreshState
<1>5. TypeInv'
  BY <1>0, <1>1, <1>2, <1>3, <1>4, SameHost DEF TypeInv
<1>6. HistoryInv'
  BY <1>0, <1>1, <1>4, SameHost DEF HistoryInv, NoRows
<1>7. MapInv' /\ ListHeld'
  BY <1>0, <1>1, <1>2, SameHost DEF MapInv, Vouched, ListHeld
<1> QED
  BY <1>5, <1>6, <1>7 DEF SnapshotInv

-----------------------------------------------------------------------------
(* Results *)

LEMMA SnapshotStep == SnapshotInv /\ [SnapshotNext]_snapshotVars => SnapshotInv'
<1> SUFFICES ASSUME SnapshotInv, [SnapshotNext]_snapshotVars PROVE SnapshotInv'
  OBVIOUS
<1>0. TypeInv
  BY DEF SnapshotInv
<1>1. ASSUME NEW s \in Slots, WriteHistory(s) PROVE SnapshotInv'
  BY <1>0, <1>1, HistoryMoves, MovesKeep
<1>2. ASSUME NEW c \in Channels, NEW f \in Freqs \cup {0}, LearnChannel(c, f) PROVE SnapshotInv'
  BY <1>0, <1>2, LearnMoves, MovesKeep
<1>3. ASSUME NEW m \in Maps, NEW l \in Lists, AdoptMap(m, l) PROVE SnapshotInv'
  BY <1>0, <1>3, AdoptMoves, MovesKeep
<1>4. CASE GrowList \/ RollList
  BY <1>0, <1>4, ListMoves, MovesKeep
<1>5. CASE \/ Retry \/ ParkFails
           \/ \E t \in Targets : Advance(t)
           \/ \E t \in Targets, owed \in BOOLEAN : AdvanceFails(t, owed)
  BY <1>0, <1>5, ScanMoves, MovesKeep
<1>6. ASSUME NEW t \in BOOLEAN, NEW n \in BOOLEAN, Publish(t, n) PROVE SnapshotInv'
  BY <1>6, PublishKeeps
<1>7. ASSUME NEW t \in BOOLEAN, NEW n \in BOOLEAN, Get(t, n) PROVE SnapshotInv'
  BY <1>7, GetKeeps
<1>8. CASE EndSession
  BY <1>8, EndKeeps
<1>9. ASSUME NEW a \in Addrs, NEW m \in Maps, NewSession(a, m) PROVE SnapshotInv'
  BY <1>9, NewKeeps
<1>10. CASE UNCHANGED snapshotVars
  <2>1. TypeInv' /\ MapInv' /\ ListHeld'
    BY <1>10, SameHost DEF SnapshotInv, TypeInv, MapInv, Vouched, ListHeld, snapshotVars
  <2>2. Rows(state)' = Rows(state)
    BY <1>10, SameHost DEF Rows, snapshotVars
  <2>3. HistoryInv'
    BY <1>10, <2>2, SameHost DEF SnapshotInv, HistoryInv, NoRows, snapshotVars
  <2> QED
    BY <2>1, <2>3 DEF SnapshotInv
<1> QED
  BY <1>1, <1>2, <1>3, <1>4, <1>5, <1>6, <1>7, <1>8, <1>9, <1>10 DEF SnapshotNext

(* What is published and what a consumer reads is the state the decode     *)
(* thread had, although rows and maps are copied only when a counter says  *)
(* that they changed, but for a channel map under a number that a retry in *)
(* place gave again; and no copy counts, names or points at a row of a     *)
(* scan list that it does not hold, whichever allocations fail.            *)
THEOREM CopiesAreRight == SnapshotSpec => []CopiesRight
<1>1. SnapshotInit => SnapshotInv
  BY InitSnapshot
<1>2. SnapshotInv /\ [SnapshotNext]_snapshotVars => SnapshotInv'
  BY SnapshotStep
<1>3. SnapshotInv => CopiesRight
  <2> SUFFICES ASSUME SnapshotInv PROVE CopiesRight
    OBVIOUS
  <2>0. TypeInv /\ HistoryInv /\ MapInv /\ ListHeld /\ host \in Hosts
    BY DEF SnapshotInv, TypeInv
  <2>1. SnapshotTypeOK
    <3>1. /\ {state.alive, state.fresh} \subseteq BOOLEAN /\ state.addr \in Addrs
          /\ state.rev \in [Slots -> Nat] /\ state.seq \in Nat /\ state.map \in Maps /\ state.list \in Lists
      BY <2>0 DEF TypeInv, StateTypes
    <3>2. /\ coord.active \in Targets \cup {0} /\ coord.last \in Nat /\ DOMAIN coord.snapshot = Targets
          /\ coord.retry \in BOOLEAN /\ reused \subseteq Nat
      BY <2>0 DEF TypeInv, CoordTypes
    <3>3. pub.seqno \in 0 .. MaxPublishes /\ con.seqno \in 0 .. pub.seqno /\ {pub.map, con.map} \subseteq Maps
      BY <2>0, HostBounds DEF TypeInv, PubTypes, ConTypes
    <3>4. \A s \in Slots : con.ehSeq[s] \in 0 .. pub.ehSeq[s]
      BY <2>0 DEF TypeInv, PubTypes, ConTypes, HistoryInv
    <3> QED
      BY <2>0, <3>1, <3>2, <3>3, <3>4 DEF SnapshotTypeOK, TypeInv
  <2>2. HistoryIsCopy
    BY <2>0 DEF HistoryInv, HistoryIsCopy
  <2>3. SnapshotIsCopy
    <3> SUFFICES ASSUME MaxSessions = 1, pub.have, pub.mapSeq \notin reused
                 PROVE  /\ View(pub) = seen
                        /\ con.seqno = pub.seqno => View(con) = seen
      BY DEF SnapshotIsCopy, MaxSessions
    <3>1. pub.rows = seen.rows /\ pub.map = seen.map
      BY <2>0 DEF HistoryInv, MapInv
    <3>2. con.seqno = pub.seqno => con.rows = pub.rows /\ con.map = pub.map
      BY <2>0 DEF HistoryInv, MapInv
    <3> QED
      BY <2>0, <3>1, <3>2 DEF View, TypeInv
  <2> QED
    BY <2>0, <2>1, <2>2, <2>3 DEF CopiesRight
<1> QED
  BY <1>1, <1>2, <1>3, PTL DEF SnapshotSpec
=============================================================================
