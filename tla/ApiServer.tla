----------------------------- MODULE ApiServer -----------------------------
(***************************************************************************)
(* The API server (api/api_server.c): one accept thread, one result pump,  *)
(* one thread for each session and the thread that stops the server.  The  *)
(* feed and the pump append lines to the outboxes of the sessions that     *)
(* asked for them; a session's own thread answers its requests and sends.  *)
(* A stop must leave every client with the last lines it was owed, and     *)
(* must return although a client no longer reads.                          *)
(*                                                                         *)
(* Requests are what their handlers do to the session; a reply is one      *)
(* line whatever it says.  Results come from one of the application's two  *)
(* histories (app_command_queue.c), which keep the last HistoryLen.        *)
(***************************************************************************)
EXTENDS Integers, Sequences, SequencesExt, FiniteSets, FiniteSetsExt

CONSTANTS
    Sessions,       \* the addresses an api_session can have
    Deployments     \* the servers a behaviour may be of

(* A deployment: the topics, "result" and "event" among them; whether a    *)
(* token is required, and whether results of a frontend share the history; *)
(* max_clients, DSD_API_REFUSED_MAX, DSD_API_OUTBOX_CAP in lines,          *)
(* DSD_APP_RESULT_HISTORY and DSD_API_RESULT_CHUNK; and the bounds:        *)
(* connections accepted, requests handled, results, lines of the feed and  *)
(* starts of the server.                                                   *)
ASSUME ApiAssumption ==
    /\ IsFiniteSet(Sessions)
    /\ \A d \in Deployments :
        /\ {d.token, d.foreign} \subseteq BOOLEAN
        /\ {d.outbox, d.history, d.chunk, d.starts} \subseteq Nat \ {0}
        /\ {d.clients, d.refused, d.conns, d.requests, d.results, d.events} \subseteq Nat

VARIABLES
    server,    \* the deployment this behaviour is of, which never changes
    ses,       \* the sessions
    interest,  \* g_topic_interest
    authed,    \* authed_count
    refused,   \* refused_count
    accept,    \* the accept thread: where it is and the session it makes
    results,   \* the results so far: was each asked for through the API?
    pump,      \* last_seq, and the emission of results in progress
    phase,     \* dsd_api_stop()'s progress; "up" before
    draining,  \* draining
    late,      \* history: did the drain run into its deadline?
    stopSeq,   \* history: the results when the stop began
    marked,    \* history: the sessions the drain told to close
    used       \* bounds: connections, requests, events and starts so far

vars == <<server, ses, interest, authed, refused, accept, results, pump, phase,
          draining, late, stopSeq, marked, used>>

Topics == server.topics
Token == server.token
Foreign == server.foreign
MaxClients == server.clients
RefusedMax == server.refused
OutboxCap == server.outbox
HistoryLen == server.history
Chunk == server.chunk

OPEN == 0
AFTER_FLUSH == 1
NOW == 2

Line(t, n, m) == [type |-> t, seq |-> n, missed |-> m]
Reply == Line("reply", 0, 0)

(* No session: the address is free.                                        *)
NoSession == [pc |-> "free", linked |-> FALSE, auth |-> FALSE, topics |-> {},
              closing |-> OPEN, outbox |-> <<>>, sending |-> <<>>,
              drained |-> FALSE,
              got |-> <<>>,     \* history: what the client received
              owed |-> <<>>,    \* history: what the server queued for it
              cut |-> FALSE,    \* history: ended other than by an orderly close
              since |-> 0]      \* history: results when it subscribed to them

Stopped == phase \in {"stop", "reap", "gone"}     \* the atomic stop
PumpStop == phase # "up"                          \* the atomic pump_stop

Linked == {s \in Sessions : ses[s].linked}
Newest == Len(results)

TypeOK ==
    /\ server \in Deployments
    /\ DOMAIN ses = Sessions
    /\ \A s \in Sessions :
          /\ ses[s].pc \in {"free", "new", "top", "work", "reply", "linger",
                            "retire", "finish", "ended"}
          /\ ses[s].linked \in BOOLEAN /\ ses[s].auth \in BOOLEAN
          /\ ses[s].topics \subseteq Topics /\ ses[s].closing \in {OPEN, AFTER_FLUSH, NOW}
          /\ Len(ses[s].outbox) <= OutboxCap /\ Len(ses[s].sending) <= OutboxCap
          /\ ses[s].linked => ses[s].pc # "free"
    /\ interest \in [Topics -> 0 .. Cardinality(Sessions)]
    /\ authed \in 0 .. Cardinality(Sessions)
    /\ refused \in 0 .. RefusedMax
    /\ accept.at \in {"loop", "link", "spawn", "failed", "exited"}
    /\ accept.at \in {"link", "spawn", "failed"} <=> accept.made \subseteq Sessions /\ accept.made # {}
    /\ \A k \in DOMAIN results : results[k] \in BOOLEAN
    /\ pump.last \in 0 .. Newest
    /\ pump.at \in {"none", "sleep", "fetch", "look", "gap", "send", "joined"}
    /\ phase \in {"up", "join", "emit", "drain", "mark", "wait", "stop", "reap", "gone"}

Init ==
    /\ server \in Deployments
    /\ ses = [s \in Sessions |-> NoSession]
    /\ interest = [t \in Topics |-> 0]
    /\ authed = 0 /\ refused = 0
    /\ accept = [at |-> "loop", made |-> {}]
    /\ results = <<>>
    /\ \E at \in {"sleep", "none"} :
          pump = [at |-> at, last |-> 0, batch |-> <<>>, full |-> FALSE]
    /\ phase = "up" /\ draining = FALSE
    /\ late = FALSE /\ stopSeq = 0 /\ marked = {}
    /\ used = [conns |-> 0, requests |-> 0, events |-> 0, starts |-> 1]

-----------------------------------------------------------------------------
(* Outboxes.                                                               *)

(* session_queue_locked(): a client too slow to keep its outbox under the  *)
(* cap is dropped rather than shown a stream with a hole.                  *)
Queue(x, line) ==
    IF x.closing = NOW THEN x
    ELSE IF Len(x.outbox) + 1 > OutboxCap
         THEN [x EXCEPT !.closing = NOW, !.owed = Append(@, line)]
         ELSE [x EXCEPT !.outbox = Append(@, line), !.owed = Append(@, line)]

Closed(x, how) == [x EXCEPT !.closing = IF how > @ THEN how ELSE @]

(* dsd_api_broadcast().                                                    *)
Heard(s, topic) ==
    ses[s].linked /\ ses[s].auth /\ ses[s].closing = OPEN /\ topic \in ses[s].topics

Broadcast(line, topic) ==
    ses' = [s \in Sessions |-> IF Heard(s, topic) THEN Queue(ses[s], line) ELSE ses[s]]

-----------------------------------------------------------------------------
(* A session's thread.                                                     *)

(* session_has_output().                                                   *)
HasOutput(x) == Len(x.sending) > 0 \/ Len(x.outbox) > 0

(* One round of session_fn()'s loop up to the wait: the session ends, or   *)
(* begins its orderly close, or serves what the socket is ready for.       *)
Top(s) ==
    /\ ses[s].pc = "top"
    /\ LET x == ses[s] IN
       \/ /\ Stopped
          /\ ses' = [ses EXCEPT ![s].pc = "retire"]
       \/ /\ ~Stopped /\ x.closing = NOW
          /\ ses' = [ses EXCEPT ![s].pc = "retire", ![s].cut = TRUE]
       \/ /\ ~Stopped /\ x.closing = AFTER_FLUSH /\ ~HasOutput(x)
          /\ ses' = [ses EXCEPT ![s].pc = "linger", ![s].drained = TRUE]
       \/ /\ ~Stopped /\ x.closing # NOW
          /\ ~(x.closing = AFTER_FLUSH /\ ~HasOutput(x))
          /\ \/ ses' = [ses EXCEPT ![s].pc = "work"]
             \/ /\ ~x.auth              \* auth_timeout_ms has passed
                /\ ses' = [ses EXCEPT ![s].pc = "retire", ![s].cut = TRUE]
    /\ UNCHANGED <<server, interest, authed, refused, accept, results, pump, phase,
                   draining, late, stopSeq, marked, used>>

Serving(s) ==
    /\ ses[s].pc = "work" /\ ses[s].closing = OPEN
    /\ used.requests < server.requests
    /\ used' = [used EXCEPT !.requests = @ + 1]

(* handle_request() for what only answers: ping, get, list_commands, the   *)
(* command table, and every refusal that leaves the session open.          *)
Command(s) ==
    /\ Serving(s)
    /\ ses' = [ses EXCEPT ![s] = Queue(@, Reply)]
    /\ UNCHANGED <<server, interest, authed, refused, accept, results, pump, phase,
                   draining, late, stopSeq, marked>>

(* A line that is no request, a NUL, a line too long, or a wrong token:    *)
(* answered once, then the session closes.                                 *)
Refused(s) ==
    /\ Serving(s)
    /\ ses' = [ses EXCEPT ![s] = Closed(Queue(@, Reply), AFTER_FLUSH)]
    /\ UNCHANGED <<server, interest, authed, refused, accept, results, pump, phase,
                   draining, late, stopSeq, marked>>

(* handle_auth() with the token, or when none is required: the reply is    *)
(* queued in a second critical section, as handle_subscribe()'s is.        *)
Auth(s) ==
    /\ Serving(s)
    /\ ses' = [ses EXCEPT ![s].auth = TRUE, ![s].pc = "reply"]
    /\ authed' = IF ses[s].auth THEN authed ELSE authed + 1
    /\ UNCHANGED <<server, interest, refused, accept, results, pump, phase, draining,
                   late, stopSeq, marked>>

(* handle_subscribe(), add and remove.                                     *)
Subscribe(s, mask) ==
    /\ Serving(s) /\ ses[s].auth
    /\ ses' = [ses EXCEPT ![s].topics = @ \cup mask, ![s].pc = "reply",
                  ![s].since = IF "result" \in mask \ ses[s].topics THEN Newest ELSE @]
    /\ interest' = [t \in Topics |->
                      interest[t] + (IF t \in mask \ ses[s].topics THEN 1 ELSE 0)]
    /\ UNCHANGED <<server, authed, refused, accept, results, pump, phase, draining,
                   late, stopSeq, marked>>

Unsubscribe(s, mask) ==
    /\ Serving(s) /\ ses[s].auth
    /\ ses' = [ses EXCEPT ![s].topics = @ \ mask, ![s].pc = "reply"]
    /\ interest' = [t \in Topics |->
                      interest[t] - (IF t \in mask \cap ses[s].topics THEN 1 ELSE 0)]
    /\ UNCHANGED <<server, authed, refused, accept, results, pump, phase, draining,
                   late, stopSeq, marked>>

Answer(s) ==
    /\ ses[s].pc = "reply"
    /\ ses' = [ses EXCEPT ![s] = [Queue(@, Reply) EXCEPT !.pc = "work"]]
    /\ UNCHANGED <<server, interest, authed, refused, accept, results, pump, phase,
                   draining, late, stopSeq, marked, used>>

(* session_read(): the peer finished sending, or the connection failed.    *)
PeerEof(s) ==
    /\ ses[s].pc = "work" /\ ses[s].closing = OPEN
    /\ ses' = [ses EXCEPT ![s] = Closed(@, AFTER_FLUSH)]
    /\ UNCHANGED <<server, interest, authed, refused, accept, results, pump, phase,
                   draining, late, stopSeq, marked, used>>

SocketFails(s) ==
    /\ ses[s].pc = "work"
    /\ ses' = [ses EXCEPT ![s].pc = "retire", ![s].cut = TRUE]
    /\ UNCHANGED <<server, interest, authed, refused, accept, results, pump, phase,
                   draining, late, stopSeq, marked, used>>

(* Mutant: the outbox is taken although some of the last is not sent yet.  *)
TakenAlways(x) == [x EXCEPT !.sending = x.outbox, !.outbox = <<>>]

(* The swap at the head of session_flush().                                *)
Taken(x) == IF x.sending = <<>> THEN [x EXCEPT !.sending = x.outbox, !.outbox = <<>>] ELSE x

(* session_flush(): takes the outbox once the last was sent, and sends as  *)
(* much as the socket takes.                                               *)
Flush(s) ==
    /\ ses[s].pc = "work"
    /\ LET x == Taken(ses[s]) IN
       \E k \in 0 .. Len(x.sending) :
          ses' = [ses EXCEPT ![s] =
                    [x EXCEPT !.got = @ \o SubSeq(x.sending, 1, k),
                              !.sending = SubSeq(@, k + 1, Len(@)),
                              !.pc = "top"]]
    /\ UNCHANGED <<server, interest, authed, refused, accept, results, pump, phase,
                   draining, late, stopSeq, marked, used>>

(* session_linger() ends by the peer's close, an error, its deadline, or   *)
(* stop.                                                                   *)
LingerEnds(s) ==
    /\ ses[s].pc = "linger"
    /\ ses' = [ses EXCEPT ![s].pc = "retire"]
    /\ UNCHANGED <<server, interest, authed, refused, accept, results, pump, phase,
                   draining, late, stopSeq, marked, used>>

(* What session_retire() leaves of a session.                              *)
Off(x) == [x EXCEPT !.topics = {}, !.auth = FALSE, !.closing = NOW]

InterestWithout(x) == [t \in Topics |-> interest[t] - (IF t \in x.topics THEN 1 ELSE 0)]

Retire(s) ==
    /\ ses[s].pc = "retire"
    /\ ses' = [ses EXCEPT ![s] = [Off(@) EXCEPT !.pc = "finish"]]
    /\ interest' = InterestWithout(ses[s])
    /\ authed' = IF ses[s].auth THEN authed - 1 ELSE authed
    /\ UNCHANGED <<server, refused, accept, results, pump, phase, draining, late,
                   stopSeq, marked, used>>

(* drained, then finished; the thread returns.                             *)
Finish(s) ==
    /\ ses[s].pc = "finish"
    /\ ses' = [ses EXCEPT ![s].drained = TRUE, ![s].pc = "ended"]
    /\ UNCHANGED <<server, interest, authed, refused, accept, results, pump, phase,
                   draining, late, stopSeq, marked, used>>

-----------------------------------------------------------------------------
(* The accept thread.                                                      *)

(* reap_sessions(): finished sessions are unlinked, joined and freed.      *)
Reaped == {s \in Linked : ses[s].pc = "ended"}

Cleaned == [s \in Sessions |-> IF s \in Reaped THEN NoSession ELSE ses[s]]

(* One round of accept_fn() in which nobody connects: finished sessions    *)
(* are reaped, and refused_service() closes refused connections.           *)
AcceptLoop ==
    /\ accept.at = "loop" /\ ~Stopped
    /\ ses' = Cleaned /\ marked' = marked \ Reaped
    /\ refused' \in 0 .. refused
    /\ UNCHANGED <<server, interest, authed, accept, results, pump, phase, draining,
                   late, stopSeq, used>>

(* session_count >= max_clients, or the server is stopping.                *)
Full == Cardinality(Linked \ Reaped) >= MaxClients \/ draining

(* A round in which accept_one() refuses: over the limit, stopping, or a   *)
(* step of making the session failed.  refuse_busy() keeps the connection  *)
(* open behind its busy line while there is room.                          *)
RefuseBusy ==
    /\ accept.at = "loop" /\ ~Stopped /\ used.conns < server.conns
    /\ ses' = Cleaned /\ marked' = marked \ Reaped
    /\ \E kept \in 0 .. refused, sent \in BOOLEAN :
          refused' = IF sent /\ kept < RefusedMax THEN kept + 1 ELSE kept
    /\ used' = [used EXCEPT !.conns = @ + 1]
    /\ UNCHANGED <<server, interest, authed, accept, results, pump, phase, draining,
                   late, stopSeq>>

(* A round in which accept_one() makes a session, linked in a later        *)
(* critical section than the limit was checked in.  Which free address it  *)
(* gets makes no difference.                                               *)
Make ==
    /\ accept.at = "loop" /\ ~Stopped /\ used.conns < server.conns /\ ~Full
    /\ \E s \in Sessions : Cleaned[s].pc = "free"
    /\ LET s == CHOOSE t \in Sessions : Cleaned[t].pc = "free"
           made == [NoSession EXCEPT !.pc = "new", !.auth = ~Token]
       IN  /\ ses' = [Cleaned EXCEPT ![s] = Queue(made, Reply)]
           /\ accept' = [at |-> "link", made |-> {s}]
    /\ marked' = marked \ Reaped
    /\ refused' \in 0 .. refused
    /\ authed' = IF Token THEN authed ELSE authed + 1
    /\ used' = [used EXCEPT !.conns = @ + 1]
    /\ UNCHANGED <<server, interest, results, pump, phase, draining, late, stopSeq>>

Link ==
    /\ accept.at = "link"
    /\ ses' = [s \in Sessions |-> IF s \in accept.made
                                  THEN [ses[s] EXCEPT !.linked = TRUE] ELSE ses[s]]
    /\ accept' = [accept EXCEPT !.at = "spawn"]
    /\ UNCHANGED <<server, interest, authed, refused, results, pump, phase, draining,
                   late, stopSeq, marked, used>>

Spawn ==
    /\ accept.at = "spawn"
    /\ ses' = [s \in Sessions |-> IF s \in accept.made
                                  THEN [ses[s] EXCEPT !.pc = "top"] ELSE ses[s]]
    /\ accept' = [at |-> "loop", made |-> {}]
    /\ UNCHANGED <<server, interest, authed, refused, results, pump, phase, draining,
                   late, stopSeq, marked, used>>

(* No thread: the session is retired here, then unlinked and freed.        *)
SpawnFails ==
    /\ accept.at = "spawn"
    /\ \E s \in accept.made :
          /\ ses' = [ses EXCEPT ![s] = [Off(@) EXCEPT !.cut = TRUE]]
          /\ interest' = InterestWithout(ses[s])
          /\ authed' = IF ses[s].auth THEN authed - 1 ELSE authed
    /\ accept' = [accept EXCEPT !.at = "failed"]
    /\ UNCHANGED <<server, refused, results, pump, phase, draining, late, stopSeq,
                   marked, used>>

Unlink ==
    /\ accept.at = "failed"
    /\ ses' = [s \in Sessions |-> IF s \in accept.made THEN NoSession ELSE ses[s]]
    /\ marked' = marked \ accept.made
    /\ accept' = [at |-> "loop", made |-> {}]
    /\ UNCHANGED <<server, interest, authed, refused, results, pump, phase, draining,
                   late, stopSeq, used>>

AcceptExits ==
    /\ accept.at = "loop" /\ Stopped
    /\ accept' = [accept EXCEPT !.at = "exited"]
    /\ refused' = 0
    /\ UNCHANGED <<server, ses, interest, authed, results, pump, phase, draining, late,
                   stopSeq, marked, used>>

-----------------------------------------------------------------------------
(* The feed and the results.                                               *)

(* The decode thread publishes a line while the feed is registered.        *)
Event ==
    /\ phase = "up" /\ "event" \in Topics /\ used.events < server.events
    /\ interest["event"] > 0
    /\ Broadcast(Line("event", used.events + 1, 0), "event")
    /\ used' = [used EXCEPT !.events = @ + 1]
    /\ UNCHANGED <<server, interest, authed, refused, accept, results, pump, phase,
                   draining, late, stopSeq, marked>>

(* A command completes and its result is kept.                             *)
Result(ours) ==
    /\ Newest < server.results /\ phase # "gone"
    /\ ours \/ Foreign
    /\ results' = Append(results, ours)
    /\ UNCHANGED <<server, ses, interest, authed, refused, accept, pump, phase,
                   draining, late, stopSeq, marked, used>>

(* The oldest result the history still holds.                              *)
Oldest == IF Newest >= HistoryLen THEN Newest - HistoryLen + 1 ELSE 1

(* ..._results_since(): the retained results after last, a chunk at most.  *)
Since(last) ==
    LET first == IF last + 1 < Oldest THEN Oldest ELSE last + 1
    IN  [i \in 1 .. Min({Chunk, Newest - first + 1}) |-> first + i - 1]

PumpWakes ==
    /\ pump.at = "sleep" /\ ~PumpStop
    /\ pump' = [pump EXCEPT !.at = "fetch"]
    /\ UNCHANGED <<server, ses, interest, authed, refused, accept, results, phase,
                   draining, late, stopSeq, marked, used>>

PumpExits ==
    /\ pump.at = "sleep" /\ phase = "join"
    /\ pump' = [pump EXCEPT !.at = "joined"]
    /\ UNCHANGED <<server, ses, interest, authed, refused, accept, results, phase,
                   draining, late, stopSeq, marked, used>>

(* results_emit_tg() and results_emit_dec(), run by the pump and once more *)
(* by the stop: a chunk is read ...                                        *)
Fetch ==
    /\ pump.at = "fetch"
    /\ LET batch == Since(pump.last) IN
       pump' = [pump EXCEPT !.batch = batch, !.full = Len(batch) = Chunk,
                            !.at = IF batch = <<>> THEN "sleep" ELSE "look"]
    /\ UNCHANGED <<server, ses, interest, authed, refused, accept, results, phase,
                   draining, late, stopSeq, marked, used>>

(* ... after each result the next, the next chunk if this one was full,    *)
(* or none ...                                                             *)
Consumed(p) ==
    [p EXCEPT !.batch = Tail(@), !.full = @ /\ Len(p.batch) > 1,
              !.at = IF Len(p.batch) > 1 THEN "look" ELSE IF p.full THEN "fetch" ELSE "sleep"]

(* ... and of each is asked whether anyone listens; if so a gap is said    *)
(* first, and a result the API asked for is sent.                          *)
Look ==
    /\ pump.at = "look"
    /\ LET r == Head(pump.batch)
           heard == interest["result"] > 0
       IN  pump' = IF heard /\ r > pump.last + 1 THEN [pump EXCEPT !.at = "gap"]
                   ELSE IF heard /\ results[r] THEN [pump EXCEPT !.at = "send", !.last = r]
                   ELSE Consumed([pump EXCEPT !.last = r])
    /\ UNCHANGED <<server, ses, interest, authed, refused, accept, results, phase,
                   draining, late, stopSeq, marked, used>>

Gap ==
    /\ pump.at = "gap"
    /\ LET r == Head(pump.batch)
           p == [pump EXCEPT !.last = r]
       IN  /\ Broadcast(Line("gap", r, r - pump.last - 1), "result")
           /\ pump' = IF results[r] THEN [p EXCEPT !.at = "send"] ELSE Consumed(p)
    /\ UNCHANGED <<server, interest, authed, refused, accept, results, phase,
                   draining, late, stopSeq, marked, used>>

Send ==
    /\ pump.at = "send"
    /\ Broadcast(Line("result", Head(pump.batch), 0), "result")
    /\ pump' = Consumed(pump)
    /\ UNCHANGED <<server, interest, authed, refused, accept, results, phase,
                   draining, late, stopSeq, marked, used>>

-----------------------------------------------------------------------------
(* dsd_api_stop(), step by step, and the next dsd_api_start().             *)

Stop ==
    /\ phase = "up"
    /\ phase' = "join"       \* the feed is off and pump_stop set
    /\ stopSeq' = Newest
    /\ UNCHANGED <<server, ses, interest, authed, refused, accept, results, pump,
                   draining, late, marked, used>>

(* The pump may have slept when the last commands completed: the stop      *)
(* reads the results once more.                                            *)
JoinPump ==
    /\ phase = "join" /\ pump.at \in {"joined", "none"}
    /\ phase' = "emit"
    /\ pump' = [pump EXCEPT !.at = "fetch"]
    /\ UNCHANGED <<server, ses, interest, authed, refused, accept, results, draining,
                   late, stopSeq, marked, used>>

Emitted ==
    /\ phase = "emit" /\ pump.at = "sleep"
    /\ phase' = "drain"
    /\ UNCHANGED <<server, ses, interest, authed, refused, accept, results, pump,
                   draining, late, stopSeq, marked, used>>

(* server_drain_sessions().                                                *)
SetDraining ==
    /\ phase = "drain"
    /\ draining' = TRUE /\ phase' = "mark"
    /\ UNCHANGED <<server, ses, interest, authed, refused, accept, results, pump, late,
                   stopSeq, marked, used>>

Mark ==
    /\ phase = "mark"
    /\ ses' = [s \in Sessions |-> IF ses[s].linked THEN Closed(ses[s], AFTER_FLUSH)
                                  ELSE ses[s]]
    /\ marked' = Linked
    /\ phase' = "wait"
    /\ UNCHANGED <<server, interest, authed, refused, accept, results, pump, draining,
                   late, stopSeq, used>>

AllDrained ==
    /\ phase = "wait" /\ \A s \in Linked : ses[s].drained
    /\ phase' = "stop"
    /\ UNCHANGED <<server, ses, interest, authed, refused, accept, results, pump,
                   draining, late, stopSeq, marked, used>>

(* Mutant: the wait has no deadline.                                       *)
DeadlineNever == FALSE /\ UNCHANGED vars

Deadline ==
    /\ phase = "wait" /\ \E s \in Linked : ~ses[s].drained
    /\ phase' = "stop" /\ late' = TRUE
    /\ UNCHANGED <<server, ses, interest, authed, refused, accept, results, pump,
                   draining, stopSeq, marked, used>>

JoinAccept ==
    /\ phase = "stop" /\ accept.at = "exited"
    /\ phase' = "reap"
    /\ UNCHANGED <<server, ses, interest, authed, refused, accept, results, pump,
                   draining, late, stopSeq, marked, used>>

(* reap_sessions() of every session: each thread is joined before its      *)
(* session is freed; then the server is gone.                              *)
ReapAll ==
    /\ phase = "reap" /\ \A s \in Linked : ses[s].pc = "ended"
    /\ ses' = [s \in Sessions |-> IF ses[s].linked THEN NoSession ELSE ses[s]]
    /\ interest' = [t \in Topics |-> 0]
    /\ phase' = "gone" /\ marked' = {}
    /\ UNCHANGED <<server, authed, refused, accept, results, pump, draining, late,
                   stopSeq, used>>

(* dsd_api_start() after a stop: server_create() starts after the results  *)
(* there are, server_launch() clears the interest.                         *)
Start ==
    /\ phase = "gone" /\ used.starts < server.starts
    /\ interest' = [t \in Topics |-> 0] /\ authed' = 0 /\ refused' = 0
    /\ accept' = [at |-> "loop", made |-> {}]
    /\ \E at \in {"sleep", "none"} :
          pump' = [at |-> at, last |-> Newest, batch |-> <<>>, full |-> FALSE]
    /\ phase' = "up" /\ draining' = FALSE /\ late' = FALSE /\ stopSeq' = 0
    /\ used' = [used EXCEPT !.starts = @ + 1]
    /\ UNCHANGED <<server, ses, results, marked>>

Gone == phase = "gone" /\ used.starts = server.starts /\ UNCHANGED vars

-----------------------------------------------------------------------------
Masks == SUBSET Topics \ {{}}

SessionStep(s) ==
    \/ Top(s) \/ Command(s) \/ Refused(s) \/ Auth(s)
    \/ \E mask \in Masks : Subscribe(s, mask) \/ Unsubscribe(s, mask)
    \/ Answer(s) \/ PeerEof(s) \/ SocketFails(s) \/ Flush(s)
    \/ LingerEnds(s) \/ Retire(s) \/ Finish(s)

AcceptStep ==
    \/ AcceptLoop \/ RefuseBusy
    \/ Make \/ Link \/ Spawn \/ SpawnFails \/ Unlink \/ AcceptExits

PumpStep == PumpWakes \/ PumpExits \/ Fetch \/ Look \/ Gap \/ Send

StopStep ==
    \/ JoinPump \/ Emitted \/ SetDraining \/ Mark \/ AllDrained \/ Deadline
    \/ JoinAccept \/ ReapAll

Next ==
    \/ \E s \in Sessions : SessionStep(s)
    \/ AcceptStep \/ PumpStep
    \/ Event \/ \E ours \in BOOLEAN : Result(ours)
    \/ Stop \/ StopStep \/ Start \/ Gone

Spec == Init /\ [][Next]_vars

(* Every thread runs; a client need neither send, nor read, nor close.     *)
FairSpec ==
    /\ Spec
    /\ \A s \in Sessions : WF_vars(SessionStep(s))
    /\ WF_vars(AcceptStep) /\ WF_vars(PumpStep) /\ WF_vars(StopStep)

-----------------------------------------------------------------------------
(* The counters other threads read without a session's lock equal what     *)
(* the sessions say: nothing is counted twice or left over, whichever way  *)
(* a session ended, and no more sessions are linked than max_clients.      *)
CountersMatch ==
    /\ phase # "gone" =>
          /\ \A t \in Topics :
                interest[t] = Cardinality({s \in Sessions : t \in ses[s].topics})
          /\ authed = Cardinality({s \in Sessions : ses[s].auth})
    /\ Cardinality(Linked) <= MaxClients
    /\ phase = "gone" => \A s \in Sessions : ses[s] = NoSession

(* A client's stream has no silent hole (session_queue_locked()): what it  *)
(* received is the start of what it was owed, and until the session is     *)
(* dropped the rest is still on its way, in order.                         *)
StreamWhole ==
    \A s \in Sessions :
       /\ IsPrefix(ses[s].got, ses[s].owed)
       /\ ses[s].closing # NOW =>
             ses[s].got \o ses[s].sending \o ses[s].outbox = ses[s].owed

(* A result the client was told of, or told it missed.                     *)
Accounted(owed, n) ==
    \E k \in DOMAIN owed :
       \/ owed[k].type = "result" /\ owed[k].seq = n
       \/ owed[k].type = "gap" /\ n \in owed[k].seq - owed[k].missed .. owed[k].seq - 1

(* Every result completed since a client subscribed, up to the pump's      *)
(* position, reached it or was covered by a gap (results_emit_gap(): "said,*)
(* not silently skipped"); results of a frontend never reach it.           *)
ResultsAccounted ==
    \A s \in Sessions :
       /\ "result" \in ses[s].topics /\ ses[s].closing = OPEN =>
             \A n \in ses[s].since + 1 .. pump.last :
                \/ ~results[n] \/ Accounted(ses[s].owed, n)
                \/ pump.at = "send" /\ n = pump.last
       /\ \A k \in DOMAIN ses[s].owed :
             ses[s].owed[k].type = "result" => results[ses[s].owed[k].seq]

(* A result that was complete when the stop began is read before the       *)
(* sessions are told to close.                                             *)
LastResultsRead == phase \in {"drain", "mark", "wait", "stop"} => pump.last >= stopSeq

(* A stop whose drain met no deadline left every session it told to close  *)
(* with all its lines sent, unless the connection failed or the client was *)
(* dropped.                                                                *)
DrainDelivers ==
    phase \in {"stop", "reap"} /\ ~late =>
       \A s \in marked : ~ses[s].cut /\ ses[s].closing # NOW => ses[s].got = ses[s].owed

(* dsd_api_stop() returns, whatever the clients do.                        *)
StopReturns == phase = "join" ~> phase = "gone"

(* What a client is owed, it is sent, or knows that it was not: while the  *)
(* server is up and through its stop.                                      *)
StreamsRight ==
    /\ TypeOK /\ CountersMatch /\ StreamWhole /\ ResultsAccounted
    /\ LastResultsRead /\ DrainDelivers
=============================================================================
