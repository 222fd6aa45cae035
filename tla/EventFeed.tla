----------------------------- MODULE EventFeed -----------------------------
(***************************************************************************)
(* The event topic of the API (api/api_feed.c): at every publication the   *)
(* decode thread compares one slot's event ring with what it remembers of  *)
(* its last look, sends the rows pushed since and the committed rows whose *)
(* content changed, and remembers the ring as it is now.  Other threads    *)
(* write the ring between any two critical sections of the feed's          *)
(* transaction, and clients subscribe and unsubscribe at any time.         *)
(*                                                                         *)
(* A row's content is a small number and its fingerprint is the content;   *)
(* 0 is a blank row.  A row is identified by the ring and the push that    *)
(* made it.                                                                *)
(***************************************************************************)
EXTENDS Integers, FiniteSets, FiniteSetsExt

CONSTANTS
    Clients,     \* API sessions
    Contents,    \* contents of a row, positive numbers
    Depth,       \* committed rows of a ring, DSD_EVENT_HISTORY_LEN - 1
    MaxPushes,   \* bound: pushes into one ring
    MaxRevs,     \* bound: changes of the committed rows of one ring
    MaxRings     \* bound: rings

ASSUME FeedAssumption ==
    /\ Contents \subseteq Nat \ {0}
    /\ Depth \in Nat \ {0} /\ {MaxPushes, MaxRevs} \subseteq Nat /\ MaxRings \in Nat \ {0}

Index == 1 .. Depth
Ids == 1 .. MaxPushes

VARIABLES
    ring,      \* the slot's Event_History_I
    eh,        \* g_eh_valid, _instance, _push, _commit and _fp
    feed,      \* "off", "on", or "sending" between transaction and broadcast
    lines,     \* g_events: the line gathered of each row, NoLine where there is none;
               \* they are sent from the oldest row to the newest
    topics,    \* the clients subscribed to the event topic
    looked,    \* clientVars: has the feed looked at this ring since it started?
    since,     \* clientVars: push_seq when the client subscribed, or at the
               \* feed's first look at this ring if that was later
    got,       \* clientVars: the latest content of each row the client was sent
    fresh,     \* clientVars: the latest row the client was sent as new
    repeats    \* clientVars: was a row sent as new out of turn?

feedVars == <<ring, eh, feed, lines, topics, looked, since, got, fresh,
          repeats>>
clientVars == <<looked, since, got, fresh, repeats>>

Blank == [i \in Index |-> 0]
Nothing == [id \in Ids |-> 0]

EventLine == [inst : 1 .. MaxRings, id : Ids, content : Contents, update : BOOLEAN]
NoLine == [inst |-> 0, id |-> 0, content |-> 0, update |-> FALSE]
NoLines == [i \in Index |-> NoLine]

FeedTypeOK ==
    /\ ring \in [inst : 1 .. MaxRings, push : 0 .. MaxPushes, rev : 0 .. MaxRevs,
                 rows : [Index -> Contents \cup {0}]]
    /\ eh \in [valid : BOOLEAN, inst : 0 .. MaxRings, push : 0 .. MaxPushes,
               commit : 0 .. MaxRevs, fp : [Index -> Contents \cup {0}]]
    /\ feed \in {"off", "on", "sending"}
    /\ lines \in [Index -> EventLine \cup {NoLine}]
    /\ topics \subseteq Clients
    /\ looked \in BOOLEAN /\ since \in [Clients -> 0 .. MaxPushes]
    /\ got \in [Clients -> [Ids -> Contents \cup {0}]]
    /\ fresh \in [Clients -> 0 .. MaxPushes] /\ repeats \in BOOLEAN

FeedInit ==
    /\ ring = [inst |-> 1, push |-> 0, rev |-> 0, rows |-> Blank]
    /\ eh = [valid |-> FALSE, inst |-> 0, push |-> 0, commit |-> 0, fp |-> Blank]
    /\ feed = "off" /\ lines = NoLines
    /\ topics = {} /\ looked = FALSE
    /\ since = [c \in Clients |-> 0]
    /\ got = [c \in Clients |-> Nothing]
    /\ fresh = [c \in Clients |-> 0] /\ repeats = FALSE

-----------------------------------------------------------------------------
(* The writers of the ring, each one transaction.                          *)

(* push_event_history(): the rows move one deeper, the staged row becomes  *)
(* the first.                                                              *)
Push(v) ==
    /\ ring.push < MaxPushes /\ ring.rev < MaxRevs
    /\ ring' = [ring EXCEPT !.push = @ + 1, !.rev = @ + 1,
                    !.rows = [i \in Index |-> IF i = 1 THEN v ELSE @[i - 1]]]
    /\ UNCHANGED <<eh, feed, lines, topics, clientVars>>

(* A reacquisition merge or late enrichment of a committed row.            *)
Amend(i, v) ==
    /\ ring.rev < MaxRevs /\ ring.rows[i] # 0
    /\ ring' = [ring EXCEPT !.rows[i] = v, !.rev = @ + 1]
    /\ UNCHANGED <<eh, feed, lines, topics, clientVars>>

(* dsd_event_history_reset()                                               *)
ResetHistory ==
    /\ ring.rev < MaxRevs
    /\ ring' = [ring EXCEPT !.rows = Blank, !.rev = @ + 1]
    /\ UNCHANGED <<eh, feed, lines, topics, clientVars>>

(* initState() of another run, while no server is up.                      *)
NewRing ==
    /\ feed = "off" /\ ring.inst < MaxRings
    /\ ring' = [inst |-> ring.inst + 1, push |-> 0, rev |-> 0, rows |-> Blank]
    /\ got' = [c \in Clients |-> Nothing]
    /\ since' = [c \in Clients |-> 0] /\ fresh' = [c \in Clients |-> 0]
    /\ looked' = FALSE
    /\ UNCHANGED <<eh, feed, lines, topics, repeats>>

-----------------------------------------------------------------------------
(* dsd_api_feed_start()                                                    *)
FeedStart ==
    /\ feed = "off"
    /\ feed' = "on" /\ eh' = [eh EXCEPT !.valid = FALSE]
    /\ looked' = FALSE
    /\ UNCHANGED <<ring, lines, topics, since, got, fresh, repeats>>

(* dsd_api_feed_stop() returns only when no callback is running; the       *)
(* server then ends its sessions.                                          *)
FeedStop ==
    /\ feed = "on"
    /\ feed' = "off" /\ lines' = NoLines /\ topics' = {}
    /\ UNCHANGED <<ring, eh, clientVars>>

Listen(c) ==
    /\ feed # "off" /\ c \notin topics
    /\ topics' = topics \cup {c}
    /\ since' = [since EXCEPT ![c] = ring.push]
    /\ got' = [got EXCEPT ![c] = Nothing]
    /\ fresh' = [fresh EXCEPT ![c] = 0]
    /\ UNCHANGED <<ring, eh, feed, lines, looked, repeats>>

StopListening(c) ==
    /\ c \in topics
    /\ topics' = topics \ {c}
    /\ UNCHANGED <<ring, eh, feed, lines, clientVars>>

-----------------------------------------------------------------------------
(* dsd_api_topic_interest()                                                *)
Interest == topics # {}

(* The conditions under which eh_baseline() starts over from what is there.*)
FirstLook == ~eh.valid \/ ring.inst # eh.inst \/ ring.push < eh.push

Unchanged == ring.push = eh.push /\ ring.rev = eh.commit

Pushed == Min({ring.push - eh.push, Depth})

(* Each push moved every remembered row one index deeper.                  *)
Shifted(i) == IF i > Pushed THEN eh.fp[i - Pushed] ELSE 0

WorthSending(i) ==
    /\ ring.rows[i] # 0
    /\ i <= Pushed \/ ring.rows[i] # Shifted(i)

(* gather_event(): the line of a row.                                      *)
RowLine(i) ==
    [inst |-> ring.inst, id |-> ring.push - (i - 1), content |-> ring.rows[i],
     update |-> i > Pushed]

(* gather_slot_events(): the lines of the rows.                            *)
Gathered == [i \in Index |-> IF WorthSending(i) THEN RowLine(i) ELSE NoLine]

Remember == [valid |-> TRUE, inst |-> ring.inst, push |-> ring.push,
             commit |-> ring.rev, fp |-> ring.rows]

(* Mutant: the ring is followed only while someone listens.                *)
GatherWhenHeard ==
    /\ feed = "on" /\ ~FirstLook
    /\ eh' = IF Interest THEN Remember ELSE [eh EXCEPT !.valid = FALSE]
    /\ lines' = IF Interest /\ ~Unchanged THEN Gathered ELSE NoLines
    /\ feed' = IF lines' # NoLines THEN "sending" ELSE "on"
    /\ UNCHANGED <<ring, topics, clientVars>>

(* track_events() of a ring it knows, up to the end of the transaction.    *)
Gather ==
    /\ feed = "on" /\ ~FirstLook
    /\ eh' = IF Unchanged THEN eh ELSE Remember
    /\ lines' = IF Interest /\ ~Unchanged THEN Gathered ELSE NoLines
    /\ feed' = IF lines' # NoLines THEN "sending" ELSE "on"
    /\ UNCHANGED <<ring, topics, clientVars>>

(* eh_baseline(): nothing of what is there is sent.                        *)
Baseline ==
    /\ feed = "on" /\ FirstLook
    /\ eh' = Remember
    /\ lines' = NoLines
    /\ since' = [c \in Clients |-> IF looked THEN since[c] ELSE ring.push]
    /\ looked' = TRUE
    /\ UNCHANGED <<ring, feed, topics, got, fresh, repeats>>

(* The lines of a broadcast that are about the current ring, by their row. *)
Current == {i \in Index : lines[i] # NoLine /\ lines[i].inst = ring.inst}
NewLines == {i \in Current : ~lines[i].update}

(* dsd_api_broadcast() to those subscribed by now.                         *)
SendLines ==
    /\ feed = "sending"
    /\ feed' = "on" /\ lines' = NoLines
    /\ got' = [c \in Clients |->
                 IF c \notin topics THEN got[c]
                 ELSE [id \in Ids |->
                         LET hits == {i \in Current : lines[i].id = id}
                         IN  IF hits = {} THEN got[c][id]
                             ELSE lines[Min(hits)].content]]
    /\ fresh' = [c \in Clients |->
                   IF c \in topics /\ NewLines # {} THEN lines[Min(NewLines)].id
                   ELSE fresh[c]]
    /\ repeats' = (repeats
         \/ \E c \in topics, i \in NewLines :
               \/ lines[i].id <= fresh[c]
               \/ \E j \in NewLines : i < j /\ lines[i].id <= lines[j].id)
    /\ UNCHANGED <<ring, eh, topics, looked, since>>

FeedNext ==
    \/ \E v \in Contents : Push(v)
    \/ \E i \in Index, v \in Contents : Amend(i, v)
    \/ ResetHistory \/ NewRing
    \/ FeedStart \/ FeedStop
    \/ \E c \in Clients : Listen(c) \/ StopListening(c)
    \/ Gather \/ Baseline \/ SendLines

FeedSpec == FeedInit /\ [][FeedNext]_feedVars

-----------------------------------------------------------------------------
(* The feed has looked at the ring as it is and has sent what it gathered. *)
CaughtUp == feed = "on" /\ ~FirstLook /\ Unchanged

(* Once the feed has caught up, a client has every row committed after it  *)
(* subscribed, as it is now, and nothing it was sent of the rows still     *)
(* there is out of date.                                                   *)
SubscriberCurrent ==
    CaughtUp =>
        \A c \in topics, i \in Index :
            LET id == ring.push - (i - 1)
            IN  ring.rows[i] # 0 =>
                    /\ id > since[c] => got[c][id] # 0
                    /\ got[c][id] \in {0, ring.rows[i]}

(* A client is sent each row as new at most once, in the order the rows    *)
(* were committed.                                                         *)
NewOnce == ~repeats

(* A subscriber's view of the ring: every row once as new, and none stale. *)
FeedRight == FeedTypeOK /\ SubscriberCurrent /\ NewOnce
=============================================================================
