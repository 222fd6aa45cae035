---------------------------- MODULE CommandQueue ----------------------------
(***************************************************************************)
(* The application command queue (app_control/app_command_queue.c) and     *)
(* the results of key requests (key_commands.c).  Frontends and API        *)
(* clients submit commands from their threads; the decoder thread opens    *)
(* and closes the session, and drains the ring between two frames, or when *)
(* an input wait finds that something is pending.  A setter that finds     *)
(* itself at the tail is overwritten; a full ring evicts its oldest        *)
(* command; a session edge cancels what is queued.  Commands may carry     *)
(* keys, so a slot is erased before it leaves the queue.                   *)
(*                                                                         *)
(* A command is known by the number of its submission: what it sets is     *)
(* that number.                                                            *)
(***************************************************************************)
EXTENDS Integers, FiniteSets, Sequences

CONSTANTS
    Cap,     \* DSD_APP_CMD_Q_CAP
    Desks    \* the frontends a behaviour may be of

AllKinds == {"gain", "auto", "level", "key", "export", "toggle", "quit"}

(* A desk: the threads that submit, what they submit, how many results a   *)
(* feed keeps (DSD_APP_RESULT_HISTORY), and two bounds: submissions and    *)
(* sessions.                                                               *)
ASSUME QueueAssumption ==
    /\ Cap \in Nat \ {0, 1}
    /\ \A d \in Desks :
          /\ d.kinds \subseteq AllKinds /\ d.history \in Nat \ {0}
          /\ {d.submits, d.sessions} \subseteq Nat

\* the two squelch settings are one command id that differs by its mode
Id(kind) == IF kind \in {"auto", "level"} THEN "squelch" ELSE kind
Setters == {"gain", "auto", "level"}
Coalescible == {Id(k) : k \in Setters}
\* requests whose result is published, each kind in a feed of its own
Feeds == {"key", "export"}
Zero == [kind |-> "zero"]
None == [seq |-> 0]
NoGeneration == -1

VARIABLES
    desk,             \* the desk this behaviour is of, which never changes
    q, head, tail,    \* g_q, g_head, g_tail
    open, generation, \* g_session_open, g_session_generation
    gate,             \* g_overflow_warn_gate
    newest,           \* the sequence of each feed's last result
    history,          \* the last results of each feed
    decoder,          \* the decoder thread: [at, hand, result]; it holds g_mu at an edge
    read,             \* the generation each producer read for its key request
    exit,             \* exitflag
    inForce,          \* what each setter last set
    submits,          \* history: submissions so far
    asked,            \* history: the last submission of each setter
    requests,         \* history: the admitted submissions of each feed
    lost,             \* history: submissions evicted, cancelled, refused or failed
    answers,          \* history: the results of each feed, in order
    applied,          \* history: the command applied last, and when
    burst             \* history: evictions and warnings since the ring had space

queueVars == <<desk, q, head, tail, open, generation, gate, newest, history, decoder,
              read, exit, inForce, submits, asked, requests, lost, answers, applied, burst>>
ringVars == <<desk, q, head, tail>>
sessionVars == <<open, generation>>
resultVars == <<newest, history, answers>>
askVars == <<read, submits, asked, requests>>
overflowVars == <<gate, burst>>

Slots == 0 .. Cap - 1
Producers == desk.producers
Kinds == desk.kinds
History == desk.history
MaxSubmits == desk.submits
MaxSessions == desk.sessions
Calm == [evicted |-> 0, warned |-> 0]
At(place) == [at |-> place, hand |-> Zero, result |-> "none"]

QueueTypeOK ==
    /\ desk \in Desks
    /\ head \in Slots /\ tail \in Slots
    /\ \A i \in Slots : q[i] = Zero \/ q[i].kind \in Kinds
    /\ open \in BOOLEAN /\ generation \in 0 .. MaxSessions /\ (open => generation # 0)
    /\ decoder.at \in {"out", "opening", "run", "wait", "pop", "apply", "publish", "closing"}
    /\ decoder.hand # Zero <=> decoder.at \in {"apply", "publish"}
    /\ \A p \in Producers : read[p] \in {NoGeneration} \cup 0 .. MaxSessions
    /\ \A f \in Feeds : newest[f] = Len(answers[f])
    /\ gate \in BOOLEAN /\ exit \in BOOLEAN
    /\ lost \subseteq 1 .. submits

QueueInit ==
    /\ desk \in Desks
    /\ q = [i \in Slots |-> Zero] /\ head = 0 /\ tail = 0
    /\ open = FALSE /\ generation = 0
    /\ gate = FALSE /\ burst = Calm
    /\ newest = [f \in Feeds |-> 0]
    /\ history = [f \in Feeds |-> [i \in 0 .. History - 1 |-> None]]
    /\ answers = [f \in Feeds |-> <<>>]
    /\ decoder = At("out")
    /\ read = [p \in Producers |-> NoGeneration]
    /\ exit = FALSE
    /\ inForce = [k \in Setters |-> 0] /\ asked = [k \in Setters |-> 0]
    /\ requests = [f \in Feeds |-> {}]
    /\ submits = 0 /\ lost = {}
    /\ applied = [number |-> 0, session |-> 0, inSession |-> 0, named |-> 0]

IsEmpty == head = tail
IsFull == (tail + 1) % Cap = head
\* the slots from head up to tail
Live == {i \in Slots : (i - head) % Cap < (tail - head) % Cap}
\* g_mu is free: every other holder gives it back within its step
Unlocked == decoder.at \notin {"opening", "closing"}

-----------------------------------------------------------------------------
(* Results *)

\* where a result is kept
SlotOf(seq) == seq % History

\* tg_export_publish_result_unlocked() and dsd_app_publish_decryption_result():
\* a command of one of these kinds leaves a result, any other leaves none
Publish(cmd, status) ==
    LET f == cmd.kind
        res == [seq |-> newest[f] + 1, number |-> cmd.number, status |-> status]
    IN  IF f \in Feeds
        THEN /\ newest' = [newest EXCEPT ![f] = res.seq]
             /\ history' = [history EXCEPT ![f][SlotOf(res.seq)] = res]
             /\ answers' = [answers EXCEPT ![f] = Append(@, res)]
        ELSE UNCHANGED resultVars

\* dsd_app_*_results_since() with room for all: the results kept above a
\* sequence number, by which the reader gets them in order
ResultsSince(f, after) ==
    LET first == IF newest[f] >= History /\ after + 1 < newest[f] - History + 1
                 THEN newest[f] - History + 1
                 ELSE after + 1
        kept == {seq \in first .. newest[f] : history[f][SlotOf(seq)].seq = seq}
    IN  {history[f][SlotOf(seq)] : seq \in kept}

-----------------------------------------------------------------------------
(* Producers *)

\* dsd_app_command_session_generation()
Generation == IF open THEN generation ELSE 0

\* a key request names the generation its producer read before it built it
ReadGeneration(p) ==
    /\ Unlocked /\ "key" \in Kinds /\ submits < MaxSubmits
    /\ read[p] = NoGeneration
    /\ read' = [read EXCEPT ![p] = Generation]
    /\ UNCHANGED <<ringVars, sessionVars, overflowVars, resultVars, decoder, exit,
                   inForce, submits, asked, requests, lost, applied>>

Submitted(p, kind, valid) ==
    [kind |-> kind, valid |-> valid, number |-> submits + 1,
     named |-> IF kind = "key" THEN read[p] ELSE 0, session |-> generation]

\* ui_cmd_find_pending_tail_unlocked(): the slot, if any
PendingTail(kind) ==
    {i \in {(tail - 1) % Cap} : ~IsEmpty /\ Id(q[i].kind) = Id(kind)}

(* Mutant: squelch settings of different modes replace each other *)
CoalescesById(pending, kind, valid) == pending.valid \/ valid \/ kind \in Setters

\* ui_cmd_coalesces_with(): a squelch setting only with one of its mode, when
\* both have the size of a setting
CoalescesWith(pending, kind, valid) ==
    Id(kind) = "squelch" => pending.valid /\ valid /\ pending.kind = kind

Overwrites(kind, valid) ==
    {i \in PendingTail(kind) : Id(kind) \in Coalescible /\ CoalescesWith(q[i], kind, valid)}

\* what every submission does to its producer, and to the record of what was asked
Asks(p, kind) ==
    /\ Unlocked /\ submits < MaxSubmits
    /\ kind = "key" <=> read[p] # NoGeneration
    /\ submits' = submits + 1
    /\ read' = [read EXCEPT ![p] = NoGeneration]
    /\ UNCHANGED <<desk, sessionVars, decoder, exit, inForce, applied>>

Admitted(kind) ==
    /\ asked' = IF kind \in Setters THEN [asked EXCEPT ![kind] = submits + 1] ELSE asked
    /\ requests' = IF kind \in Feeds THEN [requests EXCEPT ![kind] = @ \cup {submits + 1}]
                   ELSE requests

\* dsd_app_command_submit() without a session
Reject(p, kind) ==
    /\ Asks(p, kind)
    /\ ~open
    /\ UNCHANGED <<ringVars, overflowVars, resultVars, asked, requests, lost>>

Coalesce(p, kind, valid) ==
    /\ Asks(p, kind) /\ Admitted(kind)
    /\ open
    /\ \E i \in Overwrites(kind, valid) : q' = [q EXCEPT ![i] = Submitted(p, kind, valid)]
    /\ UNCHANGED <<head, tail, overflowVars, resultVars, lost>>

Enqueue(p, kind, valid) ==
    /\ Asks(p, kind) /\ Admitted(kind)
    /\ open /\ Overwrites(kind, valid) = {} /\ ~IsFull
    /\ q' = [q EXCEPT ![tail] = Submitted(p, kind, valid)]
    /\ tail' = (tail + 1) % Cap
    /\ UNCHANGED <<head, overflowVars, resultVars, lost>>

(* Mutant: an evicted request gets no result *)
EvictSilently(p, kind, valid) ==
    /\ Asks(p, kind) /\ Admitted(kind)
    /\ open /\ Overwrites(kind, valid) = {} /\ IsFull
    /\ q' = [q EXCEPT ![head] = Zero, ![tail] = Submitted(p, kind, valid)]
    /\ head' = (head + 1) % Cap /\ tail' = (tail + 1) % Cap
    /\ lost' = lost \cup {q[head].number}
    /\ gate' = TRUE
    /\ burst' = [evicted |-> 1, warned |-> IF gate THEN burst.warned ELSE burst.warned + 1]
    /\ UNCHANGED resultVars

\* a full ring gives up its oldest command, and warns once per burst
Evict(p, kind, valid) ==
    /\ Asks(p, kind) /\ Admitted(kind)
    /\ open /\ Overwrites(kind, valid) = {} /\ IsFull
    /\ Publish(q[head], "cancelled")
    /\ q' = [q EXCEPT ![head] = Zero, ![tail] = Submitted(p, kind, valid)]
    /\ head' = (head + 1) % Cap /\ tail' = (tail + 1) % Cap
    /\ lost' = lost \cup {q[head].number}
    /\ gate' = TRUE
    /\ burst' = [evicted |-> 1, warned |-> IF gate THEN burst.warned ELSE burst.warned + 1]

-----------------------------------------------------------------------------
(* The decoder: session edges *)

\* dsd_app_frontend_runtime_start() and _stop() take g_mu ...
StartSession ==
    /\ decoder.at = "out" /\ generation < MaxSessions
    /\ decoder' = At("opening")
    /\ UNCHANGED <<ringVars, sessionVars, overflowVars, resultVars, askVars, exit,
                   inForce, lost, applied>>

StopSession ==
    /\ decoder.at = "run"
    /\ decoder' = At("closing")
    /\ UNCHANGED <<ringVars, sessionVars, overflowVars, resultVars, askVars, exit,
                   inForce, lost, applied>>

\* ... cancel what is queued ...
Cancel ==
    /\ ~Unlocked /\ ~IsEmpty
    /\ Publish(q[head], "cancelled")
    /\ q' = [q EXCEPT ![head] = Zero]
    /\ head' = (head + 1) % Cap
    /\ lost' = lost \cup {q[head].number}
    /\ UNCHANGED <<desk, tail, sessionVars, overflowVars, decoder, askVars, exit, inForce, applied>>

\* ... and let the new state of the session in with the lock
Edge ==
    /\ ~Unlocked /\ IsEmpty
    /\ open' = (decoder.at = "opening")
    /\ generation' = IF open' THEN generation + 1 ELSE generation
    /\ decoder' = At(IF open' THEN "run" ELSE "out")
    /\ gate' = FALSE /\ burst' = Calm
    /\ UNCHANGED <<ringVars, resultVars, askVars, exit, inForce, lost, applied>>

-----------------------------------------------------------------------------
(* The decoder: the drain *)

Move(from, to) ==
    /\ decoder.at = from
    /\ decoder' = At(to)
    /\ UNCHANGED <<ringVars, sessionVars, overflowVars, resultVars, askVars, exit,
                   inForce, lost, applied>>

\* the frame loop pumps the controls, then hunts for a frame; samples end its
\* wait
Samples == Move("wait", "run")

\* a wait of the hunt that finds dsd_app_commands_pending() is given up
Pending == ~IsEmpty /\ Move("wait", "run")

\* dsd_runtime_pump_controls()
Pump == Move("run", "pop")

\* the drain takes the oldest command; the ring has space now
Pop ==
    /\ decoder.at = "pop" /\ ~IsEmpty
    /\ decoder' = [at |-> "apply", hand |-> q[head], result |-> "none"]
    /\ q' = [q EXCEPT ![head] = Zero]
    /\ head' = (head + 1) % Cap
    /\ gate' = FALSE /\ burst' = Calm
    /\ UNCHANGED <<desk, tail, sessionVars, resultVars, askVars, exit, inForce, lost, applied>>

DrainDone ==
    /\ IsEmpty
    /\ decoder.at = "pop"
    /\ decoder' = At("wait")
    /\ gate' = FALSE /\ burst' = Calm
    /\ UNCHANGED <<ringVars, sessionVars, resultVars, askVars, exit, inForce, lost, applied>>

\* dsd_app_apply_decryption(): the statuses it can end with
KeyStatus(cmd) ==
    IF cmd.named = 0 THEN {"invalid"}
    ELSE IF cmd.named # Generation THEN {"stale"}
    ELSE IF exit THEN {"cancelled"}
    ELSE {"applied", "failed"}

\* the envelope is refused before any handler sees it
Refuse ==
    /\ decoder.at = "apply" /\ ~decoder.hand.valid
    /\ decoder' = [decoder EXCEPT !.at = "publish", !.result = "invalid"]
    /\ lost' = lost \cup {decoder.hand.number}
    /\ UNCHANGED <<ringVars, sessionVars, overflowVars, resultVars, askVars, exit,
                   inForce, applied>>

\* apply_cmd()
Apply ==
    LET cmd == decoder.hand
    IN  /\ decoder.at = "apply" /\ cmd.valid
        /\ \E status \in CASE cmd.kind = "key"  -> KeyStatus(cmd)
                         [] cmd.kind = "quit" -> {"applied"}
                         [] OTHER -> {"applied", "failed"} :
              /\ decoder' = [decoder EXCEPT !.at = "publish", !.result = status]
              /\ lost' = IF status = "applied" THEN lost ELSE lost \cup {cmd.number}
              /\ inForce' = IF status = "applied" /\ cmd.kind \in Setters
                            THEN [inForce EXCEPT ![cmd.kind] = cmd.number] ELSE inForce
              /\ exit' = (exit \/ cmd.kind = "quit")
              /\ applied' = IF status # "applied" THEN applied
                            ELSE [number |-> cmd.number, session |-> cmd.session,
                                  inSession |-> Generation,
                                  named |-> IF cmd.kind = "key" THEN cmd.named ELSE Generation]
        /\ UNCHANGED <<ringVars, sessionVars, overflowVars, resultVars, askVars>>

\* the result is published, the copy erased, and the drain goes on
PublishResult ==
    /\ decoder.at = "publish"
    /\ Publish(decoder.hand, decoder.result)
    /\ decoder' = At("pop")
    /\ UNCHANGED <<ringVars, sessionVars, overflowVars, askVars, exit, inForce, lost, applied>>

\* a shutdown asked for elsewhere
Shutdown ==
    /\ ~exit /\ exit' = TRUE
    /\ UNCHANGED <<ringVars, sessionVars, overflowVars, resultVars, decoder, askVars,
                   inForce, lost, applied>>

QueueNext ==
    \/ \E p \in Producers : ReadGeneration(p)
    \/ \E p \in Producers, kind \in Kinds : Reject(p, kind)
    \/ \E p \in Producers, kind \in Kinds, valid \in BOOLEAN :
          \/ Coalesce(p, kind, valid)
          \/ Enqueue(p, kind, valid)
          \/ Evict(p, kind, valid)
    \/ StartSession \/ StopSession \/ Cancel \/ Edge
    \/ Samples \/ Pending \/ Pump
    \/ Pop \/ DrainDone \/ Refuse \/ Apply \/ PublishResult
    \/ Shutdown

QueueSpec == QueueInit /\ [][QueueNext]_queueVars

\* the decoder thread runs: it leaves a wait when it sees a command, pumps the
\* controls, and ends a drain or a session edge it began
DecoderSteps == Pending \/ Pump \/ Cancel \/ Edge \/ Pop \/ DrainDone \/ Refuse \/ Apply \/ PublishResult
QueueFairSpec == QueueSpec /\ WF_queueVars(DecoderSteps)

-----------------------------------------------------------------------------
(* Properties *)

Answered(f) == {answers[f][k].number : k \in DOMAIN answers[f]}
Outstanding(f) ==
    {q[i].number : i \in {j \in Live : q[j].kind = f}}
        \cup {c.number : c \in {decoder.hand} \ {d \in {decoder.hand} : d.kind # f}}

(* Every admitted key or export request is queued, in the drain's hand, or *)
(* answered, and never two of these or answered twice, though evictions    *)
(* answer under g_mu, session edges cancel, and the drain answers outside  *)
(* g_mu while producers go on.                                             *)
AnsweredOnce ==
    \A f \in Feeds :
      /\ requests[f] = Answered(f) \cup Outstanding(f)
      /\ Answered(f) \cap Outstanding(f) = {}
      /\ Cardinality(Answered(f)) = Len(answers[f])

(* A command is applied only in the session it was submitted in, and a key *)
(* only in the session its request named: the producer may have read that  *)
(* generation before a stop and a start.                                   *)
AppliedInItsSession ==
    applied.session = applied.inSession /\ applied.named = applied.inSession

(* Commands are applied in the order of submission: overwriting a pending  *)
(* setter never carries its new value past a command submitted in between. *)
InOrder ==
    /\ \A i \in Live : q[i].number > applied.number
    /\ decoder.at = "apply" => decoder.hand.number > applied.number
    /\ \A i, j \in Live : (i - head) % Cap < (j - head) % Cap => q[i].number < q[j].number

(* When the drain has nothing left, what each setter was last asked is in  *)
(* force, unless that submission itself was evicted, cancelled, refused or *)
(* failed: coalescing drops nothing that would have had an effect.         *)
NewestInForce ==
    IsEmpty /\ decoder.hand = Zero =>
        \A k \in Setters : asked[k] \in lost \/ inForce[k] = asked[k]

(* A slot that is not queued holds nothing of a command that went through  *)
(* it, whichever way the command left (DSD_SECURE_ZERO; the storage test   *)
(* hook checks the same after a drain).                                    *)
StorageCleared == \A i \in Slots \ Live : q[i] = Zero

(* A burst of evictions is warned about once, and the next burst again.    *)
WarnedOncePerBurst == burst.warned = burst.evicted

(* A reader that polls the results above the last one it saw gets every    *)
(* later one, each once, while they are kept, and after that the newest    *)
(* History of them: the gap is at the front only.                          *)
HistoryReadable ==
    \A f \in Feeds : \A after \in 0 .. newest[f] :
      LET missed == IF after + History < newest[f] THEN newest[f] - History ELSE after
      IN  ResultsSince(f, after) = {answers[f][n] : n \in missed + 1 .. newest[f]}

(* Commands that were admitted do not stay queued: the decoder takes them, *)
(* even out of an input wait without samples, or a session edge cancels    *)
(* them.                                                                   *)
CommandsTaken == ~IsEmpty ~> IsEmpty

(* What the drain does with the commands it is given: each in its session, *)
(* in order and to the last setting, with its result kept and its storage  *)
(* erased.                                                                 *)
CommandsRight ==
    /\ QueueTypeOK /\ AppliedInItsSession /\ InOrder /\ NewestInForce
    /\ HistoryReadable /\ StorageCleared /\ WarnedOncePerBurst
=============================================================================
