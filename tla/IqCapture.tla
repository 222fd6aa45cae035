----------------------------- MODULE IqCapture -----------------------------
(***************************************************************************)
(* The I/Q capture writer (io/iq/iq_capture.c): the source callback packs  *)
(* submissions into blocks of a pool, a writer thread writes full blocks,  *)
(* and blocks that stopped filling, to the data file; retunes and mutes    *)
(* are recorded at the byte they happened.  The source never waits: what   *)
(* finds no block is dropped and counted.  At the close the metadata must  *)
(* tell the truth about a file whose writes may have failed anywhere.      *)
(*                                                                         *)
(* A byte of the source's stream is its number in that stream.             *)
(***************************************************************************)
EXTENDS Integers, Sequences, SequencesExt, FiniteSets, FiniteSetsExt

CONSTANTS
    Configs,      \* the captures a run may open:
                  \*   cu8     is the format CU8, which carries an odd byte over?
                  \*   align   bytes of one sample
                  \*   block   queue_block_bytes
                  \*   max     max_bytes, 0 for no limit
    BlockCount,   \* queue_block_count
    MaxSubmit,    \* bound: bytes of one submission
    MaxInput,     \* bound: bytes submitted
    MaxRecorded   \* bound: events recorded

ASSUME CaptureAssumption ==
    /\ Configs \subseteq [cu8: BOOLEAN, align: Nat \ {0}, block: Nat \ {0}, max: Nat]
    /\ \A g \in Configs : (g.cu8 => g.align = 2) /\ g.block % g.align = 0
    /\ BlockCount \in Nat \ {0} /\ {MaxSubmit, MaxInput, MaxRecorded} \subseteq Nat

Kinds == {"retune", "mute", "reset"}

VARIABLES
    config,    \* the capture that was opened
    prod,      \* the submission in progress
    carry,     \* cu8_carry, 0 when there is none
    fill,      \* the staging block; empty when there is none
    aged,      \* has the staging block waited for flush_interval_ns?
    queue,     \* the published blocks
    free,      \* free_top
    run, failed,     \* run and writer_failed
    writer,    \* the writer thread
    stream,    \* what fwrite() took; its length is written_bytes
    safe,      \* how much of it a flush is known to have brought to the file
    accepted,  \* accepted_bytes
    dropped,   \* dropped_bytes
    limit,     \* size_limit_reached
    events,    \* events, each with the byte it came before (history)
    end,       \* "open", "close", "abort", "closed", "aborted"
    file,      \* the data file after the close
    next,      \* history: the source's next byte
    limited,   \* history: bytes refused for the size limit
    refused,   \* history: bytes refused because the writer had failed
    recorded   \* bound: events recorded

captureVars == <<config, prod, carry, fill, aged, queue, free, run, failed, writer, stream,
          safe, accepted, dropped, limit, events, end, file, next, limited,
          refused, recorded>>
writerVars == <<writer, stream, safe>>
poolVars == <<fill, aged, queue, free>>
eventVars == <<events, recorded>>
endVars == <<end, file>>

Cu8 == config.cu8
Align == config.align
BlockBytes == config.block
MaxBytes == config.max

Idle == [at |-> "idle", left |-> <<>>, rest |-> <<>>, tail |-> <<>>, clamped |-> FALSE]

CaptureTypeOK ==
    /\ config \in Configs
    /\ prod.at \in {"idle", "pair", "rest"}
    /\ carry \in 0 .. MaxInput
    /\ Len(fill) < BlockBytes
    /\ aged \in BOOLEAN /\ (aged => fill # <<>>)
    /\ Len(queue) <= BlockCount /\ free \in 0 .. BlockCount
    /\ run \in BOOLEAN /\ failed \in BOOLEAN /\ (failed => ~run)
    /\ writer.at \in {"check", "cond", "timed", "write", "release", "flush", "fail", "ended"}
    /\ safe \in 0 .. Len(stream)
    /\ accepted \in 0 .. MaxInput /\ dropped \in 0 .. MaxInput /\ limit \in BOOLEAN
    /\ \A k \in DOMAIN events : events[k].kind \in Kinds /\ events[k].off \in 0 .. MaxInput
    /\ end \in {"open", "close", "abort", "closed", "aborted"}

CaptureInit ==
    /\ config \in Configs
    /\ prod = Idle /\ carry = 0
    /\ fill = <<>> /\ aged = FALSE /\ queue = <<>> /\ free = BlockCount
    /\ run = TRUE /\ failed = FALSE
    /\ writer = [at |-> "check", hand |-> <<>>, lost |-> 0]
    /\ stream = <<>> /\ safe = 0
    /\ accepted = 0 /\ dropped = 0 /\ limit = FALSE
    /\ events = <<>> /\ recorded = 0
    /\ end = "open" /\ file = <<>>
    /\ next = 1 /\ limited = 0 /\ refused = 0

-----------------------------------------------------------------------------
(* Small arithmetic.                                                       *)

(* truncate_to_alignment().                                                *)
Aligned(n) == n - (n % Align)

(* writer_remaining_budget(); without a limit more than can be asked for.  *)
Budget == IF MaxBytes = 0 THEN MaxInput + Align
          ELSE IF accepted >= MaxBytes THEN 0 ELSE MaxBytes - accepted

First(s, n) == SubSeq(s, 1, n)
Rest(s, n) == SubSeq(s, n + 1, Len(s))

(* dsd_cond_signal(&q_ready).                                              *)
Signalled == IF writer.at \in {"cond", "timed"} THEN [writer EXCEPT !.at = "check"] ELSE writer

-----------------------------------------------------------------------------
(* Submissions.  event_m is held from the first step to the last, so they  *)
(* and the events take turns.                                              *)

(* What writer_submit_aligned() will write of the bytes in, and what is    *)
(* left over: a partial sample at the end, or all that the limit refuses.  *)
RestOf(in) ==
    LET whole == Aligned(Len(in))
        writable == Min({whole, Aligned(Budget)})
    IN  [at |-> "rest", left |-> First(in, writable), rest |-> Rest(in, writable),
         tail |-> <<>>, clamped |-> writable < whole]

(* dsd_iq_capture_submit() of n bytes, up to its first write; a CU8 byte   *)
(* held from the last submission is first paired with the head of this.    *)
Submit(n) ==
    /\ end = "open" /\ prod.at = "idle" /\ next + n - 1 <= MaxInput
    /\ next' = next + n
    /\ LET in == [i \in 1 .. n |-> next + i - 1] IN
       \/ /\ failed
          /\ refused' = refused + n
          /\ UNCHANGED <<prod, carry, limit, limited>>
       \/ /\ ~failed /\ carry = 0
          /\ prod' = RestOf(in)
          /\ limit' = (limit \/ RestOf(in).clamped)
          /\ UNCHANGED <<carry, limited, refused>>
       \/ /\ ~failed /\ carry # 0 /\ Budget >= 2
          /\ prod' = [at |-> "pair", left |-> <<carry, next>>, rest |-> <<>>,
                      tail |-> Rest(in, 1), clamped |-> FALSE]
          /\ UNCHANGED <<carry, limit, limited, refused>>
       \/ /\ ~failed /\ carry # 0 /\ Budget < 2
          /\ carry' = 0 /\ limit' = TRUE /\ limited' = limited + 2
          /\ prod' = RestOf(Rest(in, 1))
          /\ UNCHANGED refused
    /\ UNCHANGED <<config, poolVars, run, failed, writerVars, accepted, dropped,
                   eventVars, endVars>>

(* One critical section of writer_submit_bytes(): into the staging block,  *)
(* a free one if there is none, which is published once full; the writer   *)
(* is told of both.                                                        *)
Pack ==
    /\ prod.left # <<>> /\ run /\ ~failed
    /\ fill # <<>> \/ free > 0
    /\ LET take == Min({Len(prod.left), BlockBytes - Len(fill)})
           block == fill \o First(prod.left, take)
           full == Len(block) = BlockBytes
       IN  /\ queue' = IF full THEN Append(queue, block) ELSE queue
           /\ fill' = IF full THEN <<>> ELSE block
           /\ aged' = (aged /\ ~full)
           /\ free' = IF fill = <<>> THEN free - 1 ELSE free
           /\ writer' = IF full \/ fill = <<>> THEN Signalled ELSE writer
           /\ accepted' = accepted + take
           /\ prod' = [prod EXCEPT !.left = Rest(@, take)]
    /\ UNCHANGED <<config, carry, run, failed, stream, safe, dropped, limit, eventVars,
                   endVars, next, limited, refused>>

(* No block: the rest of this write is dropped.                            *)
NoBlock ==
    /\ prod.left # <<>> /\ run /\ ~failed /\ fill = <<>> /\ free = 0
    /\ dropped' = dropped + Len(prod.left)
    /\ prod' = [prod EXCEPT !.left = <<>>]
    /\ UNCHANGED <<config, carry, poolVars, run, failed, writerVars, accepted, limit,
                   eventVars, endVars, next, limited, refused>>

(* The writer failed meanwhile: the submission returns an error.  Of a     *)
(* pair the held byte stays held.                                          *)
SubmitFails ==
    /\ prod.left # <<>> /\ (failed \/ ~run)
    /\ refused' = refused + Len(prod.rest) + Len(prod.tail)
                  + (IF prod.at = "pair" THEN 1 ELSE Len(prod.left))
    /\ prod' = Idle
    /\ UNCHANGED <<config, carry, poolVars, run, failed, writerVars, accepted, dropped,
                   limit, eventVars, endVars, next, limited>>

(* The pair is written or dropped; the rest of the submission follows.     *)
PairDone ==
    /\ prod.at = "pair" /\ prod.left = <<>>
    /\ carry' = 0
    /\ prod' = RestOf(prod.tail)
    /\ limit' = (limit \/ RestOf(prod.tail).clamped)
    /\ UNCHANGED <<config, poolVars, run, failed, writerVars, accepted, dropped,
                   eventVars, endVars, next, limited, refused>>

(* The end of writer_submit_cu8() and of writer_submit_aligned(): an odd   *)
(* CU8 byte is held, another format's partial sample is dropped, and what  *)
(* the limit refused is no drop.                                           *)
RestDone ==
    /\ prod.at = "rest" /\ prod.left = <<>>
    /\ LET over == Len(prod.rest)
           hold == Cu8 /\ ~prod.clamped /\ over > 0
           partial == IF Cu8 THEN 0 ELSE (over % Align)
       IN  /\ carry' = IF hold /\ Budget >= 2 THEN prod.rest[1] ELSE carry
           /\ limit' = (limit \/ (hold /\ Budget < 2))
           /\ dropped' = dropped + partial
           /\ limited' = limited + (IF hold /\ Budget >= 2 THEN 0 ELSE over - partial)
    /\ prod' = Idle
    /\ UNCHANGED <<config, poolVars, run, failed, writerVars, accepted, eventVars,
                   endVars, next, refused>>

-----------------------------------------------------------------------------
(* Events.                                                                 *)

(* writer_event_find_retune_insert_at(): a retune goes before the mutes    *)
(* already recorded at its byte.                                           *)
Place(e) ==
    IF e.kind # "retune" THEN Len(events) + 1
    ELSE Min({i \in 1 .. Len(events) + 1 :
                 \A k \in i .. Len(events) :
                    events[k].kind = "mute" /\ events[k].off = e.off})

(* writer_event_append_locked(): a mute joins the mute before it.          *)
Appended(e) ==
    IF /\ e.kind = "mute" /\ events # <<>>
       /\ Last(events).kind = "mute" /\ Last(events).off = e.off
    THEN events ELSE InsertAt(events, Place(e), e)

(* Mutant: the held byte survives an event.                                *)
RecordKeepsCarry(kind) ==
    /\ end = "open" /\ prod.at = "idle" /\ recorded < MaxRecorded
    /\ events' = Appended([kind |-> kind, off |-> accepted, pos |-> next])
    /\ recorded' = recorded + 1
    /\ UNCHANGED <<config, prod, carry, dropped, poolVars, run, failed, writerVars,
                   accepted, limit, endVars, next, limited, refused>>

(* dsd_iq_capture_record_event(): a held byte is not paired across an      *)
(* event, and the event is stamped with the bytes accepted.                *)
RecordEvent(kind) ==
    /\ end = "open" /\ prod.at = "idle" /\ recorded < MaxRecorded
    /\ dropped' = IF carry # 0 THEN dropped + 1 ELSE dropped
    /\ carry' = 0
    /\ events' = Appended([kind |-> kind, off |-> accepted, pos |-> next])
    /\ recorded' = recorded + 1
    /\ UNCHANGED <<config, prod, poolVars, run, failed, writerVars, accepted, limit,
                   endVars, next, limited, refused>>

-----------------------------------------------------------------------------
(* The writer thread.                                                      *)

(* flush_interval_ns has passed since the staging block was opened.        *)
Age ==
    /\ fill # <<>> /\ ~aged
    /\ aged' = TRUE
    /\ UNCHANGED <<config, prod, carry, fill, queue, free, run, failed, writerVars,
                   accepted, dropped, limit, eventVars, endVars, next, limited,
                   refused>>

(* dsd_cond_timedwait_monotonic() returns at its deadline.                 *)
Timeout ==
    /\ writer.at = "timed" /\ aged
    /\ writer' = [writer EXCEPT !.at = "check"]
    /\ UNCHANGED <<config, prod, carry, poolVars, run, failed, stream, safe, accepted,
                   dropped, limit, eventVars, endVars, next, limited, refused>>

(* writer_next_entry_locked(): the next block, a stale staging block, the  *)
(* end, or one of the two waits.                                           *)
NextEntry ==
    /\ writer.at = "check"
    /\ \/ /\ queue # <<>>
          /\ writer' = [writer EXCEPT !.at = "write", !.hand = Head(queue)]
          /\ queue' = Tail(queue)
          /\ UNCHANGED <<fill, aged>>
       \/ /\ queue = <<>> /\ run /\ aged
          /\ writer' = [writer EXCEPT !.at = "write", !.hand = fill]
          /\ fill' = <<>> /\ aged' = FALSE
          /\ UNCHANGED queue
       \/ /\ queue = <<>> /\ (run => ~aged)
          /\ writer' = [writer EXCEPT !.at = IF ~run THEN "ended"
                                             ELSE IF fill # <<>> THEN "timed" ELSE "cond"]
          /\ UNCHANGED <<queue, fill, aged>>
    /\ UNCHANGED <<config, prod, carry, free, run, failed, stream, safe, accepted,
                   dropped, limit, eventVars, endVars, next, limited, refused>>

(* fwrite() takes the block.                                               *)
WriteBlock ==
    /\ writer.at = "write"
    /\ stream' = stream \o writer.hand
    /\ writer' = [writer EXCEPT !.at = "release"]
    /\ UNCHANGED <<config, prod, carry, poolVars, run, failed, safe, accepted, dropped,
                   limit, eventVars, endVars, next, limited, refused>>

(* fwrite() takes n bytes of the block and the stream is in error.         *)
WriteFails ==
    /\ writer.at = "write"
    /\ \E n \in 0 .. Len(writer.hand) :
          /\ stream' = stream \o First(writer.hand, n)
          /\ writer' = [writer EXCEPT !.at = "fail", !.lost = Len(writer.hand) - n]
    /\ UNCHANGED <<config, prod, carry, poolVars, run, failed, safe, accepted, dropped,
                   limit, eventVars, endVars, next, limited, refused>>

(* The block goes back to the pool; a writer that caught up flushes.       *)
Release ==
    /\ writer.at = "release"
    /\ free' = free + 1
    /\ writer' = [writer EXCEPT !.hand = <<>>,
                                !.at = IF queue = <<>> THEN "flush" ELSE "check"]
    /\ UNCHANGED <<config, prod, carry, fill, aged, queue, run, failed, stream, safe,
                   accepted, dropped, limit, eventVars, endVars, next, limited,
                   refused>>

Flush ==
    /\ writer.at = "flush"
    /\ safe' = Len(stream)
    /\ writer' = [writer EXCEPT !.at = "check"]
    /\ UNCHANGED <<config, prod, carry, poolVars, run, failed, stream, accepted, dropped,
                   limit, eventVars, endVars, next, limited, refused>>

FlushFails ==
    /\ writer.at = "flush"
    /\ writer' = [writer EXCEPT !.at = "fail"]
    /\ UNCHANGED <<config, prod, carry, poolVars, run, failed, stream, safe, accepted,
                   dropped, limit, eventVars, endVars, next, limited, refused>>

Bytes(blocks) == FoldSeq(LAMBDA b, n : Len(b) + n, 0, blocks)

(* Mutant: a block that failed while it was written is not given back.     *)
FailAndDrainKeepsHand ==
    /\ writer.at = "fail"
    /\ failed' = TRUE /\ run' = FALSE
    /\ dropped' = dropped + writer.lost + Bytes(queue)
    /\ free' = free + Len(queue)
    /\ queue' = <<>>
    /\ writer' = [at |-> "ended", hand |-> <<>>, lost |-> 0]
    /\ UNCHANGED <<config, prod, carry, fill, aged, stream, safe, accepted, limit,
                   eventVars, endVars, next, limited, refused>>

(* writer_fail_and_drain().                                                *)
FailAndDrain ==
    /\ writer.at = "fail"
    /\ failed' = TRUE /\ run' = FALSE
    /\ dropped' = dropped + writer.lost + Bytes(queue)
    /\ free' = free + Len(queue) + (IF writer.hand # <<>> THEN 1 ELSE 0)
    /\ queue' = <<>>
    /\ writer' = [at |-> "ended", hand |-> <<>>, lost |-> 0]
    /\ UNCHANGED <<config, prod, carry, fill, aged, stream, safe, accepted, limit,
                   eventVars, endVars, next, limited, refused>>

-----------------------------------------------------------------------------
(* The end.  The device no longer submits: it was stopped, and its pointer *)
(* to the writer cleared.                                                  *)

(* writer_stop_thread() up to the join: the staging block is published     *)
(* for the writer to drain, or given back if the writer has failed.        *)
StopThread ==
    /\ queue' = IF fill # <<>> /\ ~failed THEN Append(queue, fill) ELSE queue
    /\ free' = IF fill # <<>> /\ failed THEN free + 1 ELSE free
    /\ fill' = <<>> /\ aged' = FALSE
    /\ run' = FALSE /\ writer' = Signalled

(* dsd_iq_capture_close() up to the join: a held byte is a drop, and so is *)
(* the staging block of a failed writer.                                   *)
Close ==
    /\ end = "open" /\ prod.at = "idle"
    /\ StopThread
    /\ dropped' = dropped + (IF carry # 0 THEN 1 ELSE 0) + (IF failed THEN Len(fill) ELSE 0)
    /\ carry' = 0
    /\ end' = "close"
    /\ UNCHANGED <<config, prod, failed, stream, safe, accepted, limit, eventVars, file,
                   next, limited, refused>>

Abort ==
    /\ end = "open" /\ prod.at = "idle"
    /\ StopThread
    /\ dropped' = dropped + (IF failed THEN Len(fill) ELSE 0)
    /\ end' = "abort"
    /\ UNCHANGED <<config, prod, carry, failed, stream, safe, accepted, limit,
                   eventVars, file, next, limited, refused>>

Aborted ==
    /\ end = "abort" /\ writer.at = "ended"
    /\ end' = "aborted"
    /\ UNCHANGED <<config, prod, carry, poolVars, run, failed, writerVars, accepted,
                   dropped, limit, eventVars, file, next, limited, refused>>

(* writer_reconcile_written_bytes(): what the file lacks of the bytes      *)
(* fwrite() took.                                                          *)
Reconciled(size) == Len(stream) - size

(* writer_clamp_event_offsets().                                           *)
Clamped(size) ==
    [k \in DOMAIN events |-> [events[k] EXCEPT !.off = Min({@, Aligned(size)})]]

(* The rest of dsd_iq_capture_close(), with the writer joined: the last    *)
(* flush or the close may fail too, so the file holds what was known to be *)
(* flushed and any part of the rest.  file is what the metadata describes. *)
Closed ==
    /\ end = "close" /\ writer.at = "ended"
    /\ \E size \in safe .. Len(stream) :
          /\ file' = First(stream, size)
          /\ dropped' = dropped + Reconciled(size)
          /\ events' = Clamped(size)
    /\ end' = "closed"
    /\ UNCHANGED <<config, prod, carry, poolVars, run, failed, writerVars, accepted,
                   limit, recorded, next, limited, refused>>

Done == end \in {"closed", "aborted"} /\ UNCHANGED captureVars

-----------------------------------------------------------------------------
WriterStep ==
    \/ Timeout \/ NextEntry \/ WriteBlock \/ WriteFails \/ Release
    \/ Flush \/ FlushFails \/ FailAndDrain

CaptureNext ==
    \/ \E n \in 1 .. MaxSubmit : Submit(n)
    \/ Pack \/ NoBlock \/ SubmitFails \/ PairDone \/ RestDone
    \/ \E kind \in Kinds : RecordEvent(kind)
    \/ Age \/ WriterStep
    \/ Close \/ Closed \/ Abort \/ Aborted \/ Done

CaptureSpec == CaptureInit /\ [][CaptureNext]_captureVars

(* The writer thread runs, time passes, and a close once begun goes on;    *)
(* the source need not submit anything more.                               *)
CaptureFairSpec == CaptureSpec /\ WF_captureVars(WriterStep) /\ WF_captureVars(Age) /\ WF_captureVars(Closed \/ Aborted)

-----------------------------------------------------------------------------
(* Every block of the pool is in exactly one place (the comment on         *)
(* writer_pool_release_locked()), through failures and the close.          *)
BlocksAccounted ==
    BlockCount = free + Len(queue) + (IF fill # <<>> THEN 1 ELSE 0)
                      + (IF writer.hand # <<>> THEN 1 ELSE 0)

(* At the close every byte of the source is in the file, counted as        *)
(* dropped, refused for the size limit, or was submitted to a writer that  *)
(* had failed; a capture that did not fail refuses for the limit only.     *)
BytesAccounted ==
    end = "closed" => /\ next - 1 = Len(file) + dropped + limited + refused
                      /\ ~failed => refused = 0
                      /\ limited > 0 => limit

(* No sample of the file is spliced from bytes that were not adjacent in   *)
(* the source, or that an event came between; and the file has no holes    *)
(* inside a sample.                                                        *)
SamplesWhole ==
    end = "closed" =>
       \A i \in 1 .. Aligned(Len(file)) : i % Align # 0 =>
          /\ file[i + 1] = file[i] + 1
          /\ \A k \in DOMAIN events : events[k].pos # file[i + 1]

(* The metadata can be replayed, whatever part of the capture reached the  *)
(* file: event offsets are sorted, aligned and within the file, and each   *)
(* event lies between the bytes submitted before and after it.             *)
EventsPlaced ==
    end = "closed" =>
       \A k \in DOMAIN events :
          LET e == events[k] IN
          /\ e.off % Align = 0 /\ e.off <= Len(file)
          /\ \A j \in DOMAIN events : j < k => events[j].off <= e.off
          /\ \A i \in 1 .. Aligned(Len(file)) : i <= e.off <=> file[i] < e.pos

(* A source that falls silent does not keep bytes in memory: a staging     *)
(* block leaves it for the file (writer_flush_stale_fill_locked()), or the *)
(* capture has failed.                                                     *)
StagedReachesFile == fill # <<>> ~> fill = <<>> \/ failed

(* A close returns.                                                        *)
CloseReturns == end = "close" ~> end = "closed"

(* A closed capture is what its metadata say it is: bytes, samples and     *)
(* events (iq_capture.c's header, counters and event list).                *)
CaptureRight == CaptureTypeOK /\ BytesAccounted /\ SamplesWhole /\ EventsPlaced
=============================================================================
