----------------------------- MODULE UiSnapshot -----------------------------
(***************************************************************************)
(* The published copy of the decoder state (app_control/ui_snapshot.c).    *)
(* The decode thread copies its state into g_pub at every publication and  *)
(* the one consumer thread copies g_pub into g_consume when it polls.  The *)
(* large members are copied only when a counter says they changed: the     *)
(* event history by its revision and its address, the channel map by its   *)
(* sequence number and size.  The writers of those counters are modelled   *)
(* with them: learned channels, imported and cleared maps, the trunk       *)
(* scanner that swaps whole maps, and hosts that run several sessions in   *)
(* one process and so hand a new state to the same g_pub.                  *)
(*                                                                         *)
(* Everything else of the state is copied byte by byte at every            *)
(* publication and is left out.                                            *)
(***************************************************************************)
EXTENDS Naturals, FiniteSets, FiniteSetsExt

CONSTANTS
    Embedded,      \* DSD_TRUNK_LCN_EMBEDDED
    Hosts          \* the hosts a behaviour may be of

(* A host: the channel numbers a map can hold and the frequencies they map *)
(* to, the trunk scan targets 1 .. n, or {} when not scanning, the slots   *)
(* of the event history, the addresses the allocator may give a ring, and  *)
(* four bounds: rows of a scan list, changes the decoder makes in one      *)
(* session, publications, and decoder states used in this process.         *)
ASSUME HostsAssumption ==
    /\ Embedded \in Nat
    /\ \A h \in Hosts :
          /\ IsFiniteSet(h.channels) /\ h.freqs \subseteq Nat \ {0}
          /\ h.targets = {} \/ (1 \in h.targets /\ h.targets \subseteq Nat \ {0})
          /\ {h.rows, h.changes, h.publishes, h.sessions} \subseteq Nat
          /\ h.sessions # 0

VARIABLES
    host,      \* the host this behaviour is of, which never changes
    state,     \* the live dsd_state: ring, channel map, scan list
    coord,     \* the trunk scanner: active, last_trunk_chan_map_seq, snapshots
    pub,       \* g_pub and its bookkeeping
    con,       \* g_consume and its bookkeeping
    session,   \* states made so far
    changes,   \* changes of the current session
    seen,      \* history: what the decode thread had at the last publication
    reused     \* history: sequence numbers the live map had and may have again

snapshotVars == <<host, state, coord, pub, con, session, changes, seen, reused>>

Channels == host.channels
Freqs == host.freqs
Targets == host.targets
Slots == host.slots
Addrs == host.addrs
MaxRows == host.rows
MaxChanges == host.changes
MaxPublishes == host.publishes
MaxSessions == host.sessions

Maps == [Channels -> Freqs \cup {0}]
NoMap == [c \in Channels |-> 0]

(* trunk_chan_map_used_count: the mapped channels.                         *)
Used(map) == Cardinality({c \in Channels : map[c] # 0})

Lists == [count : 0 .. MaxRows, roll : 0 .. MaxRows, named : 0 .. MaxRows]
NoList == [count |-> 0, roll |-> 0, named |-> 0]

(* A ring's rows are told apart by the ring they are in and its revision,  *)
(* which every writer bumps; those of a ring just made are all blank.      *)
NoRows == [inst |-> 0, rev |-> 1]

SnapshotTypeOK ==
    /\ host \in Hosts
    /\ {state.alive, state.fresh} \subseteq BOOLEAN /\ state.addr \in Addrs
    /\ state.rev \in [Slots -> Nat] /\ state.seq \in Nat /\ state.map \in Maps
    /\ state.list \in Lists
    /\ coord.active \in Targets \cup {0} /\ coord.last \in Nat
    /\ DOMAIN coord.snapshot = Targets /\ coord.retry \in BOOLEAN
    /\ pub.seqno \in 0 .. MaxPublishes /\ con.seqno \in 0 .. pub.seqno
    /\ \A s \in Slots : con.ehSeq[s] \in 0 .. pub.ehSeq[s]
    /\ {pub.map, con.map} \subseteq Maps
    /\ session \in 1 .. MaxSessions /\ changes \in 0 .. MaxChanges
    /\ reused \subseteq Nat

(* What a frontend reads of a copy.                                        *)
View(copy) == [rows |-> copy.rows, map |-> copy.map]

Rows(st) ==
    [s \in Slots |-> IF st.rev[s] = 1 THEN NoRows
                     ELSE [inst |-> st.inst, rev |-> st.rev[s]]]

-----------------------------------------------------------------------------
(* initState() and the import of the configured channel map, where each    *)
(* channel set counts once.  dsd_app_frontend_runtime_start() publishes    *)
(* the state before the engine runs it.                                    *)
FreshState(n, addr, map) ==
    [alive |-> TRUE, fresh |-> TRUE, addr |-> addr, inst |-> n,
     rev |-> [s \in Slots |-> 1],
     seq |-> Used(map), map |-> map, list |-> NoList]

(* retry: the target on air owes a retry of a park that failed.            *)
EmptyCoord ==
    [active |-> 0, last |-> 0, retry |-> FALSE,
     snapshot |-> [t \in Targets |-> [seq |-> 0, map |-> NoMap]]]

(* trunk_scan_next_chan_map_seq()                                          *)
NextMapSeq(last, restored) == Max({last, restored}) + 1

(* trunk_scan_build_target_runtime() imports each target's map from an     *)
(* empty snapshot and notes its sequence number; the first switch parks on *)
(* the first target.                                                       *)
ScanState(n, addr, maps) ==
    LET last == Max({Used(maps[t]) : t \in Targets})
        next == NextMapSeq(last, Used(maps[1]))
    IN  [st |-> [FreshState(n, addr, maps[1]) EXCEPT !.seq = next],
         co |-> [active |-> 1, last |-> next, retry |-> FALSE,
                 snapshot |-> [t \in Targets |->
                     [seq |-> IF t = 1 THEN next ELSE Used(maps[t]),
                      map |-> maps[t]]]]]

SnapshotInit ==
    /\ host \in Hosts
    /\ session = 1 /\ changes = 0
    /\ IF Targets = {}
       THEN \E a \in Addrs, m \in Maps :
                state = FreshState(1, a, m) /\ coord = EmptyCoord
       ELSE \E a \in Addrs, ms \in [Targets -> Maps] :
                LET new == ScanState(1, a, ms)
                IN  state = new.st /\ coord = new.co
    /\ pub = [have |-> FALSE, seqno |-> 0, ehSeq |-> [s \in Slots |-> 0],
              srcRev |-> [s \in Slots |-> 0], source |-> 0, present |-> FALSE,
              rows |-> [s \in Slots |-> NoRows], mapSeq |-> 0, map |-> NoMap,
              list |-> NoList, tail |-> 0]
    /\ con = [seqno |-> 0, ehSeq |-> [s \in Slots |-> 0],
              rows |-> [s \in Slots |-> NoRows], mapSeq |-> 0, map |-> NoMap,
              list |-> NoList, tail |-> 0]
    /\ seen = View(pub) /\ reused = {}

Change ==
    /\ state.alive /\ ~state.fresh /\ changes < MaxChanges
    /\ changes' = changes + 1

(* Any writer of the event history ends in dsd_event_history_mark_dirty(). *)
WriteHistory(s) ==
    /\ Change
    /\ state' = [state EXCEPT !.rev[s] = @ + 1]
    /\ UNCHANGED <<host, coord, pub, con, session, seen, reused>>

(* dsd_state_set_trunk_chan_freq(), f = 0 when the mapping is dropped.     *)
LearnChannel(c, f) ==
    /\ Change
    /\ state.map[c] # f
    /\ state' = [state EXCEPT !.map[c] = f, !.seq = @ + 1]
    /\ UNCHANGED <<host, coord, pub, con, session, seen, reused>>

(* chan_map_adopt() replaces the map and the scan list of a state that is  *)
(* not trunk scanning; svc_clear_channel_map() empties both.               *)
AdoptMap(map, list) ==
    /\ Change /\ Targets = {}
    /\ list.roll = 0 /\ list.named <= list.count
    /\ state' = [state EXCEPT !.map = map, !.list = list, !.seq = @ + 1]
    /\ UNCHANGED <<host, coord, pub, con, session, seen, reused>>

(* A protocol that learns frequencies on the air appends them to the list. *)
GrowList ==
    /\ Change /\ state.list.count < MaxRows
    /\ state' = [state EXCEPT !.list.count = @ + 1]
    /\ UNCHANGED <<host, coord, pub, con, session, seen, reused>>

(* The channel scan moves on within its list.                              *)
RollList ==
    /\ Change /\ state.list.count > 0
    /\ state' = [state EXCEPT !.list.roll =
                     IF @ >= state.list.count THEN 1 ELSE @ + 1]
    /\ UNCHANGED <<host, coord, pub, con, session, seen, reused>>

-----------------------------------------------------------------------------
(* trunk_scan_save_target_snapshot()                                       *)
SaveTarget(co, st) ==
    [co EXCEPT !.snapshot[co.active] = [seq |-> st.seq, map |-> st.map],
               !.last = Max({@, st.seq})]

(* Mutant: a target comes back with the sequence number it left with.      *)
RestoreTargetOldSeq(co, st, t) ==
    [co |-> [co EXCEPT !.active = t],
     st |-> [st EXCEPT !.map = co.snapshot[t].map, !.seq = co.snapshot[t].seq]]

(* trunk_scan_restore_target_snapshot()                                    *)
RestoreTarget(co, st, t) ==
    LET next == NextMapSeq(co.last, co.snapshot[t].seq)
    IN  [co |-> [co EXCEPT !.active = t, !.last = next,
                           !.snapshot[t].seq = next],
         st |-> [st EXCEPT !.map = co.snapshot[t].map, !.seq = next]]

(* trunk_scan_advance() that lands on a target, the one it leaves too when *)
(* the others fail: the one it leaves is saved, the one it enters restored.*)
Advance(t) ==
    /\ Change /\ Targets \ {coord.active} # {}
    /\ LET moved == RestoreTarget(SaveTarget(coord, state), state, t)
       IN  coord' = [moved.co EXCEPT !.retry = FALSE] /\ state' = moved.st
    /\ UNCHANGED <<host, pub, con, session, seen, reused>>

(* A park that trunk_scan_advance() tries and that is refused.  The round  *)
(* ends with the state put back as it was, so each attempt is a step of    *)
(* its own; the sequence numbers the attempts took stay taken.  A retry is *)
(* owed when the target it leaves was tried too, or (owed) when the round  *)
(* released a call.  The gate of a refused tune opens again: the target    *)
(* goes on learning.                                                       *)
AdvanceFails(t, owed) ==
    /\ Change /\ Targets \ {coord.active} # {}
    /\ LET moved == RestoreTarget(SaveTarget(coord, state), state, t)
       IN  coord' = [moved.co EXCEPT !.active = coord.active,
                                     !.retry = coord.retry \/ t = coord.active \/ owed]
    /\ UNCHANGED <<host, state, pub, con, session, seen, reused>>

(* A park taken fails later (trunk_scan_resolve_pending_retune()), or the  *)
(* first one of a single target is refused.  Whether frames are decoded    *)
(* until the retry is the gate's business (TuneRequests): here they may be.*)
ParkFails ==
    /\ Change /\ Targets # {} /\ ~coord.retry
    /\ coord' = [coord EXCEPT !.retry = TRUE]
    /\ UNCHANGED <<host, state, pub, con, session, seen, reused>>

(* trunk_scan_retry_active_if_due() restores the target's snapshot without *)
(* saving what it has learned since, and may fail again.  A number learned *)
(* since the snapshot is not known to the coordinator: the one it gives    *)
(* may be the live map's or below it, and the numbers between come again.  *)
Retry ==
    /\ Change /\ Targets # {} /\ coord.retry
    /\ LET moved == RestoreTarget(coord, state, coord.active)
       IN  /\ \E again \in BOOLEAN : coord' = [moved.co EXCEPT !.retry = again]
           /\ state' = moved.st
           /\ reused' = reused \cup (moved.st.seq .. state.seq)
    /\ UNCHANGED <<host, pub, con, session, seen>>

-----------------------------------------------------------------------------
(* ui_snapshot_copy_trunk_chan_map(): nothing is copied when neither the   *)
(* sequence number nor the number of mapped channels changed.              *)
SameMap(dst, seq, map) == dst.mapSeq = seq /\ Used(dst.map) = Used(map)

(* ui_snapshot_copy_trunk_lcn_freq_ext() and ..._lcn_name(): the rows past *)
(* the embedded ones need a tail, and a copy that cannot have it is cut    *)
(* down to the rows it holds; the names follow the rows.                   *)
CopyList(dst, src, tailOk, namesOk) ==
    LET roll == IF src.roll > src.count THEN 0 ELSE src.roll
        ext == IF src.count > Embedded THEN src.count - Embedded ELSE 0
        fits == ext <= dst.tail \/ tailOk
        count == IF fits THEN src.count ELSE Embedded
    IN  [list |-> [count |-> count, roll |-> IF fits THEN roll ELSE 0,
                   named |-> IF namesOk THEN Min({count, src.named}) ELSE 0],
         tail |-> IF fits THEN Max({dst.tail, ext}) ELSE dst.tail]

ForceCopy == ~pub.have \/ ~pub.present \/ pub.source # state.addr

(* dsd_event_history_copy_incremental_locked(): the slots copied.          *)
CopiedSlots ==
    {s \in Slots : ForceCopy \/ pub.srcRev[s] # state.rev[s]}

(* dsd_app_telemetry_publish_snapshot()                                    *)
Publish(tailOk, namesOk) ==
    /\ state.alive /\ pub.seqno < MaxPublishes
    /\ LET copied == CopiedSlots
           keep == SameMap(pub, state.seq, state.map)
           l == CopyList(pub, state.list, tailOk, namesOk)
       IN  pub' = [have |-> TRUE, seqno |-> pub.seqno + 1,
                   ehSeq |-> [s \in Slots |->
                       pub.ehSeq[s] + (IF s \in copied THEN 1 ELSE 0)],
                   srcRev |-> [s \in Slots |->
                       IF s \in copied THEN state.rev[s] ELSE pub.srcRev[s]],
                   source |-> state.addr, present |-> TRUE,
                   rows |-> [s \in Slots |->
                       IF s \in copied THEN Rows(state)[s] ELSE pub.rows[s]],
                   mapSeq |-> state.seq,
                   map |-> IF keep THEN pub.map ELSE state.map,
                   list |-> l.list, tail |-> l.tail]
    /\ seen' = [rows |-> Rows(state), map |-> state.map]
    /\ state' = [state EXCEPT !.fresh = FALSE]
    /\ UNCHANGED <<host, coord, con, session, changes, reused>>

(* dsd_app_get_latest_snapshot() with something new to copy.               *)
Get(tailOk, namesOk) ==
    /\ pub.have
    /\ con.seqno # pub.seqno
    /\ LET l == CopyList(con, pub.list, tailOk, namesOk)
       IN  con' = [seqno |-> pub.seqno, ehSeq |-> pub.ehSeq,
                   rows |-> [s \in Slots |-> IF con.ehSeq[s] # pub.ehSeq[s]
                                             THEN pub.rows[s] ELSE con.rows[s]],
                   mapSeq |-> pub.mapSeq,
                   map |-> IF SameMap(con, pub.mapSeq, pub.map)
                           THEN con.map ELSE pub.map,
                   list |-> l.list, tail |-> l.tail]
    /\ UNCHANGED <<host, state, coord, pub, session, changes, seen, reused>>

-----------------------------------------------------------------------------
(* The session ends and its state is freed; what was published stays.      *)
EndSession ==
    /\ state.alive /\ ~state.fresh /\ session < MaxSessions
    /\ state' = [state EXCEPT !.alive = FALSE]
    /\ UNCHANGED <<host, coord, pub, con, session, changes, seen, reused>>

(* The host makes a new state, whose ring may have the address of the last *)
(* one, and configures it before the first publication.                    *)
NewSession(addr, map) ==
    /\ ~state.alive /\ Targets = {}
    /\ session' = session + 1
    /\ state' = FreshState(session', addr, map)
    /\ changes' = 0
    /\ UNCHANGED <<host, coord, pub, con, seen, reused>>

SnapshotNext ==
    \/ \E s \in Slots : WriteHistory(s)
    \/ \E c \in Channels, f \in Freqs \cup {0} : LearnChannel(c, f)
    \/ \E m \in Maps, l \in Lists : AdoptMap(m, l)
    \/ GrowList
    \/ RollList
    \/ \E t \in Targets : Advance(t)
    \/ \E t \in Targets, owed \in BOOLEAN : AdvanceFails(t, owed)
    \/ ParkFails
    \/ Retry
    \/ \E t, n \in BOOLEAN : Publish(t, n)
    \/ \E t, n \in BOOLEAN : Get(t, n)
    \/ EndSession
    \/ \E a \in Addrs, m \in Maps : NewSession(a, m)

SnapshotSpec == SnapshotInit /\ [][SnapshotNext]_snapshotVars

-----------------------------------------------------------------------------
(* Where one decoder state serves the whole process, the published copy is *)
(* the state the decode thread published, whatever the counters said could *)
(* be skipped, and a consumer that is up to date reads that same copy.     *)
(* Excluded is the channel map published under a number that a retry in    *)
(* place made the live map take again (trunk_scan_retry_active_if_due()):  *)
(* the copy at ui_snapshot.c:79 is then skipped, and the frontend keeps    *)
(* the map the retry threw away until a number is past those.              *)
SnapshotIsCopy ==
    host.sessions = 1 /\ pub.mapSeq \notin reused =>
        /\ pub.have => View(pub) = seen
        /\ pub.have /\ con.seqno = pub.seqno => View(con) = seen

(* The same of the event history across the sessions of one process: no    *)
(* row of a ring that was freed, or of an earlier revision, is shown as    *)
(* current.                                                                *)
HistoryIsCopy ==
    /\ pub.have => pub.rows = seen.rows
    /\ pub.have /\ con.seqno = pub.seqno => con.rows = seen.rows

(* A copy never names, points at or counts a scan list row it does not     *)
(* hold, however its allocations fail.                                     *)
ListHeld ==
    \A copy \in {pub, con} :
        /\ copy.list.count <= Embedded + copy.tail
        /\ copy.list.roll <= copy.list.count
        /\ copy.list.named <= copy.list.count

(* A frontend reads a copy of what was published, all of it.               *)
CopiesRight == SnapshotTypeOK /\ SnapshotIsCopy /\ HistoryIsCopy /\ ListHeld
=============================================================================
