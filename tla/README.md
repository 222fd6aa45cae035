# A TLA+ development for dsd-neo

dsd-neo decodes digital voice radio (P25, DMR, NXDN, TETRA and others) from a
software-defined radio or from audio, follows trunked calls by retuning the
radio, and serves user interfaces and an HTTP API. Its decoders are pure
functions of the bits they are given; what is hard to get right, and hard to
test, is the machinery around them: several threads that share a tuner, rings,
queues and a handful of lock-free counters, and state machines whose tunes take
time, may fail half-way, may be answered late or never, and must never let a
frame of the old frequency be decoded as if it came from the new one.

This directory models that machinery: 15 modules of components, one abstract
specification, 12 TLC runs and 8 modules of proofs. Paths below are relative to
the root of the repository, which is `src/` in `PROJECT.json`.

Contents: 1 inventory, 2 what is modelled, 3 the runs, 4 findings and known
divergences, 5 proofs, 6 not modelled, 7 plan.

## 1. Inventory

### Threads

| thread | code | what it does |
| --- | --- | --- |
| device callback | `src/io/radio/rtl_device.cpp` | writes I/Q floats into the input ring, and raw bytes to the capture |
| demodulator and its two workers | `demod_thread_fn()`, `src/io/radio/rtl_sdr_fm.cpp`; `src/runtime/worker_pool.cpp` | input ring to output ring |
| controller | `controller_thread_retune_loop()`, `rtl_sdr_fm.cpp` | moves the hardware, purges, completes tunes |
| decoder | `src/engine/engine.c` | reads the output ring, finds and dispatches frames, runs the trunking state machines, the hunts and the scanner, drains commands, publishes snapshots and events |
| P25 watchdog | `src/protocol/p25/` | ticks the P25 state machine when the decoder is silent; may tune |
| capture writer | `src/io/iq/iq_capture.c` | writes captured blocks to disk |
| API accept, pump and session threads | `src/api/api_server.c` | serve clients |
| UI, UDP control | `src/app_control/`, `src/ui/` | submit commands, read snapshots |

### Components

| component | state | operations | talks to | hard behaviour | what makes it correct |
| --- | --- | --- | --- | --- | --- |
| tune request ledger (`src/runtime/trunk_tuning_hooks.c`) | a history of request records under a spinlock; an atomic count of unresolved requests; an atomic generation | begin, publish, mark ready, complete, disown, retire, reset, the frame check | every tune owner, the controller, the decoder | the two halves of a tune arrive in either order; full history; lock-free readers inside a critical section | the two atomics stay exact; no frame crosses a tune; a failure nothing recovered from keeps the gate closed |
| engine frame dispatch and tune owners (`src/engine/engine.c`, `trunk_tuning.c`) | the generation a frame was captured under | capture, check, retire, dispatch | the ledger | a check that spans other threads' tunes | as above |
| SDR retune controller (`rtl_sdr_fm.cpp`) | one pending retune, request and completion ids, a ring of results, a read gate, two purge mechanisms, the demodulator's park flags | schedule, wait, time out, park, program, drain, publish, signal, stop | all radio threads | timeouts racing completions, stop at any point, a reader half-way through a copy | every request completes once and in order; each caller gets its own answer; nothing old is handed over |
| input ring (`src/runtime/input_ring.cpp`) | buffer, head, tail, discard generation, a condition variable | reserve, commit, wait, read reserve, read commit, discard | device callback, demodulator, controller | zero-copy on both sides, stale indices, purge between reserve and commit, lost wakeups | a bounded queue; spans never overlap; pairs stay whole |
| worker pool (`src/runtime/worker_pool.cpp`) | an epoch, a completion count, two task slots | create, run two, destroy | demodulator | a worker an epoch late, stop, lost signals | each task runs once, before the call returns |
| I/Q capture writer (`src/io/iq/iq_capture.c`) | a pool of blocks, a queue, carry bytes, counters, event list | submit, record event, write, flush, close, abort | device callback, writer thread | a failed write with blocks in every place, limits inside a sample, a source that falls silent | what was submitted is in the file or counted; events lie at their byte |
| call state and events (`src/core/util/call_state.c`, `dsd_events.c`) | one call per slot, staged row, ring of rows, held alerts, commit references | observe, end, sync, enrich, notices, reset, scanner swap | every decoder, the scanner, the feed | a fade splits one transmission into several epochs | one row and one pair of alerts for a transmission |
| UI snapshots (`src/app_control/ui_snapshot.c`) | a published and a consumed copy, the counters that let a part be skipped | publish, get | decoder, UI | a counter that repeats; allocations that fail | the copy is what was published |
| API event feed (`src/api/api_feed.c`) | what it remembers of the event ring | baseline, gather, send | decoder, API sessions | rows pushed and amended between looks | each row sent as new once; nothing stale |
| API server (`src/api/api_server.c`) | sessions with outboxes, interest counters, result pump | accept, request, subscribe, broadcast, send, stop | clients, feed, command results | slow clients, full outboxes, a stop at any moment | no silent hole in a stream; a stop returns |
| application command queue (`src/app_control/app_command_queue.c`) | a ring of commands, session generation, result feeds | submit, coalesce, evict, session edge, drain, results since | UI and API threads, decoder | full ring, stale sessions, results out of order | each request answered once; order; the last setting in force |
| control-channel candidates (`src/runtime/trunk_cc_candidates.c`, P25's sources of them) | a bounded list, pending announcements, neighbours | announce, resolve, next, select | P25 state machine | full list, late IDENs, site selection | nothing twice, nothing lost, each in its turn |
| NXDN control-channel hunt (`src/protocol/nxdn/nxdn_cc_hunt.c`) | anchor, probe, deadlines | tick, content, tune results, operator | the ledger | late and failed probes, Type-D sites | only control that was heard names the channel; the hunt goes on |
| DMR trunking (`src/protocol/dmr/dmr_trunk_sm.c`) | mode, receiver attribution, tracked tune, timers | grant, voice, release, tick, hunt, operator moves | the ledger, the tuner | deadlines against late results | knows where the receiver is; returns to a named channel; is never stuck |
| TETRA trunking (`src/protocol/tetra/tetra_trunk_sm.c`, `tetra_calls.c`) | followed call, tracked tune, call records | setup, allocation, release, rename, tick | the ledger, the voice gate | identifiers reused while a tune is in flight | what plays is the followed call |
| trunk scanner (`src/engine/trunk_scan.c`) | targets with snapshots, timers and tunes; holds | tick, park, roll back, hold, avoid, advance | state machines, tuner, call state | parks refused or late in the middle of a switch | frames go into their own target; the rotation goes on |
| P25 trunking and watchdog (`src/protocol/p25/p25_trunk_sm.c`) | mode, slots, timers, two threads | grant, tick, release | the ledger, candidates | two threads tick one machine | not modelled yet |
| I/Q replay pacing (`src/io/iq/iq_replay.c`) | file position, one outstanding chunk | feed, wait, loop, drain | input ring | event boundaries against asynchronous consumption | not modelled yet |

Protocol decoders, error correction, DSP, configuration parsing, file formats
and the user interfaces are pure computation or I/O and are not modelled; the
platform layer's locks and condition variables are taken as specified.
`PROJECT.json` lists every component with its status, and every hazard at the
line where it bites.

## 2. What is modelled

Conventions. An action is a whole handler, or the part of one between two points
at which another thread can see or change what it uses: a critical section is one
step, a lock-free read or write a step of its own, a condition wait a state that
a signal, a timeout or (where it matters) a spurious wake-up leaves. Values that
no property tells apart are dropped. Names follow the source.

*Circumstances.* Some components are exercised quite differently by different
surroundings (a map with two rows, a rigctl peer, a token, a scanner). Where one
instance of all of them together is too large, the surroundings are a record that
`Init` chooses from a constant set and no step changes: `setup`, `area`, `air`,
`site`, `config`, `service`, `host`, `desk`, `server`. A run is then the union of
a few small instances, and the theorems hold for every such record.

### `TuneRequests`: the ledger and the frame gate

`rec[id]` is the record that holds request `id`, `FREE` when none does, so the
array of records and the search through it become a function on ids; the
history's bound is `History`. A critical section updates the records in one
step (only lock holders can see them) and leaves its writes to the two atomics
in `adv` and `delta`. `ApplyAdvance` and `ApplyCount` then perform them one at
a time, in program order and with the lock held, because
`dsd_trunk_tuning_frame_is_current()` may run between any two. That function is
four actions, one per atomic load.

| code | actions |
| --- | --- |
| `dsd_trunk_tuning_request_begin()` | `FetchId` (the id is taken before the lock), `Begin`, `BeginRefused` |
| `dsd_trunk_tuning_request_publish()`, `_mark_ready()`, `_complete()`, `_disown()` | `Publish`, `MarkReady`, `Complete`, `Disown` |
| owners: submit, wait, note the result | `SubmitDirect`, `SubmitHalf`, `SubmitTagged`, `WaitEnds`, `NoteResult` |
| owners after the call returned | `Expire` (NXDN, DMR deadlines), `RollBack` and `LetGo` (TETRA), `Drop` |
| `dsd_engine_rtl_tune_completion()` | `BackendCompletes` |
| capture, frame check, `dsd_engine_retire_inactive_tune_failures()`, dispatch | `Capture`, `CheckBegins`, `ReadCount1` .. `ReadGeneration2`, `Inspect`, `InspectStatus`, `RetireThrough`, `Dispatch` |
| `dsd_trunk_tuning_requests_reset()` | `Reset` |

The five tune results are three classes (`OK`, `PENDING`, failure), which is
all this layer distinguishes. Completion timestamps are left out.

### `RetuneController`: the live SDR's retune pipeline

Callers, the controller, the demodulator, the reading decoder, the device
callback and `soft_stop()` interleave. A sample is known only by the hardware
setting it was captured under, and each ring by the set of settings it holds;
that is enough to say "old". Request ids, completion ids, the slots of results,
the read gate and the output generation are kept as the code keeps them. Locks
cover single steps, with one exception the code really has: a caller that times
out keeps the completion lock while it waits for the reader to leave the ring.

| code | actions |
| --- | --- |
| `schedule_manual_retune_on_controller()` | `Queue` in `Tune`, `Nudge` (the UDP port) |
| `rtl_stream_tune_wait_for_completion()`, `controller_gate_tune_timeout()` | `WaitAnswered`, `WaitStopped`, `WaitTimesOut`, `Disown`, `GiveUp` |
| `controller_thread_retune_loop()` | `Take`, `EnterGate`, `Park`, `ClearFirst`, `ClearRing`, `PrepareInput`, `Program`, `Release`, `Drained`, `DrainTimesOut`, `Publish`, `Signal`, `CtlExits` |
| `demod_thread_fn()` | `Purge`, `ReadBlock`, `EnterBlock`, `CheckBlock`, `EmitBlock`, `DemodExits` |
| `rtl_stream_read_live_available()` | `ReadBegins`, `NoteGeneration`, `LookAtGate`, `Copy`, `Leave`, `GateAgain`, `CompareAgain`, `Consume` |
| `dsd_rtl_stream_soft_stop()` | `StopBegins`, `Detach`, `Join`, `CancelPublish`, `CancelSignal` |

The device's write is atomic here; the interval between its generation check
and its commit is the subject of `InputRing`.

### `InputRing` and `SampleQueue`: the ring of samples

Index arithmetic is kept as it is in `input_ring.cpp`, the two-region
reservation and the rounding to I/Q pairs included. A sample is its number in
the device's stream, with the first number of its reservation and the purge
generation that was noted. `Receive`, `NoteGeneration`, `Reserve`, `Write`,
`CheckGeneration`, `LookBeforeCommit`, `StoreHead`, `SignalReady` are the
callback (`rtl_write_u8_to_ring()`, `input_ring_reserve()`,
`input_ring_commit()`); `Top`, `DiscardReads`, `DiscardStores`, `Look`,
`LookUnderLock`, `WaitTimesOut`, `ReadReserve`, `Prepare`, `DropBlock`,
`KeepBlock`, `Demodulated` the demodulator; `AskGeneration`, `AskFlag` the
controller's purge request. The steps of `input_ring_commit()` and of
`input_ring_wait_for_data()` are separate because their order is what the
wakeup depends on.

`SampleQueue` is what the ring promises: a bounded first-in first-out queue.
The refinement mapping takes the queue to be the cells from `tail` to `head`.

### `WorkerPool`: two workers behind the demodulator

`demod_mt_init()` is `Create`; `demod_mt_run_two_impl()` is `Post` and `LookDone`
(or `RunInline` without a pool); a worker is `TakeTask`, `Sleep`, `Run`, `Count`,
`End`; `demod_mt_destroy()` is `Destroy` and `Joined`. A worker keeps the epoch it
last saw (`local`), so it may be an epoch behind when it wakes. Spurious wake-ups
are actions; liveness does not rely on them.

### `IqCapture`: the capture writer

A byte is its number in the source's stream. `Submit` begins a submission and
cuts it at the size limit; `Pack` fills blocks one at a time, `NoBlock` drops what
finds none, `SubmitFails` what finds a failed writer; `PairDone` and `RestDone` end
it and keep the odd byte. `RecordEvent` is a retune or mute. The writer is
`NextEntry`, `Timeout`, `Age` (the deadline of a filling block), `WriteBlock`,
`WriteFails`, `Release`, `Flush`, `FlushFails`, `FailAndDrain`. `Close`, `Closed`,
`Abort`, `Aborted` end the capture; `Closed` reconciles the counters and the event
list with a file that may hold any part of what was written since the last flush.

### `CallEvents` and `UiSnapshot`: what a call leaves behind, and its copy

`CallEvents` is one slot. Everything runs under the call-state lock, so an
operation is one step, composed of functions from slot state to slot state named
after the routines (`OpenEpoch`, `CommittedIndex`, ...). `Observe`, `EndCall`,
`SyncSlot`, `NoteCall`, `Media`, `Tick`, `Enrich`, `LockoutOwn`, `LockoutOther`,
`Notice`, `Reset`, `Hop` (the scanner's save and restore) and `Shutdown`. A row is
who it names and the epochs whose content it holds; `root` maps an epoch to the
transmission it belongs to, which is what rows and alerts are counted by.

`UiSnapshot` copies, at each `Publish` and `Get`, only the members whose counters
say that they changed. The writers of those counters (`WriteHistory`,
`LearnChannel`, `AdoptMap`, `GrowList`, `RollList`, the scanner's `Advance`,
`AdvanceFails`, `ParkFails` and `Retry`, and sessions that end and begin) are modelled with
them, and an allocation of a copy may fail.

### `CommandQueue`, `ApiServer`, `EventFeed`: the control surface

`CommandQueue`: producers are `ReadGeneration` (a key request names the session it
was built for), `Reject`, `Coalesce`, `Enqueue`, `Evict`; the decoder is
`StartSession`, `StopSession`, `Cancel`, `Edge` (the session edges, during which it
holds `g_mu`), `Pump`, `Pop`, `Refuse`, `Apply`, `PublishResult`, `DrainDone`, and
the wait that `Samples` or `Pending` ends. A command is the number of its
submission: what it sets is that number. `ResultsSince` is
`dsd_app_*_results_since()`: the set of results it finds, which carry the sequence
numbers it goes by.

`ApiServer`: one accept thread, one result pump, a thread for each session and the
thread that stops the server. Outboxes, limits, the drain and its deadline, gaps
in the result history and the start after a stop are modelled; a request is what
its handler does to the session, a reply one line.

`EventFeed`: `Gather`, `Baseline`, `SendLines` are the feed's transaction over one
slot's ring, which `Push`, `Amend`, `ResetHistory` and `NewRing` change between
any two of its critical sections; clients `Listen` and `StopListening`. The lines
gathered for a broadcast are a function of the row they are about (`lines`), which
are sent from the oldest row to the newest.

### `CcCandidates` and `NxdnCcHunt`: looking for a control channel

`CcCandidates` is the list of `trunk_cc_candidates.c` with what P25 feeds it:
announcements of secondaries (`AnnounceSecondary`), held until an `Iden` gives the
channel a frequency, neighbours (`AnnounceNeighbour`), the cache on disk, the site's
own status, and the operator's `Select` of another site, which forgets the rest.

`NxdnCcHunt` has every entry point of the hunt: `Tick`, validated content (`Cac`,
`SiteMessage`, `Content`, `TypeD`), grants and returns, answers of the backend,
operator moves, reconnection of a rigctl peer, replacement of system or input. The
ledger appears as the sequence of the requests that are unresolved or may still be asked
about (`Kept`), answered in order.

### `DmrTrunkSm`, `TetraTrunkSm`, `TrunkScan`: following calls

`DmrTrunkSm`: the messages of a burst (`Decoding`), `LoopEnds` (a voice loop that
was entered while the gate was open), `Tick`, `NoCarrier`, `Pass` (a period
elapses), `Answer`, `Operator`, `Retire`. A tune towards a control channel is
tracked until it is answered or its deadline passes; a tune to a voice channel is
not, as in the code. `m.rxf` is where the machine takes the receiver to be, `rx.hw`
where it is. The history `unseen` says that the receiver was moved in one of the
two ways the machine is not told of (section 4), and `moved` that the operator moved
it and no burst and no full listening period has come since.

`TetraTrunkSm`: setups, allocations, releases and renames of call identifiers,
cell changes and speech, with one tune in flight whose put-back state is kept
aside. Of the histories, `lease` records which call a channel was last given to on
the air, and `slipped` that a channel a tune in flight may put back was given away
while no record said whose it was.

`TrunkScan`: the coordinator's tick with its parks, rollbacks and snapshots over
two targets. A handler runs to its end under the tick guard, so each operator takes
the state so far and gives the states it may leave; the state machines of the
targets are abstracted to what the coordinator sees of them.

## 3. Runs

Twelve runs; each takes between one and four minutes on two workers. Every
constant is small, and each was chosen so that the case a property is about
occurs, which the property's mutant confirms.

*Sums.* Components that share no state are checked in one run as a sum: `part`
says which of them a behaviour is of, and the others rest in one initial state.
That is exactly the union of their separate state spaces; a component's fairness is
guarded by its `part`, so that no liveness property holds because its component is
at rest (each of them is falsified by a mutant under the same specification).

*Composite properties.* A property that says what a component promises is a
conjunction of named parts, each with its own comment in the module: the table
names them.

| run | instance | properties |
| --- | --- | --- |
| `tuning` | ledger: 2 owners, 1 record, 2 requests (a gate is inherited, a begin refused); list: two sites, more secondaries than room, neighbours named in part | `TypeOK`, `CountMatchesLedger`, `GenerationCountsCommits`, `DispatchedFrameIsCurrent`, `UnrecoveredFailureKeepsGate`, `ResolvedStaysResolved`, `InFlightSettles`; `CandidatesRight` = types, `CandidatesDistinct`, `OfferedInTurn`, `SelectedSiteOnly`, `NothingLost`, `NeighboursDistinct` |
| `retune` | 2 calls: 2 callers with or without tokens over one result slot; one caller beside the UDP port; or one caller with `soft_stop()` at any point | `RequestsInOrder` (types, `RequestsAccounted`, `CancelledInOrder`), `AnsweredAsPublished`, `DemodParked`, `HandoverIsFresh`, `TimedOutStaysSilent` |
| `retune_hunt` | 1 caller, 1 call (alone, a call without a token takes the steps of one with a token), stop at any point; NXDN hunt over a map with a repeated, an empty and another row, RTL or rigctl | `RetunesEnd` (`EveryRequestCompletes`, `GateReopens`); `HuntSound` (types, `ControlWasHeard`, `TypeDNeverHunted`), `HuntTimely` (`GraceHonoured`, `ParksSettled`), `HuntGoesOn` (`FramesReturn`, `HuntCoversMap`) |
| `samples` | ring: 6 cells, 8 floats, 1 purge; capture: three formats, 7 bytes, 2 blocks, 1 event; pool: 3 batches | `RingSound` (types, `SpansDisjoint`, `StaleIsOneReservation`), `PairsWhole`, `HeldIntact`, `ImplementsQueue`; `BlocksAccounted`, `CaptureRight` (types, `BytesAccounted`, `SamplesWhole`, `EventsPlaced`); `PoolSound` (types, `BatchDone`, `ArgumentsLive`); `SamplesGoOn` (six liveness properties) |
| `input_ring_wakeup` | ring: 8 floats, 1 purge | `NoSleepOverSamples`, violated: finding 1 |
| `calls` | seven services (fading, notices, kinds, two receive policies, scanning there and back), up to 3 epochs; three hosts of snapshots | `HistoryRight` (types, `RowsUnmixed`, `OneRowEach`, `NothingLost`, `LockoutNoted`, `DeletedStaysDeleted`), `AlertsPaired`; `CopiesRight` (types, `SnapshotIsCopy`, `HistoryIsCopy`, `ListHeld`) |
| `control` | ring of 3 slots with four desks; four servers with up to 2 sessions; feed over a ring of 2 rows | `AnsweredOnce`, `CommandsRight` (types, `AppliedInItsSession`, `InOrder`, `NewestInForce`, `HistoryReadable`, `StorageCleared`, `WarnedOncePerBurst`); `StreamsRight` (types, `CountersMatch`, `StreamWhole`, `ResultsAccounted`, `LastResultsRead`, `DrainDelivers`); `FeedRight` (types, `SubscriberCurrent`, `NewOnce`); `ControlReturns` |
| `scan` | two targets in four circumstances | `ScanSound` (types, `DecodedOnTarget`, `CallEndsOnce`), `CallKept` |
| `scan_live` | a limit on every visit, one or both targets refusing now and then | `ScanGoesRound` (`AllVisited`, `ReleasedRecovers`) |
| `dmr` | two carriers in four circumstances, at most 2 unanswered tunes | `DmrSound` (types, `AttributionSound`, `ReturnNamed`), `MoveKept` |
| `dmr_live` | calls whose tunes fail or miss their deadline; a cold start | `DmrGoesOn` (`SilentCallLeft`, `GateOpens`, `HuntVisits`) |
| `tetra` | two carriers, two identifiers; two calls, or one call with an operator event or a cell change; every tune may be late | `TetraSound` (types, `PlayedIsTheCall`, `FollowedOnItsCarrier`, `HeldIsFollowed`) |

Deadlock is checked in the runs of the ledger, DMR, TETRA and the scanner, which
always have a next step. In the others the run's bound (no more calls, samples,
submissions or epochs), a stopped stream or a closed capture ends the behaviour.

### Bounds

Two of anything that competes (owners, callers, sessions, producers, carriers,
targets, worker threads as in the code), one resource less than the competitors
need (records, result slots, ring cells, outbox lines, list places), and enough
events to go once round whatever wraps. Bounds that cut a behaviour short are
constants or fields with "bound" in their comment. The capture records at most one
event, so the order of several mutes in one capture is left to the code's append.

### Fairness

* Ledger: a lock holder finishes its section, an owner its tune call, the decoder a
  check it began, and the controller every request it accepted, which
  `RetuneController`'s `EveryRequestCompletes` justifies. No deadline, rollback,
  reset or new tune is forced.
* Retune controller: each thread keeps running, and `soft_stop()`, once begun, goes
  on; the code has no priority scheme that would starve one. A timeout, a call and
  a stop are never forced.
* Input ring: the demodulator keeps running, its 10 ms wait included; the device and
  the controller finish what they began. Nothing forces the device to deliver, so
  `StopEndsDemod` really relies on the timeout.
* Capture, pool: the threads run and time passes; nobody must submit, post, create or
  destroy.
* Command queue, API server: the decoder thread and the server's threads run; a
  client need neither send, nor read, nor close.
* NXDN hunt, DMR, scanner: ticks come round, periods elapse and the backend answers.
  Strong fairness is used only for the outside world: a tuner that is asked for a
  frequency again and again accepts it, or succeeds on it, at last. Without that no
  hunt could get anywhere.

### Mutants

Each property of a passing run has a mutant: an operator placed before the
definition it replaces, which changes it as a plausible bug would. They are
listed in `PROJECT.json`.

## 4. Findings and known divergences

1. `input_ring_commit()` decides whether to signal before it stores `head`. If
   the demodulator drains the ring and goes to sleep in between, the commit
   takes the ring from empty to non-empty without a signal, against the comment
   in `input_ring_wait_for_data()`. The wait has a timeout, so this is a delay
   of at most 10 ms (`SamplesMove` holds), not a stall. (`input_ring_wakeup`)

The models also show the following, which no run is spent on. Where one of them
would break a property, the property says so in its comment and excludes that case
and no more.

* The device callback compares the discard generation and then commits; a purge
  requested and carried out between the two goes undetected.
  `StaleIsOneReservation` bounds what gets through.
* `request_begin()` takes the id before the lock, so a gate may be inherited by a
  request with an older id, and a success lifts gates by the order of ids
  (`UnrecoveredFailureKeepsGate` counts such a failure as owed to nobody).
* A frontend that runs several sessions in one process may keep the channel map of
  the last one, whose sequence number and size the new map repeats
  (`SnapshotIsCopy` is stated for one session, `HistoryIsCopy` for all).
* A park that is refused in its call is rolled back and its gate reopened
  (`trunk_tuning_hooks.c:294`), so the target on air goes on learning channels until
  `trunk_scan_retry_active_if_due()` (`trunk_scan.c:3085`), due when the scan is held,
  has one target or owes a released park, restores the snapshot that the failed round
  saved. What was learned since is lost. The snapshot's new number comes from
  `last_trunk_chan_map_seq`, which knows nothing of the numbers learned since either:
  after a failed round that also tried another target, two changes of the map, a
  publication and the retry, the old map has the number just published, and with as
  many channels in it `ui_snapshot_copy_trunk_chan_map()` (`ui_snapshot.c:79`) skips
  the copy: the frontend keeps the map the retry threw away. `reused` holds the
  numbers that come again, and `SnapshotIsCopy` excludes a map published under one of
  them; once a number is past those it holds again. Without the exclusion TLC finds
  this in run `calls`.
* The same retry brings a call back: it is open when every park of a round is
  refused, that of the target on air too, ends on the air, and is open again in the
  snapshot the retry restores; its end is then recorded a second time. The comment at
  `trunk_scan.c:2930` keeps the forced release from doing that, and nothing does so
  here. `revived` holds such calls until they are begun anew, and `CallEndsOnce`
  excludes them. Without the exclusion TLC finds this in run `scan`: a grant, a hold, an
  avoid whose parks are refused, the call's end, the retry.
* A DMR voice loop that goes on decoding across a probe may take the probe's
  frequency for the one it hears (`ReturnNamed`), and a tune retired when trunking is
  switched off keeps its attribution (`AttributionSound`).
* When another protocol has taken the trunk over, the operator's return to the control
  channel moves the receiver and the DMR machine is not told: `hand_dmr_sm_over()`
  (`app_command_queue.c`) returns early where DMR recovery is not allowed. The
  machine's attribution is then stale, and the next control burst it decodes makes
  that carrier the one calls return to: a probe of carrier 2 that succeeded, a change
  of owner, the operator's return to carrier 1, a control burst. `unseen` marks both
  this and trunking switched off, and `AttributionSound` and `ReturnNamed` exclude
  what it marks. The attempt at a proof showed it.
* A call followed during the startup hunt, on a site that then identifies itself as
  XPT, outlives the operator's move: while the hunt is on,
  `dmr_sm_cold_start_note_retune()` (`dmr_trunk_sm.c:1425`) asks for a park and does
  not abandon the call, the gate (`dmr_trunk_sm.c:391`) ends the hunt because the owner
  is named and lets the call stand, and the next tick releases it and tunes to the
  control channel, before the listening period the move began is over. `MoveKept`
  excludes it (`moved` stays `FALSE`). The attempt at a proof showed it; the cold
  circumstance of run `dmr` now has grants, so that TLC reaches it too.
* A TETRA call taken where the decoder only believed the receiver to be is followed
  there (`FollowedOnItsCarrier`).
* `calls_take_channel()` (`tetra_calls.c:851`) looks at the call records and at the
  channel followed now, not at the one a tune in flight would put back. A change of
  cell empties the records, so such a channel may be given to another call unnoticed;
  when the tune fails it comes back, proven, although a comment at
  `tetra_voice_gate.c:55` says that the machine has let go of it (`PlayedIsTheCall`).
  It takes two calls and a change of cell, more than the run has at once: the attempt
  at a proof showed it.
* The scanner's retry of a park that failed may cut a call that came up meanwhile
  (`CallKept`).

## 5. Proofs

Eight modules hold theorems; `tlapm` checks every leaf. Each theorem holds for
every value of the constants that satisfies the named assumptions of the module it
is about, and those assumptions only say that sizes are positive numbers, that
reserved names are not owners, that the sessions are finitely many, that a reception
or a channel map is over the frequencies there are, and that bounds are bounds. TLC
checked each property on its run first.

| module | theorem | property |
| --- | --- | --- |
| `TuneRequestsProofs` | `TypeCorrect`, `CountCorrect`, `GenerationCorrect`, `FrameGateSound`, `FailureKeepsGate`, `ResolvedForGood` | `TypeOK`, `CountMatchesLedger`, `GenerationCountsCommits`, `DispatchedFrameIsCurrent`, `UnrecoveredFailureKeepsGate`, `ResolvedStaysResolved` |
| `RetuneControllerProofs` | `RequestOrder`, `ParkedDuringRetune`, `FreshSamples`, `SilentAfterTimeout`, `OneAnswer` | `RequestsInOrder`, `DemodParked`, `HandoverIsFresh`, `TimedOutStaysSilent`, `AnsweredAsPublished` |
| `SamplesProofs` | `RingIsSound`, `HeldSpanIntact`, `PairsStayWhole`, `RingImplementsQueue` | `RingSound`, `HeldIntact`, `PairsWhole`, `ImplementsQueue` |
| | `PoolAccounted`, `NoOverflow` | `BlocksAccounted`; `RoomForBlocks`, stated with the proof |
| | `PoolCorrect` | `PoolSound` |
| `TetraTrunkSmProofs` | `TetraIsSound` | `TetraSound` = `TypeOK`, `PlayedIsTheCall`, `FollowedOnItsCarrier`, `HeldIsFollowed` |
| `CommandQueueProofs` | `EveryRequestAnswered`, `CommandsAreRight`, and its parts `QueueTypes`, `NoCommandOutlivesItsSession`, `AppliedInOrder`, `LastSettingStands`, `LastResultsReadable`, `NothingLeftBehind`, `OneWarningPerBurst` | `AnsweredOnce`, `CommandsRight` = `QueueTypeOK`, `AppliedInItsSession`, `InOrder`, `NewestInForce`, `HistoryReadable`, `StorageCleared`, `WarnedOncePerBurst` |
| `ApiProofs` | `StreamsAreRight` | `StreamsRight` = types, `CountersMatch`, `StreamWhole`, `ResultsAccounted`, `LastResultsRead`, `DrainDelivers` |
| | `FeedIsRight` | `FeedRight` = types, `SubscriberCurrent`, `NewOnce` |
| | `CopiesAreRight` | `CopiesRight` |
| `DmrTrunkSmProofs` | `DmrIsSound` | `DmrSound` = `TypeOK`, `AttributionSound`, `ReturnNamed` |
| | `MoveIsKept` | `MoveKept`, an action property |
| `NxdnCcHuntProofs` | `HuntIsSound` | `HuntSound` = types, `ControlWasHeard`, `TypeDNeverHunted` |
| | `HuntIsTimely` | `HuntTimely` = `GraceHonoured`, `ParksSettled`, action properties |

### `TuneRequestsProofs`: any owners, history size and number of requests

None of the invariants is inductive alone. `IInv` adds: what a lock holder may
still owe the atomics (`LockInv`); that committed requests are resolved and not
resolved twice (`CommittedResolved`), without which a second completion could
count a tune again; that ids not yet handed out are untouched and owners only hold
ids that were (`OwnerInv`); that a count on its way up belongs to an owner still
inside `request_begin()` (`OpeningInv`), which is what lets the lock-free check
miss it without harm; that once the second look at the count has succeeded, either
the frame is clear or the generation has moved past it and the fourth load will
refuse it (`FrameInv`), which is the reason why the generation is advanced before
the count is lowered. `OwedInv` is for `FailureKeepsGate`: a failure whose record
was evicted is carried by an heir, which may be evicted in turn, so the invariant
says that some record still carries it, whichever that is (`Carries`). The argument
has one lemma per critical section, each concluding `SectionOK`, and one per step
of the frame check. `ResolvedForGood` is an action property: no critical section
turns a finished record back into an open one (`Kept`).

### `RetuneControllerProofs`: any callers, calls and result slots

The invariant has five parts, each resting on the ones before. `CountInv` says
where the one retune of each request id is: in the queue, at the controller, at
`soft_stop()`, or completed. `ParkInv` says who may be at a block while the
controller works. `FreshInv` says which settings' samples are in either ring, in
the demodulator and in the reader's hands; a read that holds old samples is one
whose generation has been left behind, so its last comparison will refuse them.
`SilentInv` says what a closed gate means for a read under way: it cannot hand over
while a caller that timed out has let go of the completion lock. `AnswerInv` says
where a tagged call is (`Placed`) and what its owner was told; a slot that was
reused no longer names the request, which is why a late waiter is told nothing
false.

### `SamplesProofs`: the ring, the capture writer and the worker pool

*The ring: any capacity, block and stream.*
For every even capacity and even read size. The invariant replaces membership in a
span by distance from its start (`SpanIsDistance`), which turns wrap-around into
linear arithmetic. It says that a reservation fits in the free cells whatever tail
does since (`RoomInv`), that the head a purge noted is not behind tail, that a held
span starts at tail and is part of the content, that the content and a written
reservation are samples of the stream (`CellInv`), and that indices, reservations
and held spans are even (`ParityInv`). `StaleInv` follows the samples older than a
purge that was carried out: they are at most those of the one reservation that was
already checked, which is `StaleIsOneReservation`.

`RingImplementsQueue` is the refinement: storing `head` is a `Put`, a release is a
`Take`, a discard is a `Forget`, and every other step leaves the queue unchanged.
It adds `OrderInv`: what was taken and what is in the ring are in the order of the
stream and no newer than what was sent. The lemma that does most of the work is
`ShiftedRing`: moving `tail` over n samples removes exactly the first n from the
sequence, wherever the wrap falls.

*The capture writer: any format, block size, pool and limit.*
`CaptureInv` is the submission in progress (`SourceInv`) and where the blocks are
(`PoolInv`): free, filling, queued, in the writer's hand, or counted as lost to it.
`PoolAccounted` says that no block is lost or given back twice wherever a write or
a flush fails and whenever the capture ends; `NoOverflow` that neither the queue of
blocks nor the free list is ever asked to hold more than its array has room for,
which comments at `src/io/iq/iq_capture.c:1117` and `:1140` rely on.

*The worker pool: any number of batches.*
A worker may be an epoch late, so where it is says nothing by itself: `WorkerInv`
ties its place to whether its `local_epoch` is the current one, and the completion
count is the sum of what the workers have counted (`CountOf`). A late worker finds
an empty task slot, and a call returns only when both tasks of its own epoch ran.

### `TetraTrunkSmProofs`: any carriers, channels, identifiers, calls and events

A handler is a composition of operators on a state, so the invariant is stated of
such a state and each operator has a lemma that says what it keeps; `LeavesKeeps`
carries the result over to the variables. `Core` is about the machine and the
receiver. `FlightInv`: the machine's own request is the last of the backend's queue,
for the carrier that is followed, so its answer leaves nothing to wait for.
`WhereInv`: the receiver is on the carrier of the call that is followed or, while a
tune is in flight, on that of the call its failure would put back. `HeldInv` says of
both what the shared tuning state may show, and `ProofInv` that evidence from before
the carrier was forgotten proves nothing, also when a failed tune brings it back.

`Book` relates the machine to the call records: what is followed, or would be again,
has a record, and its channel was given to no other call. Within a handler the
records run ahead of the machine, so `Book(s, X)` leaves out the identifiers that
are still to be retired: `calls_take_channel()` first gives the channel away, and
only what it does afterwards (retire the records that lost it, consider the new
call, leave the channel) brings X back to the empty set. That is where the proof
failed at first: a call that a tune in flight would put back, whose record names no
channel since a change of cell, is in X and is never retired (section 4, and
`slipped` in the model).

### `CommandQueueProofs`: any capacity, desk, submissions and sessions

`QueueInv` says that the live slots of the ring are exactly those that hold a
command (`RingInv`), that a submission is in one place (`NumberInv`), and
`AnsweredOnce` itself. Each step is reduced to what it does to one feed
(`FeedStep`: which requests it admits, which it answers), so that the counting
argument is made once.

The other theorems add to it. `SessionInv`: what is queued or in the drain's hand
belongs to the session that is open, and to no other. `OrderInv`: what is queued is
younger than what is in hand, which is not older than what was applied last, and a
later place in the ring (`Rank`) is a later submission, which coalescing keeps
because it writes only over the command at the ring's end. `SettingInv`: the last
submission of each setter is lost, in force, queued or about to be applied
(`Stands`), and nothing younger of its kind is on the way; with an empty queue that
is `NewestInForce`. `BurstInv` ties the warning gate to the burst it stands for. `ResultInv`: each of the last results of a feed is
in its slot under its own number (`ResultsKept`), so that the test by which a reader
skips an overwritten slot skips none of them. `StateInv` completes the types.
`CommandsAreRight` puts them together.

### `ApiProofs`: the API server, the event feed and the snapshots

*The server: any finite set of sessions, and any outbox, history, chunk, limits and
number of connections, requests, results, lines and starts.*
`ApiInv` speaks of each session by itself (`SessionInv`, `Told`) and of what they
share. `Whole`: what a session received, what of a batch is not sent yet and its
outbox, one after the other, are the beginning of what it is owed, and all of it
until the session is dropped; queueing, taking the outbox, a partial send and a drop
each keep that. `Settled`: a session that calls itself drained was sent all it is
owed, unless it was dropped. `Told`: a session that listens was sent each complete
result up to the pump's position, or a gap line that covers it, or it is the one the
pump is about to send. That needs `PumpInv`: the results in the pump's hands have no
hole between them and start after its position, and the only hole there can be, in
front of the first, is what the gap line counts. `CountInv` ties the topics'
interest to the sessions that have the topic, without which the pump would skip a
result as unheard that somebody waits for. `AcceptInv` is about the session that is
made and not linked yet, `StopInv` says that the stop's last reading goes on until
it has passed the newest result there was when the stop began (a full chunk is
followed by another reading), and `DrainInv` whom the drain waits for.

*The event feed: any ring, clients, contents and restarts.*
A publication is two steps, and rows are pushed, amended and reset, and clients come
and go, between them; so nothing inductive can be said of the ring and the clients
directly. `FeedInv` speaks of the feed's memory instead: what it remembers is the
ring at the revision it remembers (`LookRight`), the lines in hand are of remembered
rows (`LinesRight`), and a subscriber knows every remembered row that is not on its
way to it (`ClientsTold`). `SubscriberCurrent` follows where the memory has caught
up. The step that takes work is `Gather`, where the memory is replaced and shifted
by the rows pushed since: what a client knew of row i it must know of row
i + `Pushed`, and what it does not know must be among the lines gathered.

*The snapshots: any channels, maps, targets, slots, addresses and sessions.*
A copy is skipped when a counter says that nothing changed, so the invariant says
what equal counters mean. `HistoryInv`: what was published of a slot has no newer
revision than the ring's, and with the same revision the same rows; revision 1 means
blank rows, which is why a new ring that was given the address of the last one is
not mistaken for it: it is published before anything is written to it. `MapInv` says
the same of the map's sequence number, which holds only while one state serves the
process and of a number that no retry in place has made come again (`Vouched`): of both
copies, not only of the published one, since once a number went back the order of the
copies says nothing about the live map's. A copy that was never filled is skipped only if the map is empty too
(`UsedCounts`). Each change of the decoder's state, the scanner's save and restore
included, is reduced to one statement (`Moves`): revisions never go back, the sequence
number goes past every earlier one that does not come again, and the map does not
change without it. `CopyFits` is about the scan
list alone: whatever allocations fail, the copied list fits in what the copy holds.
The first state of a scanner numbers its maps after the largest of the targets',
which exists because no map has more entries than there are channels
(`GreatestNumber`, from the well-foundedness of the numbers).

### `DmrTrunkSmProofs`: any carriers, map, circumstances and events

As for TETRA, handlers are compositions of operators on a state, each with a lemma
that it keeps the invariant (`Keeps`), and `StepKeeps` carries it to the variables.
`Sound` holds always: types, and that the tracked request is in the backend's queue
exactly while it is pending, once. `Right` holds while the machine is told of every
move. `CenterInv`: the decoder reads the frequency asked for last. `MoveInv`: while
an operator's move is queued the machine claims no carrier, and a tracked request
that the move overtook will not make it claim one. `ProbeInv`: off a voice channel
the tracked request is the newest, for the carrier that is probed, which is why its
success proves where the receiver is although other tunes were given up before it and
may still be applied. `WhereInv` is `AttributionSound`; `NamedInv` is `ReturnNamed`
for the three places a frequency may come from; `RestInv` says that a machine at rest
claims nothing and that a followed call has a way back. The proof failed at first at
the operator's return under another protocol (section 4).

`MoveIsKept` needs, beside that invariant, what holds the receiver where the operator
put it. `Kept` says that while `moved` stands no voice channel is tuned, and another
protocol owns the trunk or the machine is `Firm`: a startup hunt has a park to come
and its window is not over; a machine whose tune the move overtook waits for the
ledger or listens in a period that runs; otherwise it rests, or is on a control
channel with nothing acquired, nothing asked and a period that runs. `StillInv`, which
the first invariant carries beside `Right`, says that a machine at rest tracks
nothing, that a startup hunt has a map to walk, and that neither is suspended by a
move or has confirmed a channel. Each operator a tick goes through is shown
to leave alone what `Firm` reads (`Steady`), or to end in a `Firm` state with the
receiver where it was; `NoteRetune` establishes it (`RetuneFirm`); a period that ends ends `moved`,
unless the settle was already waited for; an answer of the backend cannot be the one
a machine without a request acts on (`OwnInv`). This proof failed at first at a call
followed during the startup hunt (section 4).

### `NxdnCcHuntProofs`: any air, limits, requests and events

`HuntSound` is not inductive: that a CAC was heard on the frequency the hunt puts down
depends on which tunes are still on their way. `Good` says it of a state a tick goes
through, so that each function of `nxdn_cc_hunt.c` has a lemma that it keeps it, and
`HuntInv` is the same at rest. `LedgerInv`: what is pending is in the backend's hands,
and at most one request is the hunt's. `OrderInv`: nothing newer than the hunt's request
is unresolved; what is newer than a pending request of others is pending too; while the
hunt runs only its own may be. `LandInv`: the hunt's request is the last in the ledger,
for the frequency that is probed, unless the operator moved the receiver since, and once
it has succeeded nothing is left that could move the receiver. `PhaseInv`: only a hunt
has a request or a park to come, and there is none in a call. `AttrInv`: the frequency
the receiver is credited with was heard, or it is the one the receiver is on and nothing
in flight can take it away. The ledger drops a record nobody may ask about any more, at
any place in the sequence; `Trim` is therefore written by rank, and one lemma says that
it keeps the order of what it keeps. `ParksSettled` follows from the same invariant.

`GraceHonoured` needs `TimeInv` on top of it, because a tune of others may land long
before a tick asks about it. Outside a hunt the newest tune in flight is the one that is
followed (`FollowInv`), and the grace period began no earlier than the last tune landed,
unless one is in flight, or the one that landed is the one followed and the next tick will
find it (`GraceInv`; not claimed inside an input boundary, where requests are retired
without an answer, and which arms the hunt again when it ends). In a call the hunt is
unarmed or a tick is due that disarms it.

### Only model-checked

* Every liveness property: fairness is out of this prover's reach.
* What rests on induction over a sequence or a fold: `BytesAccounted`,
  `SamplesWhole`, `EventsPlaced` of the capture.
* The invariants of `CcCandidates`, `TrunkScan` and `CallEvents`, and the action property
  `CallKept` of `TrunkScan`. Nothing in them is out of the prover's reach; their
  inductive invariants have not been worked out.

## 6. Not modelled

* Memory ordering. Atomics are sequentially consistent in all modules. The
  demodulator's park handshake stores one variable and loads another on each
  side with release and acquire only; whether that is enough on a weakly
  ordered machine is outside these models and is listed as a hazard.
* In `RetuneController`: PPM corrections, frequency hops, asynchronous and
  polled tickets, replacement of the completion callback, the other holders of
  the reconfigure gate, and the destruction of the locks in
  `controller_cleanup()`.
* In `InputRing`: the write watermark and space notification, which only replay
  uses, and `input_ring_read_block()`, which only tests call.
* In `CommandQueue`: what each handler does with its command; a command sets its
  number, which is what order and loss can be told by.
* In `DmrTrunkSm`, `TetraTrunkSm` and `TrunkScan`: the content of messages beyond
  what changes a machine's state, and rigctl as a tuner other than one that may
  refuse or be late.
* In `UiSnapshot`: whether the gate lets frames through between a park that fails late
  and its retry; the model lets them. One round of parks is a step for each attempt.
* In `CcCandidates`: the system identity that the cache's file name needs
  (`p25_cc_candidates.c:80`); the areas checked know theirs from the start, and none
  has neighbours and more secondaries than the pending table holds at once.
* In `CallEvents`: the protocols without an end marker, whose sync loss counts as an
  end on the air (`dsd_events.c:635`), and those whose voice never carries identity and
  keeps its rows (`dsd_events.c:435`); the calls modelled are of protocols that have
  both. An identity received that changes under the call
  (`dsd_receive_identity_changed()`) keeps rows apart and never merges more; a BEGIN
  without an identity over an active call is left out.
* In `DmrTrunkSm`: `NoCarrier` makes the return a request the machine tracks, where the
  code tracks it only to replace a failure (`engine.c:1847`) and else retunes directly
  (`engine.c:1330`), and takes the control channel as its goal where the code prefers a
  mapped rest channel (`engine.c:1540`); the check of a voice carrier starts again only
  when a call is released or admitted, not at a new voice frequency
  (`dmr_trunk_sm.c:1221`); and a map has no equal rows side by side, which the code
  takes as one (`dmr_trunk_sm.c:548`).
* In `TetraTrunkSm`: a SYSINFO of another main carrier or location area
  (`tetra_mac.c:816`, `:850`), which forgets the cell as a synchronisation burst of
  another cell does; the model has the second (`OtherCell`), and only while no tune is
  in flight.
* P25's trunking state machine and its watchdog thread, I/Q replay, and the other
  components whose status in `PROJECT.json` is `not_modelled`: protocol decoders,
  error correction, DSP, configuration and files, user interfaces, platform layer.

## 7. Plan

1. The rotation list of `CcCandidates`: `CandidatesDistinct`, `NeighboursDistinct`
   and `NothingLost`.
2. `DecodedOnTarget` and `CallKept` of `TrunkScan`, and `OneRowEach` of `CallEvents`.
3. `RetuneLedger`: the ledger composed with the controller, to discharge the
   ledger's assumption that every accepted request is answered.
4. Models of the P25 state machine with its watchdog, and of replay pacing over
   `InputRing`.
