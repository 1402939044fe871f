# Zond Engine in TLA+

A verification development kept beside `zond-engine`, a network scanner library.
It models the parts of the engine where an error is silent: a journalled scan
that is cut short, resumed, and must neither skip a target nor forget a finding
while several tasks, a timer and the operating system get in each other's way;
the loop that turns silence on the wire into a verdict; the detection flows that
share a host; and the store of fetched data that processes share.

Paths below are relative to the crate's `src/`.

## 1. The system

### Parts, state and operations

| Part | Source | State | Operations |
|---|---|---|---|
| Cursor | `journal/cursor.rs` | plan watermark, positions settled above it, how far along a permuted walk | `settle`, `along`, `catch_up`, snapshot, `from_checkpoint`, `left_in` |
| Walk order | `model/order.rs` | a seed and a length | `walk`, `unwalk`, `index_of` |
| Settlements | `journal/settle.rs` | a cursor behind a mutex, a counter per outcome | `record`, `record_unsettled`, `checkpoint` |
| Journal lock | `journal/lock.rs` | lock file (pid, boot, heartbeat), advisory lock on a sibling | `acquire`, `take_over`, `force`, `beat`, `release`, `inspect` |
| Findings file, store | `journal/store.rs`, `journal/format.rs` | append-only lines, cursor file, what the file is remembered to hold | `record_hosts`, `compact`, `write_cursor`, `resume`, `mend`, `prune` |
| Checkpoint writer | `scanner/checkpoint.rs` | a cut, whether the last one failed | cut, write, hand back, close |
| Session | `scanner/session.rs` | host store, changed set, failures, counts, per-host clocks and gaps | `write_host`, `record_outcome`, `record_unroutable`, claims |
| Scan handle | `scanner/handle.rs` | abort flag, deadline, waiters | `abort`, `stopped`, `stopping` |
| Dispatcher | `scanner/dispatcher.rs` | place in the walk, batch, channel, count accounted for | walk, drain |
| Router | `scanner/strategy/composite.rs` | a route per scanner | receive, send, record |
| Raw scanners | `scanner/strategy/ports.rs` | ledger, held probes, window | `drive` and its ways out |
| Connect scanners, pool | `scanner/strategy/connect.rs`, `scanner/pool.rs` | tasks in flight | `admit`, `reap`, `drain` |
| Probe ledger, pacing | `scanner/pacing/` | attempts, timers, congestion window | arm, resolve, `drain_due`, grow, cut |
| Fetch store | `fetch/store.rs` | data, metadata, two advisory locks | update, read, derive |
| Detection | `detect/`, `scanner/detection.rs` | contention word, tapes | enter, leave, record |
| Everything else | model, report, merge, diff, export, import, fingerprint, cve, protocols, transport, system, resolve, config | values, or the operating system's state | pure functions, or I/O |

### How they interact

A port scan numbers its plan. The dispatcher walks it in a permuted order and
sends targets down a bounded channel to the router, which sends each down the
bounded channel of the scanner that claims it. A scanner asks, reaches a verdict
or gives up, stores what it found and settles the target. A writer wakes on a
timer, reads the cursor, drains what changed, and appends the findings before it
writes the cursor. The lock says whose journal it is. A stop, a deadline or a
crash may fall between any two of these steps, and a later sitting starts from
the files.

### What is hard

* The cursor is two watermarks over one set, each letting the other go further.
* Findings, the changed set and settlements are updated in three steps, and the
  writer reads them in three others.
* An append can be torn, a checkpoint can fail half way, and the next one must
  neither forget nor write twice.
* The lock is inspected, removed and created in three system calls, beside
  processes that die, are renumbered, or sleep.
* Three tasks pass a target on through two channels; any of them may stop first.
* A probe is known to a hold queue, a retry queue, a ledger, a timer heap and a
  window, and answers, refusals and expiries reach it in any order.
* Workers of a port read a flag, take a flow and take a permit in three steps,
  while another worker changes the flag.
* A stored copy is three files, replaced by three renames that any process may
  die between while others read.

`PROJECT.json` lists these as hazards, each at its line.

## 2. Modules

| Module | Models | Checked by | Proofs |
|---|---|---|---|
| `SettledSet` | what a cursor promises: a set and a saved copy | `cursor` | |
| `Cursor` | `journal/cursor.rs` | `cursor`, `cursor_foreign` | `CursorProofs` |
| `Permutation` | `model/order.rs` | `cursor_foreign` | |
| `Remaining` | what a checkpoint leaves to ask, `journal/cursor.rs` | `cursor_foreign` | |
| `Lock` | `journal/lock.rs` | `lock`, `lock_race` | `LockProofs` |
| `Checkpointing` | `scanner/checkpoint.rs` over `journal/store.rs` | `checkpointing`, `checkpointing_torn` | `CheckpointingProofs` |
| `Dispatcher` | `scanner/dispatcher.rs` | `dispatcher` | `PortPhaseProofs` |
| `PortPhase` | dispatcher, router, raw scanner and pool together | `port_phase`, `port_phase_slip` | `PortPhaseProofs` |
| `ProbeLedger` | `scanner/pacing/retry.rs` | `raw_scan` | `RawScanProofs` |
| `RawScan` | the raw scans' loop, `scanner/strategy/ports.rs`, with window and neighbours | `raw_scan` | `RawScanProofs` |
| `ProbeSpacing` | the gaps between probes, `scanner/session.rs` | | `ProbeSpacingProofs` |
| `FlowStage` | `detect/flow/stage.rs`, `detect/contention.rs`, the permits | `flow_stage` | `FlowStageProofs` |
| `FetchStore` | `fetch/store.rs`, `fetch/client.rs`, `fetch/store/derived.rs` | `fetch_store` | `FetchStoreInvariant`, `FetchStoreProofs` |

`MC*` modules only give constants their values and bound initial states.
Definitions commented as variants for a mutation are faulty versions of the
definition below them; no specification uses them.

**Cursor.** A position is a number; a walk is a permutation of the plan. Each
pass of either loop of `catch_up` is an action, so a crash may fall inside it.
Counting is by the same increments as the code's. `Cursor` implements
`SettledSet` under the mapping that takes a cursor to the set it settles.

**Permutation, Remaining.** Pure functions of the cursor file. `Permutation` is
the Feistel network and its walk back into the range, for any mixer: the bits a
seed mixes are an arbitrary function, so what holds holds for every seed.
`Remaining` reads off a file what a resumed sitting still has to ask, in the two
ways `left_along` has, against every numbering of the plan's hosts. The
reference they are held to is the plain difference of plan and settled set.

**Lock.** A caller is a thread; every system call on the lock file is an action.
A record is its pid, its boot and whether its heartbeat is young. A lock that
`inspect` cannot open, read or parse reads as `Free`, and is then broken; the
constant `ReadsFail` says whether that may happen. `by` and `mistaken` are
history: `mistaken` is set when the name is left empty under a refused caller,
and when a holder's lock cannot be read. A crash kills all threads of a process
and frees the advisory lock; a dead number may be reissued and freed; a reboot
kills all.

**Checkpointing.** A record's contents are a version number that edits keep or
advance. Storing, marking and settling are separate steps of a strategy; reading
the cursor, draining, copying, choosing, compacting, appending and saving are
separate steps of the writer. A findings file is what its whole lines fold to,
and its tail. `TearsAtNewline` says whether a write may stop exactly between a
record and its newline. The process's death keeps what it wrote: the page cache
outlives it, and power failure is out of scope.

**Dispatcher.** A target is its position. The stop, an exclusion learnt
mid-scan, an address filed unroutable and the consumer's steps interleave with
every step of the walk, including between the two times it asks `may_ask`.

**PortPhase.** Extends `Dispatcher` and gives its consumer a body. The router's
send has two steps, as tokio's has: a permit, refused once the receiver has
closed, and a push, which then succeeds. A raw scanner asks, resolves, and on
its way out interrupts, closes and reads out; a pool's scanner takes a target in
hand, reads the stop, waits for room, and on its way out closes, reads out and
drains. A port that met the kernel's hold-down is kept back unrecorded
(`heldBack`) and, once the pool is drained, asked again through it or, if the
scan has stopped or the host is past its budget, recorded unasked. Verdicts are
nondeterministic: settling or not.

**ProbeLedger, RawScan.** What `PortPhase` leaves open: how a raw scanner comes
to its verdicts. The ledger is a value with pure operations, named as in the
code. The loop's steps are those between which something else can happen: a
reply read, a timer served, one send of a tick, the checks at the loop's top.
Around it run the router, the capture thread and the network, which may answer
late, twice or never. Instants are left out, so any timer, hold or retry may be
due or not; each probe has its own generations, since no two probes' are ever
compared; the window's capacity is any walk its growth and its cuts allow; the
neighbour watched for a host is the host itself; and one due timer is served per
step. An error quoting too little of the probe to name an attempt has `NoToken`;
it may say that the host is down and settles nothing. `sends`, `wire`, `missed`
and `filed` carry history for the properties.

**ProbeSpacing.** Claims and refunds of concurrent senders on two clocks. A claim
holds both locks, so it is one step; a refund takes one after the other, so it
is two, and claims may fall between them.

**FlowStage.** Each port has a main thread and, while wide, workers. Taking a
permit, looking at the strikes, entering the contention word, leaving it and
dropping the count are each a step. What an exchange comes to is the network's
choice. The half words wrap at `HalfWord`. `overlapped` and `ledger` are history.

**FetchStore.** Processes fetch, derive and read; an action is one call on the
file system or on a lock, and a process may fail or die before any of them.
Bytes are known by what they hash to. A derivation reads its sources one at a
time under its own entry's lock, as `derived.rs` does. The server may answer
anything, and a caller may ask for the transport alone, a pinned digest or a key.

## 3. Runs

| Run | Shows |
|---|---|
| `cursor` | Four positions under all 24 walks: `CountExact`, `SavedCountExact`, `CaughtUp`, `CatchUpConserves`, `ImplementsSettledSet`, and that `catch_up` returns (`CatchUpReturns`). |
| `cursor_foreign` | Three positions, any file of the right shape: a resume settles what the file names and normalises it (`ResumeReadsTheFile`, `CaughtUp`), asks about everything the file leaves and about no host it finished (`ResumeAsksWhatIsLeft`), whichever way is cheaper (`BothWaysAgree`), and every walk is inverted exactly (`IndexReadsTheOrderBack`). |
| `lock` | Three callers, two of them threads of one process, one reboot, locks that may be unreadable: `ExclusiveUnlessMistaken`, and that attempts end (`AttemptsEnd`). |
| `checkpointing` | Two targets, two versions each, any number of sittings: `SettledIsOnFile`, `NothingForgotten`, `ClosedWhole`, `EventuallySaved`. |
| `dispatcher` | Five targets in batches of two over a channel of four, the walk's first and last target settled earlier, dead or screened in every way: `EmittedOnce`, `TallyAddsUp`, `WalkedWhole`, `WalkEnds`. |
| `port_phase` | Five targets, two scanners, channels of one, hold-downs and panics: `PhaseTypeOK`, `RecordedOnce`, `ImplementsDispatcher`, `PhaseEnds`. |
| `raw_scan` | Two ports of a host, all refusals and both neighbour watches: every target is in one place (`OneHome`), the window's slots are exact (`SlotsExact`), no outstanding probe is without what moves it on (`EveryProbeMoves`), the backlog is bounded (`BacklogBounded`), and a port reads silent only when its attempts are spent and no answer lies unread (`SilenceEarned`). |
| `flow_stage` | Two ports, five flows, two permits: an exchange read as alone was alone (`AloneIsAlone`), each flow leaves one run (`FiledOnce`), only harmless flows are asked twice (`AskedAgainSafely`), dead waits are bounded (`DeadWaitsBounded`), no deadlock; `TypeOK` has the permits and the count in flight stay in range. |
| `fetch_store` | Three processes, four calls: metadata describes what is beside it (`MetadataDescribes`), readers get one copy (`OneCopyRead`), a failed update leaves the old copy or none (`OldCopyUntilSwapped`), what is stored passes the check asked for (`StoredAsAsked`), and somebody can always go on (`NeverAllWaiting`). |

Three runs end in a counterexample, each against a sentence of the code's own
documentation; the quotations are in `PROJECT.json`.

| Run | Counterexample |
|---|---|
| `lock_race` | A refused caller finds the name empty, a third caller creates, and the refused one removes that live lock: two holders. |
| `checkpointing_torn` | A record whole but for its newline is read back, then cut off by the next append, while its target stays settled. |
| `port_phase_slip` | A push whose permit precedes the close lands behind the drain, and its target has no outcome. |

### Bounds, and why they are enough

* Cursor: with four positions the two watermarks can each unblock the other and
  the set can hold a gap; the theorems cover every size. `cursor_foreign` has
  three, with walks of two and three in a plan of up to three, so a walk is
  shorter, as long as and longer than the plan; the network's domain is four, so
  a walk of three steps outside its range. `MARKED_AT_MOST` is two, so plans
  fall on both sides of it.
* Lock: the races need three callers; `BREAK_ATTEMPTS` keeps its value of three.
  One reboot separates records of two boots. Callers break only dead locks; the
  modes that break stale or any locks are in `Lock` and in no run. Reads may fail
  in `lock` and not in `lock_race`, whose race needs no failure.
* Checkpointing: two targets let one change while the other is written; two
  versions let a record change after it was written.
* Dispatcher: the walk is one fixed permutation, since renaming targets turns
  any into it. Five targets in batches of two have full batches and a flush of
  one, and are one more than the channel of twice a batch has room for, so the
  walk waits on a full channel while the scan stops or the receiver goes. Only
  the first and the last of the walk may be settled earlier, at a dead host, or
  excluded or filed unroutable mid-walk (`Varied`, `MCBound`); the theorems cover
  every plan, checkpoint and screen.
* PortPhase: two targets for each scanner fill a route of one behind a scanner
  that has gone, and a pool of one; the fifth target has no route. Every host is
  live and nothing was settled earlier (`FirstSitting`), nothing is excluded
  mid-scan and only the last target's address is filed unroutable (`MCBound`):
  those choices are `dispatcher`'s subject and touch neither router nor scanner.
* RawScan: two ports of one host share its hold-down, its gate and its silence.
  Two attempts give a retry; `ReducedAttempts` and `SilentThreshold` of one let
  the first silent port shorten the second's budget; one tracked attempt lets a
  late answer name a forgotten send. `Limits` of one and two put the backlog at
  its limit. Two rounds of a neighbour question and two refusals let each be
  counted and then run out. One reply waits at a time (`RxDepth`). Where the
  neighbour is asked for in frames the limit is one (`MCInit`). Errors about the
  host name no attempt (`MCBound`): one that names an attempt does the same when
  it is read, or nothing.
* FlowStage: the wide port's first flow has two requests, so its strike and its
  width are decided apart; two more flows go to two workers. The other port
  skips its first flow. Two permits are fewer than the three threads that can
  want one. One strike gives a port up. `HalfWord` is 6 where the code has
  2^32: the count wraps while an exchange is in flight, and cannot come all the
  way round within one. With 5 it can, and `AloneIsAlone` fails, as it would
  in the code for an exchange that 2^32 others begin within.
* FetchStore: four calls are a copy stored, two updates or a derivation against
  it, and a reader; two versions and two keys let a copy satisfy one caller and
  not the next. The theorems cover every number of each.

`raw_scan` and `fetch_store` use symmetry, of the probes and of processes,
versions and keys; neither checks liveness. Deadlock is checked where the system
never stops, or has an explicit last step, as `raw_scan`, `flow_stage` and
`fetch_store` have. A scan stops: `dispatcher`, `port_phase` and
`port_phase_slip` switch it off, and the first two check termination instead.

### Fairness

* `catch_up` is straight-line code (`WF` of its steps).
* A lock attempt runs on until it ends. `AttemptsEnd` supposes callers stop
  asking again, since an advisory lock need not be first come, first served.
* The writer is kept going by its timer and the blocking pool. `EventuallySaved`
  supposes checkpoints stop failing at some point.
* The walk, the router and each scanner are tasks a runtime polls. A probe's
  wait is bounded by its timeout or its attempts, so it resolves; that it is
  never left without a timer or a retry is `EveryProbeMoves` of `RawScan`, where
  instants are abstract and liveness is not checked. `Dispatcher` assumes of its
  consumer that no target waits in the channel for ever; `ImplementsDispatcher`
  shows that the phase is such a consumer.
* Nothing is assumed of stops, failures, panics, expiry, exclusions or crashes.

### Comments the models read more narrowly

Sentences of the code's documentation that hold in a narrower sense than they
are written in. Where a property is about one, it states what the code does.

* The hold queue of the raw scans is said to be bounded by `max_unresolved`. A
  probe put back for its neighbour is not asked whether the queue is full; ledger
  and queue together stay below twice the limit (`BacklogBounded`).
* Probes in flight are said to be bounded by the window's capacity, which a cut
  may lower beneath them; no new one is taken until they fit.
* An unreachable address is said to have every unanswered port recorded unasked.
  A port settled silent before the address was filed stays silent.
* A lock that cannot be parsed is said to be one a writer left when it crashed. A
  lock that cannot be opened or read, for want of descriptors say, is `Free` too,
  so a live holder's may be removed (`journal/lock.rs:367`). `OneHolder` has the
  proviso that this does not happen.
* The cost of a silent port at `DEAD_PORT_STRIKES` supposes that its exchanges
  met no other port's: silent ports asked together are never struck.
* A failed fetch or conversion is said to leave the stored copy as it was. A
  rename that fails within the swap leaves nothing stored, since the metadata is
  removed first (`OldCopyUntilSwapped`).
* A stop counts as unreached a target already filed unroutable, hence settled,
  if the walk had not come to it (`scanner/dispatcher.rs:441`).
* A stale writer may beat between being judged and its lock's removal by a
  take-over, which then removes a beating lock (`journal/lock.rs:467`).
* What a refund restores, `Slot::before`, never decides a later claim: the claim
  that found it ready came a whole gap after it.

## 4. Proofs

All are safety properties, for every value of the constants under the modules'
named assumptions.

* **`CursorProofs`.** The invariant says of the cursor and of the file alike
  that the set overlaps neither watermark's range and that `ahead` is exactly
  the number of positions the walk covers at or past the plan watermark. That is
  what makes the counts inductive: each pass of `catch_up` moves one position
  between three disjoint sets, and cardinalities follow. A second part says what
  each loop has established when the other takes over. From them come
  `TypeCorrect`, `Counts`, `SavedCounts`, `NothingLeftToPass` and
  `Conservation`, and step simulation gives `Refinement` to `SettledSet`.
  Assumes the orders are permutations of a prefix of the plan.
  `AnyFileIsReadWhole` needs no invariant: whatever file of the right shape is
  on disk, clamping its watermarks loses nothing that it names.
* **`LockProofs`.** `OneHolder` needs, besides one owner of the guard, that the
  name stays taken from a caller's refusal to its removal, that what it read is
  still what is there up to the heartbeat, and that what it is about to remove
  is nobody's. These fail once the name is left empty under a refused caller,
  which is the gap `lock_race` walks through, and once a holder's lock cannot be
  read and is taken for none; hence the provisos. A dead writer's lock may be
  unreadable. Assumes callers break only dead locks. `LockTypeCorrect` is the type invariant.
* **`CheckpointingProofs`.** What is remembered as written trails the file,
  which trails the store; a record asked about is on file, marked changed, or in
  the writer's hands; and for each step of the writer, what its cursor settles
  is on file or among the keys it drained. `NoFindingLost`,
  `NothingIsForgotten` and `ClosesWhole` follow, on the assumption that no write
  stops exactly before a newline; `checkpointing_torn` shows that it is needed.
* **`FetchStoreProofs`.** `FetchStoreInvariant` states what a process at each
  place of a call knows and holds: the locks it has, what it staged, which of
  the old and new files are at their names between two steps of its swap, and
  what a reader has opened so far. The locks make the parts independent: whoever
  changes an entry's files holds its update lock, and while a reader is between
  its calls nobody is between the renames, so a step keeps every other process's
  part. `TypesHold`, `MetadataAlwaysDescribes`, `ReadersPairOneCopy`,
  `CopyKeptUntilSwapped` and `AlwaysStoredAsAsked` follow. `SomeoneAlwaysGoesOn`
  adds `LocksHeld`, that a lock's holder is at a place of its call where it may
  hold it: whoever holds an update lock waits at most for a swap or for readers,
  and a swap or a read under way asks for no lock.
* **`ProbeSpacingProofs`.** `GapAlwaysKept`: besides the gaps between live
  claims, each claim is guarded, by standing on its clock or by a gap that has
  run out since; and a claim given back on one clock and not yet on the other
  still counts on the other. Assumes gaps are natural numbers, or absent, and
  that there is a host. No run of TLC belongs to it.

* **`PortPhaseProofs`.** For the walk alone (`WalkInv`): a target is ahead of the
  walk, in its batch or emitted, never two of these; while it runs, its two
  counts are those of the targets it has disposed of and of those it passed
  over undecided; once it has ended, `unreached` covers every target left without
  an outcome. Hence
  `NothingIsAskedTwice`, `TallyAlwaysAddsUp` and `PlanIsWalkedWhole`, for every
  plan, walk, batch size, checkpoint and screen. `PhaseImplementsWalk` shows that
  every step of the phase is a step of the walk, of its environment, or none it
  sees, so that these hold of the phase. `PhaseInv` adds that an emitted target is
  in one of eight places (channel, router, route, hand, flight, kept back,
  panicked, recorded) until the receiver is dropped, and that a scanner has only targets
  it claims, within its bounds. `PhaseTypeCorrect`, `EachOutcomeRecordedOnce` and
  `OnlyReceivedIsAsked` follow. Assumes that a walk is a permutation of the plan
  and that batches, routes and pools hold at least one.
* **`RawScanProofs`.** The ledger's own shape is a lemma for each of its
  operations (`Ledgered`). The invariant adds, of each probe, that it is in
  exactly one of the places a target can be in (`Homed`), and that it waits in
  the retry queue exactly while its clock is stopped, a retry left behind being
  of a settled probe (`Moved`); that the window counts the records that hold a
  slot; the backlog's bound, which needs the order of the loop's stages; and
  that all replies there at the loop's top are read before a timer is served.
  `TypeCorrect`, `EveryTargetHasOneHome`, `SlotsAreExact`,
  `EveryOutstandingProbeMoves`, `BacklogIsBounded` and the action property
  `SilenceIsEarned` follow. Assumes finitely many probes.
* **`FlowStageProofs`.** Permits taken and exchanges counted are the numbers of
  threads at the places that have one (`Counting`). Of each port, which threads
  can be running and on which flows (`Shape`); of each flow, how often it has
  been run and filed, by whether it is pending, in hand or done with (`Once`).
  The bound on dead waits needs the workers that can have no further one
  (`Spent`): a stalled worker keeps its flow until it files it, and a narrowed
  port hands out no other. `StageTypeCorrect`, `EveryFlowFiledOnce`,
  `FlowsRepeatedSafely` and `DeadWaitsAreBounded` follow, from the invariant
  stated by `FlowsAccountedFor`. Assumes finitely many ports and fewer permits
  than the half word can count.

A leaf that cites `Zenon` needs no arithmetic, and names the prover that closes
it.

Only model-checked:

* Liveness (`CatchUpReturns`, `AttemptsEnd`, `EventuallySaved`, `WalkEnds`,
  `PhaseEnds`) and the fairness part of `ImplementsDispatcher`, whose safety part
  is `PhaseImplementsWalk`: fairness is beyond the proof system used here.
* All of `Remaining` and `Permutation`, whose definitions recur or work on bits.
* `AloneIsAlone`. It is false without a bound on how many exchanges begin within
  one, since the count of exchanges begun may come all the way round; the bound
  is a fact of the instance (see the bounds above), not of the constants.

The type invariants of all the modules with proofs are proved.

## 5. Not modelled

`PROJECT.json` gives every component's status. Most of the crate's lines are
tables, codecs, matchers and reports: functions of their input, without state
that outlives a call, whose correctness is a matter of formats and of data. The
discovery, identification and topology strategies draw their verdicts from
packet contents; where they share a mechanism with the raw port scan, the ledger
and the window, that mechanism is modelled once. Beyond whole components:

* In the journal: detection tapes, which a failed write hands back and no resume
  reads; the standing record of phases; records awaiting a verdict; headers and
  versions; saturation at the top of the position space, met only by a file
  naming a position past any plan. A failed append that wrote some lines leaves
  the writer's memory of the file behind the file; the model supposes contents
  do not return to an earlier value, under which this is harmless. The cut-back
  of a failed append of detections is not modelled either; if it fails too, whole
  lines of the batch stay. Removing a journal inspects its lock and deletes the
  directory in two steps, a race the code accepts in a comment.
* In the lock: a take-over from a hung writer that later beats or releases,
  which writes over its successor's lock. An unreadable boot identity is equal
  to itself in `classify`, while the comment at `journal/lock.rs:212` expects it
  to differ from any recorded one.
* In the port phase: a scanner task that panics whole; the connect scan's second
  asking of silent ports on slow paths, which revises a record and settles
  nothing (`scanner/strategy/connect.rs:859`). Such an asking that itself meets a
  hold-down is noted with the ports kept back and then asked as one of them, which
  settles and records the port again; `RecordedOnce` does not cover it. A phase stopped before it starts may have its
  walk send one target before the receiver is dropped, which is then not counted
  unreached (`scanner/orchestrator.rs:2255`).
* In the raw scan: round-trip estimates and deadlines, which decide when and not
  what; the contents of replies; composition with `PortPhase`, whose scanner
  takes any verdict, and so every one that `RawScan` reaches.
* In detection: the flow language, detections that are not flows, tapes.
* In the fetch store: validators and ages, the size limit, the URL filter, the
  version and notes of a derived entry, the freshness answer of `open_derived`,
  and a loss of power, which may undo or reorder renames.
* In the scan handle: the registration of a waiter before the flag is read.

## 6. Plan

In order of what an error would cost.

1. Sittings: tapes, standing phases and `end_sitting` added to `Checkpointing`;
   removal and retention against the lock.
2. `StopSignal` (`scanner/handle.rs`): waiters, abort and deadline.
3. Instants in `RawScan`, and with them that every scan ends.
4. Composition of `Cursor` with `Checkpointing`, whose cursor is now a set, and
   of `RawScan` with `PortPhase`.

Proof to follow: `AloneIsAlone` of `FlowStage`, under a bound on the exchanges
that begin within one.
