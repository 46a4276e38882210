# ghdb in TLA+

Models, model-checking runs and proofs for **ghdb** (`src/ghdb`), a Go library that keeps a small
database in memory and uses GitHub as its storage: a baseline is embedded in the binary, mutations
are appended as JSONL segments to a *delta branch*, and `Checkpoint` commits a full snapshot and
opens a pull request that makes it the next baseline.

## Inventory

| Component | State | Operations | What makes it hard |
| --- | --- | --- | --- |
| Checkpoint and lease (`base/checkpoint.go`) | lease file and snapshot branch on GitHub; `hasCheckpointed`, `nextVerExists`, `writeVer` | `Checkpoint`, `acquireCheckpointLease`, `renewCheckpointLease`, `markCheckpointLeaseDone` | several instances, read then compare-and-swap, expiry, lost responses, crashes |
| Write buffer and flush (`base/flush.go`, `base/base.go`) | `wbuf`, `flushMu`, the segments of the instance | `AppendMutation`, `flush`, `startFlush` | flusher and Checkpoint drain one buffer; partial failure; retries; caps |
| Replay and poll (`base/base.go`, `base/sync.go`) | `syncSHAs`, `syncTimes`, the data | `replayVersion`, `poll` | order by time within a segment only; watermarks; records that arrive late |
| Workers and Close (`base/flush.go`, `base/sync.go`, `base/base.go`) | `stopCh`, `flushDone`, `pollDone`, `rateLimitedUntil` | `startFlush`, `startSync`, `noteRateLimit`, `Close` | final flush against a running Checkpoint, backoff |
| Online startup (`base/base.go`, `option.go`) | everything above, once | `StartOnline`, `Open` | failure after part of the replay, offline fallback |
| Segments (`base/flush.go`, `base/mutations.go`) | none | `splitMutationRecords`, `recordsThatFit`, `latestInstanceSegment`, `decodeJSONL` | caps, name order, bad lines |
| Table store (`table/table.go`) | rows | `Set`, `Patch`, `Delete`, snapshot, replay | time stamp taken before the lock |
| Graph store (`graph/graph.go`) | vertices, edges | vertex and edge operations, cascading delete, snapshot, replay | cascade is several records; snapshot and reload must agree |
| Baseline loading (`base/load.go`) | none | table and graph loaders | must accept whatever a snapshot writes |
| GitHub client (`github/client.go`) | none | REST calls | 30 s timeout, conflicts, lost responses |
| Configuration, instance id, fake client, example server | none | | no behaviour of their own to model |

How they interact: writers hold `ckptMu` for reading, change the data under `mu` and append to
`wbuf` under `wbufMu`. The flusher and `Checkpoint` call `flush`, serialised by `flushMu`.
`Checkpoint` holds `ckptMu` for writing, so writers wait for it from its first line to its return.
The poller reads other instances' segments and detects the directory of version N+1; after that,
or after `Checkpoint` returns, `flush` writes to version N+1. Instances meet only on GitHub.

What makes each component correct: a live lease has one holder and a version one snapshot; an
accepted mutation is stored, once and in order, or is still in memory; no record reaches a version
after the snapshot that closes it; instances that have read the same segments hold the same data;
a snapshot loads back to the data it was taken from.

`PROJECT.json` lists every component with its status and every hazard with the line where it bites.

## Modules

| Module | Content |
| --- | --- |
| `LeaseLock` | abstract specification: an atomic lock with an expiry time |
| `CheckpointLease` | `Checkpoint` call by call, several instances; implements `LeaseLock` |
| `CheckpointLeaseProofs` | theorems about `CheckpointLease` |
| `MCCheckpointLease` | model-checking instance (symmetry of the instances, for runs of invariants) |
| `DeltaFlush` | write buffer, flush, Close, crash and restart of one instance |
| `DeltaFlushProofs` | theorems about `DeltaFlush`: lock, version, types |
| `DeltaContentsProofs` | theorems about the records of `DeltaFlush` |
| `MCDeltaFlush` | model-checking instance (the sizes of the records) |
| `WriteCheckpoint` | writers of several instances against Checkpoint, its cut and the next start |
| `WriteCheckpointProofs` | theorems about `WriteCheckpoint` |
| `MCWriteCheckpoint` | model-checking instance (symmetry of the instances) |
| `Replication` | writes, flush, poll and replay between several instances |
| `ReplicationProofs` | theorems about `Replication` |
| `MCReplication` | model-checking instance (which writers call what, and where) |
| `GraphStore` | the graph store, its records, its snapshot and its load |
| `GraphStoreProofs` | theorems about `GraphStore` |
| `MCGraphStore` | model-checking instance (objects and pairs of vertices) |
| `Lifecycle` | `Open` with the online startup, the two workers, `Close` |
| `LifecycleProofs` | theorems about `Lifecycle` |
| `MCLifecycle` | model-checking instance (the segments) |
| `InductionLemmas` | induction over sets of naturals, flattening, sorting |

### CheckpointLease

Time is one variable `now`; the README of ghdb asks for synchronised clocks. On GitHub there are the
lease file (`lease`), the tip of `ghdb-ckpt-<name>-v<N+1>` (`branch`: absent, created at the source
branch, or carrying the snapshot of an instance), the pull requests (`pulls`) and whether version
N+1 has a segment (`nextDir`). Each instance has the program counter `pc` of its `Checkpoint` call
and the call's locals. A blob SHA is a function of the content, so a read keeps the *content* in
`seen[i]` and `PutFile` succeeds only if the file still equals it.

Each action is one call to GitHub or one local section: `Begin` (entry), `AcquireRead`,
`AcquireTaken`, `AcquireBusy`, `AcquirePut`, `AcquireConflict` (another attempt or give up),
`FlushBuffer`, `RenewRead`, `RenewLost`, `RenewPut`, `RenewConflict`, `Prepare` (snapshot and
branch), `Upload`, `Publish` (commit and forced `UpdateRef`), `OpenPR`, `MarkRead`, `MarkPut`,
`MarkFails`. The `...Unclear` actions are calls that report an error and may have taken effect.
`Restart` kills the process between any two steps and starts it again under the same id; it finds
version N+1 if a segment is listed. `PollFindsNext` and `WriteNext` are what poller and flusher do
to `nextVerExists` and the directory of version N+1. `Tick` advances the clock.

`snapshots` counts published commits (0, 1, several) and `lapsed` records the publications that
outlived the window of their lease, lost their response, or were never marked done: exactly the
cases in which the code does not protect against a second snapshot.

### DeltaFlush

One instance. `delta[v]` is the sequence of its segments of version N (0) and N+1 (1); a record is
its rank among the accepted mutations and the size of its line. Two threads run `flush`: for each,
`pc`, the drained records `pending`, the version `ver` and the segment read, `active` and
`existing`. `flushMu` is held by the thread whose `pc` is not idle; with more than one thread inside
(a mutant) the compare-and-swap of the active segment would be all that is left.

`Drain` is the entry of `flush` up to the choice of version; `List`, `Get`, `PutActive`,
`PutRollover` are its calls; `CallFails` and `ResponseLost` end it with an error and put the rest
back in front of the buffer. `CkptBegin` to `CkptDone` bracket the flush with the steps of
`Checkpoint` that matter to it. `Close` stops the flusher, which flushes once more and exits with
(`error`) or without (`clean`) an error. `Crash` loses the buffer and starts the instance again.

### WriteCheckpoint

A mutation is its time stamp, a new number at each reading of the clock. A write has two steps, as
in `Set` and the other operations: `Stamp` takes the time, `Apply` comes after `LockCkptRead` and
changes data and buffer. `Flush` and `Poll` are one step each; `FlushUnclear` stores the buffer and
keeps it, as the response of `PutFile` is lost. `Checkpoint` is split where others may come between:
`CkptBegin`, `CkptFlush`, `CkptSnapshot` (the first renewal and the copy), `CkptCut`
(`checkpointedAt`), `CkptRenew` (the last renewal), `CkptPublish` and `CkptMark` (pull request, done
mark, switch), or `CkptFails` at any step before the branch moves; `CkptPublishUnclear` moves the branch and
returns an error; `CkptTaken` is the call of an instance that finds the lease done. `Recovered` is
what a process built from the merged snapshot has after its replay: the snapshot and what version
N+1 holds after the cut.

Of the lease, `owner` and `done` are here, and no time: it may expire at any moment, so `CkptBegin`
may take it over while its last owner is at work, and the done mark may fail, after which the version can
be published again. `CheckpointLease` has the times and says when this cannot happen; what is shown
here holds without it. `replaced` records that a branch was moved after a Checkpoint had succeeded.

What an instance that does not yet know of the snapshot stores in version N after it, and what
others stored there and the author had not polled, is not in the snapshot. The code makes no
promise about either, and no property here speaks of them. Nor does one speak of an instance whose
`UpdateRef` took effect without an answer: its Checkpoint returned an error, and what it goes on storing in version N
is lost unless it tries again before the pull request is merged. No process restarts before that
merge, which is the order README line 147 asks for.

### Replication

One row stands for the database: a function from field names to the time of the write that gave the
field its value. `Set` writes every field, `Patch` one, `Delete` removes the row; `cascade` is a call
that appends two records with one time, as `Delete` of a vertex does, and `foreign` one that other
instances reject. A write has the three steps of `Set` (table.go:171-183): `Stamp`, `Apply`,
`AppendMutation` once per record. `Flush` stores the buffer, or a prefix of it when a later batch
fails, in the last segment of the process in its version or, when that is full, in a rollover segment (`Target`; how
full is left open). `FlushUnclear` is a `PutFile` that stored a batch and reported an error (flush.go:298-302): the batch
goes back to the buffer and is stored again, perhaps in another segment or in version N+1. `PollSegment` is the body of poll's inner loop; a
segment only grows, so its length is its SHA, and `listed` may be shorter than the content read afterwards. `Restart` is the replay of N and
then N+1; `Corrupt` leaves a damaged line. `applied` and `retried` are history variables.

### GraphStore

`db` is the memory of the process, `tree` the files of the repository and `start` what a process
that started now would hold. Every write changes `db` by the live code and `start` by
`ApplyToGraphDB`, the replay of its records, so a difference between the two pieces of code shows as
a difference of the two variables. `Delete` finds its edges with two loops of its own, `Leaving` and
`Entering` (graph.go:511-522), and not with the queries `OutEdges` and `InEdges`, which look for what is
left of them. It appends its records in any order of Go's maps and
replays them in any order of an unstable sort; `CrashInDelete` stops after a prefix. `Checkpoint` is
one step: `Snapshot`, the overlay of `CreateTree`, the load. An absent label and an empty map differ,
as they do in the code.

### Lifecycle

One process and its environment. `pc` is the call `Open` is about to make; after every call comes a
look at the context (`Goes`), which `Cancel` may end at any call. `OtherCreatesBranch` and
`OtherFlushes` are the other processes. The replay takes one listing, one read per segment and one
`ApplyAll` per version. The workers tick (`FlushTick`, `PollTick`) unless the shared pause is on;
`pause` is the time left until `rateLimitedUntil`, and every failing call of flush or poll may
report a new reset (`NoteRateLimit`), `Far` being one beyond the fifteen minutes. `Close` may time
out and be called again.

## Runs

| Run | Shows | Bounds |
| --- | --- | --- |
| `lease_safety` | `TypeOK`, `FreshHolderOwns`, `SnapshotOnceInWindow`, `DoneHasSnapshot`, `NextVersionHasSnapshot`, `ImplementsLock`, `DoneIsFinal`, `CheckpointReturns` | 2 instances, window 2, 2 attempts, clock to 2 |
| `flush_segments` | `NothingLost`, `InOrder`, `TwiceOnlyIfRetried`, `SegmentsBounded`, `SnapshotFlushed`, `ClosedDurable` | 3 records of sizes 1, 2, 4 with caps of 3 bytes and 2 records, 1 fault |
| `flush_crash` | `TypeOK`, `NothingAfterSnapshot`, `VersionForward`, `FlushDelivers`, `CloseFinishes` | 2 records, 1 fault, 1 crash |
| `writes_and_checkpoint` | `TypeOK`, `AuthorLosesOnlyOvertaken`, `SwitchedWritesSurvive` | 2 instances, 4 readings of the clock |
| `graph_store` | `TypeOK`, `VerticesCarryTheirId`, `WritesReplay`, `NoHalfDelete`, `SnapshotRestores` | 2 ids, one vertex label, one declared and one undeclared edge label, a self-loop, 4 operations |
| `replication` | `TypeOK`, `SkippedOnlyIfOvertaken`, `ReplayIsLastWrite`, `OneSegmentConverges`, `PolledOnce`, `StoredSettles` | 2 instances, 3 writers, 2 segments per process and version, 2 readings of the clock, 1 restart, switch, lost response or damaged line |
| `lifecycle` | `TypeOK`, `WholeVersions`, `CancelledServesNothing`, `StartSucceeds`, `PauseEnds`, `CloseStops` | 2 segments of N, 1 of N+1, 2 faults, a window of 2 |
| `taken_switches`, `moved_writes_lost`, `graph_snapshot_not_current`, `graph_checkpoint_unloadable`, `last_write_loses` | a statement of the documentation that the code does not keep, see *Findings* | |

Why the bounds are enough. Two instances are enough for every conflict over the lease, which is
between one holder and one contender; clock 2 with window 2 lets a lease expire and be taken over while its
owner still works, and the theorems hold for every clock. No symmetry is used, as `CheckpointReturns` is a liveness property. Two attempts take both branches of the acquire loop. With caps of 3 bytes and 2
records, sizes 1 and 2 fill a segment by count and by bytes and 4 is larger than any; three records
give an active segment, a rollover and a record that arrives meanwhile. One fault is enough for a
partial failure followed by a retry. In `WriteCheckpoint` a checkpoint
takes one reading of the clock: four allow two overlapping or repeated publications with a mutation before and one
after them, or one publication with three.

In `Replication` two writes are enough for every conflict of times, memories and watermarks between two
segments of one process (before and after a switch) and those of two processes, and three writers allow two of
them to race in one process. Two segments per process and version let a batch whose response was lost be
stored again in a rollover segment, and two lines per segment (`MaxLines`) let a segment grow between the
listing and the read; one writer cascades, one sets, one patches or writes what others reject. In `GraphStore`
four operations reach, for example, two writes, a checkpoint and a restart, or an edge under each label, its
removal and a delete; the pairs are an edge and a self-loop, the case in which the cascade could count an edge
twice. In `Lifecycle` two segments let the listing grow between two reads, and two faults let a call fail
after a cancellation. The clock and the counters of accepted records, operations, events, faults and crashes
are bounded in the guards (`MaxTime`, `MaxTS`, `MaxAccepted`, `MaxOps`, `MaxParts`, `MaxLines`, `MaxEvents`,
`MaxFaults`, `MaxCrashes`).

Deadlock is checked for the lease and `writes_and_checkpoint`. The other runs switch it off: their writes and
operations are bounded, and after `Close`, or after an `Open` that failed, a process has nothing left to do.

Fairness. `CheckpointReturns` assumes that every step of a running call is taken: `client.go` gives
every request a timeout of 30 s, so a call ends with an answer or an error. The flush runs assume the same,
that the ticker goes on calling `flush`, and that a stopped flusher eventually sees the stop signal
(its `select` picks among ready channels at random). Faults are finite in the model, so delivery is
shown for a GitHub that answers again in the end; nobody corrupts the instance's own segment. In
`Replication` pollers go on polling, and every segment changes finitely often, so each is reached.
In `Lifecycle` calls end and time passes (weak fairness); a worker comes back to its `select` again
and again, with its ticker and the closed stop channel both ready, and does not pick the ticker for ever
(strong fairness of `FinalFlush` and `PollStops`). Nothing makes an environment create a branch, cancel or
close.

Every property has a mutant: an operator beside the definition it replaces, marked *Mutant* in the
module, that a plausible bug would turn the code into, and under which the property fails.

## Findings

* `taken_switches`: `ErrCheckpointTaken` from a renewal does not switch the instance to the next
  version, though README line 154 and the comment of the error say that it does.
* `moved_writes_lost`: README line 154 says an instance that gets `ErrCheckpointTaken` moves its
  writes to the next version "so they are not lost"; they keep their time, which may be before the
  cut of the new version, and the next start skips them. The same happens to a write that took its time
  before a Checkpoint of its own instance and waited for it; `AuthorLosesOnlyOvertaken` says that these are
  the only mutations the author loses.
* `graph_snapshot_not_current`: README line 145 says a checkpoint commits a full snapshot of current
  state; a label whose last edge was removed is left out of it, and the tree keeps the old file.
* `graph_checkpoint_unloadable`: README line 189 says that the check of a vertex's `id` keeps a checkpointed
  graph openable, as do the comments of `load.go` (138-140) and `contract_test.go` (13-15). `Set` asks for the field, but
  `Patch` of an absent vertex stores one without it (graph.go:481, 492-497), and no start loads the snapshot.
* `last_write_loses`: README line 239 says "last write wins on timestamps"; a poll applies what is fresh in
  one segment over whatever memory holds, also over later writes of the process itself.

Not runs: README line 238 says every flush appends a new segment file; `flush` extends the active
segment while that has room (flush.go:256-304), and so does `DeltaFlush`. README line 157 says the
lease is not renewed while a checkpoint runs; it is, at checkpoint.go:206, 264 and 287, and
`CheckpointLease` has the renewals. README line 159 says that the lease guarantees
that a version is snapshotted once; `SnapshotOnceInWindow` says what the code keeps of that: once as long as no
publication outlives its window, loses its response or goes unrecorded. After any of these another instance (or the same one)
publishes the version again with a later cut, and what a switched instance had stored in version N+1 before
that cut, unseen by the second publisher, is neither in the snapshot nor replayed; `SwitchedWritesSurvive` says that this (`replaced`) is the only way for such
a write to get lost. README line 89 says a cancelled context never activates the
workers; one that ends after the last look at it, just before `startFlush`, does, which is why
`CancelledServesNothing` leaves the step `start` out.

## Proofs

`CheckpointLeaseProofs`, for any set of instances, any window and any number of attempts, from
`LeaseAssumption` alone:

* `TypeInvariant`: `Spec => []TypeOK`, proved per group of variables.
* `LiveLeaseIsExclusive`: `FreshHolderOwns`. The property alone is not inductive: that a write
  succeeds says only that the file still equals what was read. `CallInv` adds what each call knows of what it
  read: a claim in flight rests on content that may be claimed (and may still be, since the clock
  only moves forward), a renewal on content that is the instance's own and unfinished, and no stamp
  lies in the future.
* `DoneLeaseIsFinal` and `LeaseImplementsLock`: from the same invariant, every step changes the
  lease file as a claim, an extension or a completion of `LeaseLock`, or not at all.
* `SecondSnapshotNeedsLapse`: `PublishInv` says that, as long as nothing lapsed, a snapshot is still
  in the hands of a publisher with an open window or its lease is done, and no open window remains once
  it is done.
* `DoneLeaseHasSnapshot`, `SwitchedVersionHasSnapshot`: `SnapshotInv`, whoever marks, reports or
  acts on a finished version comes after its publication.

`WriteCheckpointProofs`, for any set of instances and any bound of the clock, from
`WriteAssumption`: `WriteTypes`, `SwitchedSurvive` (`SwitchedWritesSurvive`) and `AuthorLoses`
(`AuthorLosesOnlyOvertaken`) follow from one inductive invariant, `IInv`. `PublishInv` says that
nobody switches, version N+1 stays empty and the lease is not done until some Checkpoint has succeeded: publications that fail,
lose their response or overlap before that may replace each other, and later ones set `replaced`. With `ClockInv` (no
stamp in the future) whatever a switched instance stamps is later than the cut, and `SwitchInv`
follows it into version N+1. `CallInv` says that a draft holds what its author acknowledged, as writers wait while it
exists, and `AuthorInv` that the snapshot it becomes does so too until another instance replaces it. One lemma per
action shows that the step keeps each part.

`DeltaFlushProofs` and `DeltaContentsProofs`, for any sizes, caps and bounds, from `FlushAssumption` (sizes and caps
are positive): every invariant and action property of the two flush runs.

* `SnapshotIsFlushed` (`SnapshotFlushed`) from `LockInv` (one flush at a time; the flush of a Checkpoint runs while
  `ckpt` is "flush"; nothing reaches the buffer between its drain and the snapshot, because writers wait), and
  `VersionMovesForward` (`VersionForward`) from `ForwardInv` (the version of a flush in progress is not behind what is
  stored, and `writeVer` follows it). `StoresOnly` says all these proofs need of a write to a segment: it is one of the
  flush's version.
* `TypeInvariant` (`TypeOK`) from `JInv`, which adds `FlushInv`: between two of its calls a flush knows which segment is
  the last one, and that it has records which fit into it. Without it the index of the active segment and the count of
  records to store have no type.
* `NoRecordLost`, `RecordsInOrder`, `StoredOnce` (`NothingLost`, `InOrder`, `TwiceOnlyIfRetried`). None of the three is
  inductive by itself. The proof reads the segments of both versions, the records a flush has in hand and the buffer as one
  sequence, `All`, and shows that a step does one of four things to it (`Effect`): it leaves it as it is, it appends the
  record just accepted, it doubles one stretch (a stored batch whose response was lost), or it keeps what is stored and
  drops the rest (a crash). `Contents` says that what was accepted and not dropped is in `All`, and nothing else, that no record
  comes before an older one has come, and that only retried records occur twice; each of the four keeps it.
* `CloseIsDurable` (`ClosedDurable`): while the last flush of the flusher runs, what is in the buffer was accepted after
  `Close` (`CloseInv`).
* `SnapshotCoversVersion` (`NothingAfterSnapshot`): all that was accepted is covered while the snapshot is published, and a
  flush that begins after the switch is one of version N+1 (`CoverInv`).
* `SegmentsStayBounded` (`SegmentsBounded`): `Bytes` is a sum, so it splits over a concatenation, and the counts that
  `FitCount` and `RolloverCount` choose are those of a prefix within both caps, or of one record that no segment could take.

`LifecycleProofs`, for any segments, backoff bound and number of faults, from `LifecycleAssumption`:
`TypeInvariant`, `VersionsStayWhole` (`WholeVersions`) and `CancelledStartServesNothing`. `ReplayInv` says, call
by call, what has been listed, read and applied when Open is about to make that call; `CancelInv` that after a
cancellation Open makes at most the call it was at, and then fails.

`ReplicationProofs`, for any processes, writers and bounds, from `ReplicationAssumption`: every invariant and action
property of the run `replication`.

* `NothingElseIsSkipped` (`SkippedOnlyIfOvertaken`). `MarkInv` is the strengthening: a watermark is zero or the time of a
  record of that segment which the process has applied, so what a poll finds behind it is overtaken.
* `TypeInvariant` (`TypeOK`) and `PollsApplyOnce` (`PolledOnce`) from `PlaceInv`: a record is in one call, one buffer or one
  segment alone, unless a call stored it and reported an error (`retried`), and others of its time are the cuts of one delete (`Apart`); a
  call or a buffer has it once (`OnceInLine`); and what a process has applied is in some segment at or before its watermark there
  (`AppliedAt`). So only a retried record is found fresh a second time.
* `StartFindsLastWrites` (`ReplayIsLastWrite`): records with one time are the cuts of one delete and commute, so a sorted order
  exists, any sorted order gives the same row, and after each prefix of it a field has the last write of the
  prefix (`LastWriteAdds`). That a finite set can be sorted is itself a lemma (`InductionLemmas`).
* `OneSegmentIsEnough` (`OneSegmentConverges`): as long as all records are in one segment, memory agrees with the last write
  of what was replayed and polled, except in fields that a write of this process touches which it has still to poll
  (`AgreeInv`). Memory may be ahead of the log and fall back while a poll repeats older records over it; when nothing
  is left to poll there is no exception left. The property is the strongest we found: with two segments processes may
  differ, which is what `last_write_loses` shows.

`GraphStoreProofs`, for any labels, ids, pairs of ends and objects, from `GraphAssumption` (the labels that are declared and
those that are not are disjoint, ends are pairs of ids, an object is written without its id): every invariant and action property of the
run `graph_store`.

* `TypeInvariant` (`TypeOK`) and `SnapshotsKeepTheirKeys` (`VerticesCarryTheirId`) from `GInv`: memory is a `Graph`, a start would
  hold a `Graph` or does not load, and the repository has `Files` of a graph. A graph has finitely many edges, without which
  a delete would have no sequence of records to append.
* `ReplayIsTheWrite` (`WritesReplay`): a write other than `Delete` leaves what `ApplyToGraphDB` of its record leaves
  (`OneRecord`), and a record leaves equal contents equal (`ApplyAlike`). The two sides of a `Delete` differ in their maps (memory
  keeps empty ones, the replay drops them), so contents are compared entry by entry (`SameIs`); the records of a
  delete only take away, and what is left is what none of them names, in any order (`DeletesReplay`).
* `NoVertexHalfDeleted` (`NoHalfDelete`): only a whole `Delete` takes a vertex away, as its record is the last one (`CrashStep`),
  and the two loops of the delete find exactly the edges at the vertex (`CascadeIs`).
* `SnapshotsLoadAgain` (`SnapshotRestores`): a snapshot loads when every vertex has its id field, which is what the finding
  `graph_checkpoint_unloadable` shows to be needed; vertex files are keyed by the id the vertices carry, and an edge file that is read
  and written again is the same file (`FileAgain`).

`InductionLemmas` holds what these proofs need of induction. A theorem with an operator for the hypothesis cannot be used,
so induction over the naturals is stated of a set (`SetInduction`, from the well-foundedness of the naturals), recursion of a
step that is a function, and from these follow facts about `FlattenSeq`, the largest of a finite set of naturals and sorting.

The invariants of `DeltaFlush`, `Replication` and `GraphStore` (here with three operations) also hold in TLC on the instances
of their runs. Only model-checked: the liveness properties
(`CheckpointReturns`, `FlushDelivers`, `CloseFinishes`, `StoredSettles`, `StartSucceeds`, `PauseEnds`, `CloseStops`),
which rest on fairness and are out of the prover's reach, and the five statements of the documentation that fail. Every other property
of a passing run is a theorem.

## Plan

Done: every component with state of its own, and a theorem for every safety and action property that a passing run
checks. Left, in this order:

1. A composition of `Replication` with the cut of `WriteCheckpoint`: the watermark of a segment that appears
   after a start begins at zero, not at `baseline_time` (sync.go:81).
2. The names of segments (`rolloverSegmentOrder`, `latestInstanceSegment`) with overlapping instance
   ids, which the modules take as distinct.
3. The conditions under which processes with several segments agree, as an invariant of `Replication` that is weaker than
   `OneSegment`, and its proof.
4. A theorem that relates `GraphStore` to `Replication`: that the records of a graph commute as those of a row do.

## Not modelled

The checks of keys and required columns in `table.go`, which only reject a call; the defaults and range
checks of the configuration; progress callbacks. The edge labels that `db_meta.json` does not declare are
in `GraphStore`, but no property says what they are promised after a checkpoint: the loader skips
them (load.go:105). Replication keeps no baseline. Segment names are abstracted to their order.

HTTP, JSON encoding, logging, the signing of commits, and the retrieval of branch heads and trees
are I/O without a state of their own. The fake GitHub client, the test helpers and the example
server are not part of the library. Clock skew between instances is excluded, as ghdb's README requires
reasonably synchronised clocks.
