# FacetQL in TLA+

FacetQL is a single-process, page-based graph database: nodes and edges in a
slotted-page heap, B+tree indexes over them, a write-ahead log (WAL), crash
recovery, an HTTP API. This directory models the parts of it where order,
failure and concurrency decide what survives, what is answered and when,
model-checks them with TLC on small instances, and proves the central results
with TLAPS for all.

Line numbers are of `src/src/...`; `PROJECT.json` maps each definition to them.

## The system

| part | state | operations that change it | modules |
|---|---|---|---|
| log (`storage/wal.rs`) | file, cached handle, three counters, group-commit state | append, BEGIN/COMMIT/ABORT, `sync_pending`, `rotate`, `truncate_torn_tail` | `Durability`, `GroupCommit`, `WalTail` |
| staged batch (`commit.rs`, `transaction.rs`) | open frame, its fence | open, stage, commit, apply, settle, drop | `Durability`, `Batches` |
| checkpoint (`checkpoint.rs`) | a file with one sequence, the set of fences | `begin_fence`, `release_fence`, `advance` | `Durability` |
| recovery (`recovery.rs`) | | classify frames, seed counters, replay, checkpoint | `Durability`, `IndexRecovery`, `WalTail`, `FlatLogs` |
| engine (`engine.rs`) | writer lock, `applied_sequence`, epochs, retired segments, users | every mutation, `note_applied`, `checkpoint_locked`, compaction, segment reclamation | `Durability`, `IndexRecovery`, `Segments`, `Batches` |
| indexes (`index.rs`) | six built-in trees, declared trees, definition logs | put and remove on apply, create with backfill, drop, commit tree by tree | `IndexRecovery`, `KeyEncoding` |
| B+tree (`btree.rs`), pager (`pager.rs`) | pages, two metas, free list by generation, pinned snapshots | put, remove, commit, snapshot | `BTree`, `SlottedPage` |
| heap (`heap.rs`, `catalog.rs`, `page.rs`, `cache.rs`) | segments, catalog, open-segment table, record cache | append, overflow, mark obsolete, drain, drop | `Segments`, `SlottedPage` |
| users log (`binary.rs`) | a flat file of frames | append, load, compact | `FlatLogs` |
| rules (`reference.rs`, `check_unique`, `check_references`) | declared references and unique indexes | lowering of deletes, refusal of inserts | `Batches` |
| check-and-write operations | | `sequence_next`, `claim`, `set_if_next` | `Handlers` |
| queries (`predicate.rs`, `aggregate.rs`, `text.rs`, `engine.rs`) | cursors | plan, walk, page, fold | `Predicate`, `Query`, `Aggregates` |
| handlers (`api/routes.rs`, `database.rs`) | | engine calls in sequence, then events | `Handlers` |
| change feed (`changes.rs`, `database.rs`) | positions, ring of events | scan of the log, publish, subscribe, resume | `Changes`, `EventFeed` |
| serving (`main.rs`, `tls_server.rs`, `api/limits.rs`) | connections, permits, jobs of the blocking pool | accept, request, time out, drain, settle | `Serving`, `RateLimit` |
| metrics (`metrics.rs`) | histogram windows, queue counters, cell table | record, poll, enter and leave, claim a cell | `Metrics`, `CellTable` |

How they interact. A mutation takes the writer lock, lowers itself to
operations, logs them (one record alone, several in a BEGIN..COMMIT frame whose
BEGIN sequence is fenced), applies them to the buffer pool and releases the
lock. Only then does it wait for an fsync of the log, shared with other writers.
Every so many mutations the writer also runs a checkpoint under the lock: heap,
then trees one by one, then the checkpoint file (never past a fence), then the
rotation of the log. A restart reads the checkpoint and the log, discards frames
without COMMIT, replays what lies above the checkpoint and checkpoints again.
Readers take no lock: they pin an epoch, or a tree generation, and the writer
may reclaim only what no pin can reach. Handlers of the HTTP API are sequences
of such calls on a pool of threads, and publish an event after the last one.

What is hard about it: the flush runs outside the lock and races with appends
and rotation; a checkpoint is many steps and a crash may cut it anywhere; the
applied state is ahead of the synced log; a failed step leaves a process that
goes on; counters are rebuilt from what is left of the log; replay reads state
that may be newer than the record it replays; what a handler looked at may have
changed when it writes. The `hazards` of `PROJECT.json` give the line where each
bites and the property that would catch it.

## Modules

Durability and recovery:

- `Durability`: log, frames, apply, checkpoint, rotation, crash, power loss,
  recovery. One writer holds the lock (`pc`, `unit`, `todo`); finished units wait
  for their flush in `waiting`. A key is one entry of one tree, a value the
  number of the mutation that wrote it. `Recovered` is what a restart now would
  read back. Failures are environment actions, enabled by `Faults`.
- `DurableStore`: what that promises: a batch enters the recoverable state
  whole and at once, and nothing else changes it. `Durability` implements it
  with `store <- Recovered` (property `ImplementsDurableStore`). It says what
  holds against process crashes; unsynced writes may go in a power loss.
- `DurabilityHistory`: `Durability` with a history variable of committed
  batches, to state batch atomicity when the frame itself is gone.
- `GroupCommit`: `sync_pending` at the grain of its atomic steps (each
  critical section one step, the fsync outside), with `append`, `rotate` and
  `reset_handle`. A file is named by the rotation that created it. It is the
  detail behind the one action `Acknowledge` of `Durability`: its `OkIsDurable`
  is what `Acknowledge` assumes.
- `WalTail`: the end of the log file in cells (digits, newlines, holes left by a
  lost page): `write_line`, its separator, `read_all`, `durable_len`,
  `truncate_torn_tail`, rotation by size. It is the detail behind "a torn record
  is an absent one" of `Durability`.
- `IndexRecovery`: `apply_operation` on the built-in trees and one declared
  data index, the checkpoint tree by tree, crash, replay operation by operation.
  It takes from `Durability` that the log holds whole committed batches in
  order.
- `FlatLogs`: the users log of `binary.rs`: append, load, the compaction by
  rewrite and rename, replay on top of it.

Structures on disk:

- `BTree`: copy-on-write pages, two metas, the free list by generation,
  snapshots, `open`. A commit is flush, meta, sync; pages reach the disk one by
  one. It is the detail behind the atomic tree commit of `Durability` and
  `IndexRecovery`.
- `SlottedPage`: one page with its real offsets: directory, free space, holes,
  compaction, and `split_point` over cells of different lengths.
- `Segments`: records in pages in segments, overflow chains, the table of open
  segments, drain and retirement, epochs, the record cache, crash and reopening.

Writes and reads:

- `Batches`: `lower_transaction` against an overlay, the delete closure over
  declared references (cascade, restrict, set null), `check_unique`,
  `check_references`, and the definition of rules and indexes.
- `Handlers`: the handlers of `routes.rs` that write, claim or publish, as
  sequences of engine calls interleaved with each other, and a consumer that
  subscribes, scans and follows.
- `KeyEncoding`, `Predicate`: index keys as byte strings of small width, and the
  evaluator, validation and the literals and grams a planner reads off a
  predicate. Pure.
- `Query`, `Aggregates`: the access paths, cursors, budgets and refusals of
  `query_where` and `aggregate_where`, a step per row, with a writer in between.

The process:

- `EventFeed`: the ring of `GET /events` and one subscriber that lags, hangs up and
  resumes by a token.
- `Changes`: `GET /changes` over a log that grows and is rotated, with the
  counters that recovery seeds, beside that ring.
- `RateLimit`: token buckets in quarter tokens, eviction at the cap, the
  rounding of Retry-After, a poisoned mutex.
- `Serving`: connections, permits, timeouts, the blocking pool, the drain with
  its deadline and the two accept loops.
- `Metrics`, `CellTable`: windows over a shared histogram, percentiles, the
  writer queue's counters; the probing of the lock-free table of cells.

`MC*.tla` are the instances for TLC; the `*Proofs.tla` modules hold the theorems (see
Proofs).

## Runs

Components that share no state are checked side by side in one run: the
variable `scenario`, chosen in the initial state and never changed, says which
component runs with which constants, and the variables of the others keep a
fixed value. A property of such a run says `scenario = ... => ...` of the
component's own definition. Each scenario is thus a model of its own, and the
instances below are read one by one.

| run | scenarios | what it shows |
|---|---|---|
| `durability` | | two frames and three writes over two trees, failing applies and flushes, crashes anywhere, repeated recovery: acknowledged writes come back, recovery never refuses its log, a checkpoint covers only what the trees have, the whole implements `DurableStore` |
| `durability_faults` | | with failing appends, power loss and rotations that lose the handle, all together: an acknowledged write is lost only if it was appended after the handle had lost its name, and while the handle has its name only whole batches and power losses change what a restart brings back |
| `group_commit` | | three writers, failing fsyncs, two rotations: Ok is given only for durable records, no wakeup is lost, every call returns |
| `recovery` | index, tail, pages, users | replay from any cut of a checkpoint reproduces the records and lists every node; wherever a crash cuts the end of the log, it is accepted and has what was acknowledged, and where a power loss skips pages of it, it holds every acknowledged record, though it may be refused; the identities are those of the users log, which starts compacted |
| `storage` | shape, aged, crashed, broken, pinned; cells, split; heap, heapcrash, heapfaults | the tree answers as a map and frees no page it uses, after a crash opens what was committed (with a rotten newest meta, what was committed before), keeps a pinned snapshot; page cells stay intact and full pages split; locations resolve to their record in a serving process and after a crash |
| `writes` | trees, fields, edges; claims, links | committed states satisfy the declared references and unique indexes, a batch applies as it was lowered, and looks that guard a write are atomic with it |
| `reads` | keys, predicates, plan, paging, fold, race | keys sort as values, narrowing loses no row, every access path gives the answer of a scan, a row nobody touches is on exactly one page, aggregates are folds |
| `server` | scans, restarts, faults, feed; rates; windows, queue; cells | the change scan and the event stream lose and repeat nothing they do not say they lost, no history version is given out twice (restarts included, unless one finds the log empty), allowances are kept, racing counts add up |
| `progress` | serving, stopping, tls; paging; copy | permits come back and bound what lives long, a process asked to stop stops and answers first, paging ends, a consumer's copy converges beside updates, claims, deletes and batches |
| `rotate_handle` | | violated: acknowledged writes after rotate's directory fsync failed |
| `power_batch` | | violated: a batch is whole or absent after a power loss |
| `stale_index` | | violated: replay reproduces every index exactly |

The three violated properties are what a comment of the source says; `findings`
in `PROJECT.json` quotes each one. Passing runs show what holds beside them:
`recovery` that stale entries are the only harm (no node is lost from an index,
and nodes, edges and history are exact), `durability_faults` that a
power loss never takes an acknowledged write.

Several properties are conjunctions of a component's own invariants that make
one statement together; the conjuncts stay separate definitions in the component
modules. Each property is accompanied by mutants, plausible errors in one
modelled function (listed under `mutants`), that TLC refutes under the same
configuration.


### Bounds

- `durability`, `durability_faults`: two trees are enough for a checkpoint to be
  cut between two commits, and two entries make a batch that can be torn. Six
  sequences hold a frame with two mutations plus a standalone write (or a second
  frame), so that a frame is open or fenced while another unit is covered by a
  checkpoint. With all faults at once there are five, which hold a frame of one
  mutation and what follows its loss.
- `group_commit`: three writers are one that flushes, one that waits, and one
  that appends or rotates meanwhile; two rotations let a flush outlive a file.
- `recovery`: three operations hold an insert, an overwrite with its archive and a
  delete (`stale_index` has four). Lines of up to five digits and pages of four
  cells let a line lie across two pages; two crashes let a repaired file tear again.
  In `pages` a power loss may keep a page of a line and lose the one before. A floor
  of three records makes compaction happen within three operations.
- `storage`: two entries a page and five keys give a tree of three levels (`shape`
  within one generation, `aged` with commits between the changes); four generations
  go round both metas twice; a page of six cells reaches full, fragmented and
  compacted; segments of one or two pages and caches of one or two entries make
  writes evict and checkpoints compact.
- `writes`: three nodes are a parent, a child and a grandchild or a second parent;
  batches of two operations hold a delete with what refills its place. A
  sequence hands out blocks of at most two.
- `reads`: three rows, pages of one. Where plans and folds are checked, a scan bound
  of the number of rows minus one makes the bound bite, and a group
  may hold three values; thresholds of the text plan
  (`SeedGrams`, `ProbeFloor`...) are 1 or 2 so that each plan is chosen. Numbers are
  five magnitudes with a sign in place of 64-bit floats, bytes are three values of
  which 0 is the terminator.
- `server`: a ring of two events laps; two buckets are a full table; three slots
  with a probe length of two overflow.
- `progress`: one permit, one pool thread and two or three connections.

Sequence numbers and positions are not taken modulo 2^64. Deadlock is not checked
where the system really may rest: the bounded writers finish, or a process is
stopped.

### Fairness

- `GroupCommit`: a thread past its append eventually takes its next step (weak
  fairness of each thread's steps: the OS schedules it, and the mutexes' critical
  sections end without blocking). No thread has to start a write, and nothing is
  assumed of the fsync's outcome: `EveryCallReturns` holds even when every flush
  fails, since a failing flusher returns.
- `progress`, serving: timers fire (`Timeout`) and the main thread goes on. Jobs of
  the blocking pool need not end for `PermitComesBack`: the timeout drops the
  handler. For `StopsWhenAsked` a job that has started ends (`Finish`), since the
  runtime waits for it. Clients are assumed to do nothing.
- `progress`, paging and copy: the thread of a request goes on, and the consumer
  follows. Writers need not write, but write a bounded number of times.

## Proofs

The theorems hold for every value of the constants: any number of trees, nodes,
writers, connections, events, identities or slots, and any bound. Constants are only
assumed to be of their kinds (`ConstantsAssumption`, `WritersAssumption`,
`ServingBounds`, `RateBounds`, `CellBounds`, `MetricsBounds`; sets of connections and
of queueing writers finite; a ring holds at least one event). What a theorem
assumes beyond that is in the third column, and the fourth says what happens without
it.

The durable state:

| theorem | states | assumes that | because |
|---|---|---|---|
| `DurabilityProofs!TypeCorrect` | `[]TypeOK` | | |
| `AckedProofs!NamedSurvive` | `[]NamedWritesSurvive` | | |
| `AckedProofs!AckedSurvive` | `[]AckedRecoverable` | rotate's directory fsync does not fail | run `rotate_handle` violates it |
| `FrameProofs!RecoveryAlwaysStarts` | `[]RecoveryNeverRefuses` | | |
| `CheckpointProofs!CheckpointNeverAhead` | `[]CheckpointReflected` | the same, and no standalone record fails while it is applied | such a record has no fence and the checkpoint passes it (see Known disagreements); with every fault but this one TLC finds no violation (5.6 million states), so the first assumption may not be needed; the proof rests on the lossless case of `IInv` |
| `CheckpointProofs!ReadersSeeTheRestart` | `[]VisibleIsRecoverable` | the same two | violated with either fault: a lost handle hides from a restart what memory has, a failed apply the reverse |
| `CheckpointProofs!OnlyUnitsChangeTheStore` | `[][Store!Next \/ PowerLoss]_(Store!vars)` | the same two | violated with either fault: the trees bring back, one by one, what the log lost, or a checkpoint drops a record they lack |
| `CheckpointProofs!Refinement` | `ImplementsDurableStore` | the same two, and power stays on | unsynced units may go in a power loss |
| `RecoveryProofs!ReplayIsExact` | `[]ReplayReproducesRecords` | | |
| `RecoveryProofs!ReplayReachesEveryNode` | `[]EveryNodeReachable` | | |

Failed appends, failed batches, failed flushes, crashes at any point and, except
for `Refinement`, power losses are allowed in all of those about `Durability`.

The process:

| theorem | states | assumes that | because |
|---|---|---|---|
| `SharedStateProofs!OkMeansDurable` | `[]OkIsDurable` | | |
| `SharedStateProofs!NoneSleepsAlone` | `[]NoLostWakeup` | | |
| `SharedStateProofs!PermitsBoundConnections` | `[]LongLivesAreBounded` of `Serving` | | |
| `SharedStateProofs!DrainCutsNothing` | `[]InFlightFinish` of `Serving` | the accept loop is the plain one | the TLS loop does not wait for its connections (see Known disagreements) |
| `SharedStateProofs!FeedIsExact` | `[]StreamIsTheFeed` of `EventFeed` | | |
| `AccountingProofs!NoAllowanceIsTwice` | `[]NoAllowanceTwice` of `RateLimit` | | |
| `AccountingProofs!AllowanceKept` | `[]AllowanceIsKept` of `RateLimit` | every configured limit admits a call: a burst of a token or more, and a refill (`LimitsAdmit`) | the parser takes a burst below one token, which no wait ever fills (see Known disagreements) |
| `AccountingProofs!OneCellEach` | `[]OneCellPerCoordinate` of `CellTable` | | |
| `AccountingProofs!WindowsPartition` | `[]EverySampleInOneWindow` of `Metrics` | | |
| `AccountingProofs!ContentionWasThere` | `[]ContentionIsReal` of `Metrics` | | |

The properties of the runs `recovery`, `server` and `progress` say of a scenario
what these theorems say of the component itself; `CountsAddUp` is the conjunction of
the last three with what only TLC checks: sums and percentiles.

### The arguments

The modules about `Durability` form a chain, each with the inductive invariant of
the result it ends in:

- `DurabilityProofs`: lemmas about the operators of `Durability` (what `Recovered`,
  the clamp and the floors of recovery return), and `TypeInv`: `TypeOK` with the
  bounds of what is in the log. It defines `IInv`, and has the steps of a frame.
- `AckedProofs`: `IInv` for the other steps. `AckedRecoverable` is not inductive: it
  says nothing of writes on the way. `IInv` calls a mutation *safe* up to sequence n
  when a restart brings it back even if the log is cut after n: it is at or below the
  checkpoint and the committed tree has it or something newer, or the log above the
  checkpoint has it and, for a frame, its COMMIT by n. Every acknowledged mutation is
  safe up to the synced sequence and every waiting or applied unit up to its own last
  record; the records of the open frame are in the log above the checkpoint; the
  working trees have all of these, and nothing newer than what is still to be
  applied; trees a running checkpoint has committed equal the working ones;
  numbers in use lie below the counters and mutations are numbered in sequence
  order. `SafeKept` and `SafeIsRecovered` carry the argument. All of it is said of
  the mutations that were appended while the handle had its name; the history variable
  `stray` collects the others, and where rotate's directory fsync never fails there
  are none (`NoneStray`).
- `FrameProofs`: `FInv`. classify_transactions refuses a COMMIT whose BEGIN is not
  before it in the replayed suffix, so the invariant is about what the checkpoint
  might still become: the frame of every COMMIT above the checkpoint begins above
  it too (`Uncut`), and neither the applied sequence nor the place just below any
  fence lies inside it (`Whole`). The open frame lies above the checkpoint, above
  what is applied and not below any fence, and the log has its BEGIN unless the
  handle is lost. Transaction numbers in the log are below the counter, which
  recovery reseeds from the log, so no frame takes up another's number.
- `TreeProofs`, `CheckpointProofs`: `CInv`, which is `IInv`, `NoneStray`, `FInv` and
  what the trees hold: a mutation is *settled* when it is not about to be applied and
  lies below every frame whose application failed. The working trees have every
  settled effective mutation or a newer one; entries no record is about are equal
  in memory and on disk; where the deciding record of an entry is settled, memory
  has its value; and what a fence protects is above the checkpoint. Moving the
  checkpoint to the clamped sequence therefore skips only settled mutations, and
  only after every tree was committed. The first module has the steps of a write,
  the second those of checkpoint, crash and recovery, and then the refinement,
  from `SInv`: `CInv` and the range of write numbers. A step that appends a COMMIT
  or a standalone record overlays `Recovered` with the unit's writes, which are the
  newest of their entries; every other step leaves it alone. `RecoveredKept`,
  `RecoveredFlush` and `RecoveredAdvance` show this for a checkpoint: what it moves
  to the trees leaves the replayed suffix.

The others stand alone:

- `RecoveryProofs`: `RInv`. Replay starts from trees of different ages. The history
  variable `ideal` holds the trees of an engine that never crashed, after each
  operation. Every entry of the working trees is the one `ideal` has after `pos`
  operations or later, every entry of the committed trees the one after `ckpt` or
  later, and how much later differs from entry to entry. Replaying an operation
  either moves an entry on or finds it further on already; once all are replayed only
  the last state is left. The kind, owner and data trees may keep an entry of a value
  since replaced (run `stale_index`), so they are held to less: a node that the
  operations still to come leave alone has its entry.
- `SharedStateProofs`, group commit (`IInv`): a file is superseded only by one
  that has all its content on stable storage, so a flusher whose handle is of an
  older file may still publish what it covered; the target of a call covers its own
  record and the coverage of a flusher its target; while the syncing flag is set, or
  anyone sleeps, some thread is flushing.
- `SharedStateProofs`, serving (`PermitInv`, `DrainInv`): who streams, or with TLS is
  connected, owns the permit for it, and the owners of a pool's permits are never more
  than its permits, through timeouts, handlers dropped before their job ends and
  hung-up clients. Past a drain that met its deadline no connection is left.
- `SharedStateProofs`, feed (`FeedInv`): positions rise, the ring is the end of what
  was issued and what left it lies at or below `earliest`. Hence a token that is not
  refused misses nothing that left, and what a subscriber has, followed by what it has
  queued, is a run of what was issued up to the last event.
- `AccountingProofs`, rates (`RateInv`, `RetryInv`): a bucket in the table has at most
  what one that is never dropped would have, and a key without a bucket would have a
  full one, as only full buckets are evicted. From the time a caller was told to come
  back its bucket has a token at any later look, whatever its owner's other calls left.
- `AccountingProofs`, cells (`CellInv`): a thread that looks for its slot has passed
  only slots of other coordinates, and slots never change owner, so two slots of one
  coordinate would each lie before the other.
- `AccountingProofs`, metrics (`WindowInv`, `QueueInv`): a poll's copy of a bucket lies
  between what its window was opened with and what is recorded by now; the depth is
  the number of writers that have arrived and not left.

TLC checked each of these invariants on small instances as well: `SInv` (with `CInv`
and the lossless case of `IInv` in it) on 858,608 states with failing appends, batches
and flushes and power loss; `IInv` and `FInv` on 1.1 million with all faults and on
7.2 million with lost handles, power loss and more writes; `RInv` on 51,714; the
invariants of the process on instances of the size of their runs (group commit
290,797 states, serving 109,483 and with TLS 144,559, feed 8,650, rates 87,498, cells
3,221, windows 14,154, queue 1,346).

### Only model-checked

- Liveness under fairness (`EveryCallReturns`, `StopsWhenAsked`, ...), which is
  beyond the proof system.
- `StoreUnlessPowerLoss`, the refinement where rotate's directory fsync does fail:
  `CInv` is about a log whose handle has its name.
- What a sum comes to: that the attributed charges add up to all charges
  (`AttributionAddsUp`), and the percentiles of `Metrics`. The same holds for what a
  recursive definition computes (a tree descent, a delete closure, a fold, the pages of
  the change scan): it needs an induction the provers cannot instantiate. This keeps
  `BTree`, `Batches`, `Handlers`, `Query`, `Aggregates`, `Segments` and the scan of
  `Changes` with TLC; most of them use RECURSIVE operators, about which nothing can be
  proved here.
- `WalTail`, `FlatLogs` and `SlottedPage`, whose state is a sequence of cells that is
  parsed from one end.

## Assumptions

- One process per data directory (`lock.rs`).
- In `Durability` a tree's commit is atomic and heap records are on disk before the
  trees that point at them. `BTree` and `Segments` model what this rests on, and
  show it where no call fails; see below for where it does not hold.
- In `Durability` a failed append has written nothing. `WalTail` models the partial
  write.
- An fsync that returns Ok has made stable all that was written to the file before
  it began, also after an earlier fsync of it failed. `WalTail` models the other
  kind of kernel (fault `drop`).
- A power loss keeps a prefix of the unsynced part of the log in `Durability` and in
  `WalTail`; with fault `reorder` of `WalTail` (scenario `pages`) it keeps any of its
  pages.

## Known disagreements

Passing runs use instances on which the following does not occur; the setting that
brings it out is given. TLC refuted each property under that setting on a small
instance, and the property is defined in the module named. These settings are not
kept as runs: three are, the ones on which most depends.

| module, property | setting | where | what the code does, and what it says |
|---|---|---|---|
| `Durability` `CheckpointReflected` | `Faults = {"apply_standalone"}` | `storage/engine.rs:744` | A standalone mutation is appended and then applied without a fence; when apply_committed fails, the next checkpoint advances past its sequence although the trees do not have it. storage/checkpoint.rs:18 says "Everything at or below the value here is on stable storage, which is exactly the prefix of the WAL a restart may skip." |
| `GroupCommit` `FlushedRecordsWereWritten` | any rotation | `storage/wal.rs:833` | gained is covered minus durable, and durable starts at 0 in a new process and returns to 0 at every rotation (wal.rs:857), so the flush that follows counts every sequence number ever issued; storage/wal.rs:737 says "The ratio is what group commit is: `records / flushes` is the average number of writers that shared one flush." |
| `BTree` `EverySnapshotStable` | a reader that pins between a put and a commit | `storage/btree.rs:525` | snapshot() pins state.generation (the committed one) together with state.root (the root being built), and pages already copied in this generation are changed in place, so a snapshot taken after a put sees later puts of the same generation. The documentation says "The returned [`Snapshot`] reads the tree as it stood at the moment it was taken, and keeps reading it that way however many commits happen meanwhile" (storage/btree.rs:504). |
| `BTree` `AlwaysOpens` | `Faults = {"create", "crash"}` | `storage/btree.rs:279` | initialize writes the root page and its first commit flushes it before any meta exists; a crash there leaves a file of three pages and no valid meta, which every later open refuses. The module says "there is no window in which the file describes a tree that does not exist" (storage/btree.rs:20). |
| `BTree` `NoLivePageFree` | `Faults = {"write"}` | `storage/btree.rs:477` | cow releases the original page before the copy is written, so a put that then fails (a page cannot be written or read) leaves the page the tree still references on the free list. The comment of the split says "either both halves are built and written, or nothing changed" (storage/btree.rs:948). |
| `BTree` `RecoveredTreeIntact` | `Faults = {"sync", "crash"}` | `storage/btree.rs:399` | When the flush of the meta fails, commit returns without advancing generation or clearing dirty: the meta is in the cache (or on disk) while the pages it names are still changed in place, so a crash can open a tree that never existed. The module says "**Nothing a committed meta references is ever overwritten.** So a crash mid-generation cannot damage the committed tree" (storage/btree.rs:28). |
| `Segments` `CheckpointedRecordsReadable` | `Faults = {"crash", "torn"}` | `storage/heap.rs:369` | append_cell_to adds a record to the last page of the active segment in place, and RecordStore::sync rewrites that page over the copy that holds records already checkpointed. A crash that tears the write makes the page unreadable, and the log no longer has those records. engine.rs:815-817 says of a crash in the flush steps: "recovery replays those operations and reproduces exactly the state that did not make it". |
| `Segments` `ServedRecordsResolve` | `Faults = {"flush"}` | `storage/heap.rs:219` | evict_down_to removes the victim from the table and then flushes it; when the flush fails its dirty pages are dropped with it, while the index still names the records in them and the next checkpoint goes on without them. The comment at heap.rs:189-193 says the flush is there because "dropping dirty pages would silently undo work the caller already believes is in the buffer pool, and the next `sync` would have nothing to write". |
| `Segments` `RetiredOnce` | a reader, `MaxEpoch = 4` | `storage/engine.rs:914` | A segment held back by a reader stays in the catalog with its obsolete bytes, so compact picks it again at every checkpoint, drains nothing and retires it once more. engine.rs:592-594 says of the list: "it grows by one `(u32, u64)` per deferred segment". |
| `Batches` `ReferencesHold` | `Rewrites = TRUE` | `storage/engine.rs:4975` | check_references only subtracts the addresses a batch deletes from the committed parents, and looks only at the nodes the batch inserts; a batch that rewrites a live parent (its kind, or the referenced field, or a delete followed by an insert at the same address) commits and leaves children that reference nothing. The comment at storage/engine.rs:4895 says "Refuse a batch that would leave a node referencing something that is not there." |
| `Batches` `ArchivesWhatIsSuperseded` | set_null beside cascade | `storage/engine.rs:4768` | The queue of lower_delete_closure holds the nodes as they were when they were queued: a node that a set_null reference clears before it is popped is archived in its old state a second time, and the state the delete supersedes is never archived. storage/engine.rs:5445 says of the archive "a deleted node's final state is exactly the one an operator comes looking for". |
| `Batches` `UniqueRefusalsJustified` | `MaxBatch = 3` | `storage/engine.rs:6094` | claimed compares every insert of the batch with every other, the superseded ones and those of the same address included: a batch that inserts a node, deletes it and inserts another with its value, or writes one node twice, is refused although its outcome is unique. storage/engine.rs:6062 says "A value freed earlier in the same batch is not a conflict". |
| `Batches` `BulkDeletesNeverRestricted` | a restrict reference | `storage/engine.rs:5648` | lower_selection deletes through lower_delete_closure, which a restrict reference refuses, so a clear_kind or delete_where aborts its batch. storage/engine.rs:5465 says "A clear never aborts the batch on its own" and storage/engine.rs:5481 "The one way a delete_where can abort the batch — an unpushable or erroring predicate". |
| `MCReads` `DataKeysFollow` | `NegativeZero = TRUE` | `storage/index.rs:840` | encode_value_body encodes -0.0 by its sign bit, below 0.0, while compare_order_values and the evaluator find the two equal; an equality, a uniqueness or a reference that goes through the index does not see the other zero. storage/index.rs:789 says "comparing two values here and comparing their encodings byte-for-byte must give the same answer". |
| `MCReads` `LiteralsAreNecessary` | `Lowered = TRUE` | `storage/text.rs:312` | lower_text gives text for a number or a boolean and a folded index stores postings for strings only, so a contains over lower(field) loses those rows when the index is declared. storage/text.rs:308 says "`None` for an absent field and for every non-string type, matching the evaluator", and storage/engine.rs:3190 "never a subset". |
| `MCReads` `SkippedRowsAreFalse` | `Compares = TRUE` | `core/predicate.rs:797` | with `item.score < 5 && item.status == "open"` an index over status skips the rows on which the comparison fails, so the query succeeds with the index and fails without it. core/predicate.rs:600 says "the indexed and unindexed paths would then disagree about what the request even means, which is precisely the divergence an index must never introduce". |
| `Query` `AnswerIsTheScan` | rows whose field is null | `storage/engine.rs:6636` | Cursor.o is an Option<Value> in JSON: an explicit null is written as null and read back as None, the absent value that sorts last, so an ascending page after a null row skips every row with a value. storage/engine.rs:2229 says "The next page selects rows *strictly past* that point in the requested direction". |
| `Query` `StableRowsPagedOnce` | `Declares = TRUE` | `storage/engine.rs:3640` | a cursor from query_by_address holds no order value; once an index over the pinned field is declared, query_by_key_prefix resumes it at data_key(None, address), past every value. storage/engine.rs:3717 says "declaring or dropping an index never invalidates an outstanding cursor". |
| `Query` `StableRowsPagedOnce` | `Rewrites = TRUE` | `storage/engine.rs:3795` | the walk is over a pinned index and read_node reads the current row, so a row rewritten (or deleted and inserted again) meanwhile is returned at its old place and its new value becomes the cursor. storage/engine.rs:2231 says "paging stays stable under concurrent inserts and deletes". |
| `Query` `MissingSortsLast` | a descending order | `storage/engine.rs:3923` | descending order reverses the whole sort, so rows without the field come first. storage/engine.rs:6416 says the reverse matches '"missing sorts last" either direction'. |
| `Changes` `ScanLosesNothingEver` | one restart | `storage/recovery.rs:90` | After a rotation emptied the log and the process restarted, both counters start from the checkpoint, which is a sequence, while positions (operation ids) had run further ahead: history versions and events burn them too. New changes get positions at or below the next a consumer already holds; as soon as the log is non-empty its own first position is the horizon, the scan accepts the old position and leaves those changes out. api/routes.rs:2659 says "A position the log can no longer serve is a **410**, never a page that quietly begins at the oldest record still present". |
| `Changes` `VersionsUnique` | one restart | `storage/recovery.rs:90` | The same seeding reissues operation ids, and history versions are operation ids: an (address, version) key an earlier run wrote is written again. storage/recovery.rs:85 says versions "must never revisit a `(address, version)` key an earlier run already wrote", core/history.rs:22 "Monotonic version number, unique across the life of the database". |
| `Changes` `OldTokensRefused` | one restart | `database.rs:483` | Events published after the last log record take positions that no record carries, so recovery does not count them and the new feed starts at or below them; a token from the previous process is accepted. database.rs:481 says "recovery has already advanced the counter past every identifier in the durable WAL, so every position that process handed out is below this one." |
| `Changes` `RefusalMeansLoss` | `AppendFaults = TRUE` | `storage/changes.rs:361` | A failed first append burns sequence 1 (wal.rs:531), so the first record ever written has sequence 2 and the horizon is its position: a scan from 0 answers 410 although the log is complete. storage/changes.rs:345 says "the distinction is what keeps the refusal from firing on a database that has lost nothing". |
| `Handlers` `CopyConverges` | `Kids` not empty | `api/routes.rs:1099` | delete_node publishes one node_deleted for the address in the path; the nodes the declared references removed with it are published by nobody. A consumer that subscribed, scanned, and follows the events never hears of them. api/routes.rs:2712 says "In that order there is **no gap**": "for any mutation the scan did not return ... the live subscription delivers it". |
| `Handlers` `IfAbsentNeverOverwrites` | inserts with `if_absent` | `api/routes.rs:929` | The look at the address holds no lock and insert_with_edges does not repeat it, so two requests with if_absent may both be answered 201, the second overwriting the first. API_REFERENCE.md:159 says "`true` → fail with 409 instead of overwriting". |
| `Handlers` `UpdateKeepsTheRest` | a put and a claim | `api/routes.rs:1039` | update_node writes back the whole node it read before taking the writer lock: a lease granted in between is cleared (and a node deleted in between returns). api/routes.rs:1052 says "`PUT` rewrites `data` and `visibility` only". |
| `Handlers` `ClearNamesWhatItRemoves` | a clear and an insert | `api/routes.rs:2240` | with_engine_mut takes no lock, so a node of the kind may be created after the selection and is then removed without being named. api/routes.rs:2233 says "The write lock is held throughout, so this snapshot matches what execute_transaction removes." |
| `Handlers` `RetractionReachesTheSame` | links and a put | `api/routes.rs:1883` | The audience is computed from the endpoints at each event: a PUT that makes an endpoint private in between leaves those who were told of the edge without its retraction. api/routes.rs:66 says "the creation and the retraction of one fact can never reach different subscribers". |
| `Handlers` `BlocksDisjoint` | a delete at `SeqAddr` | `storage/engine.rs:1505` | The counter of a sequence is an ordinary node at a plain address, and an absent node means 1: after DELETE /node of it the values handed out repeat. storage/engine.rs:1438 says "the caller owns `[first, first + count)` and no other caller will ever be given them". |
| `FlatLogs` `AlwaysReadable` | `Tears = {"crash"}` | `storage/binary.rs:714` | read_all_records passes over a torn tail and leaves its bytes in the file; the operation is replayed from the WAL and append_record writes behind them, so the next load reads one frame made of two and refuses to start. The WAL truncates for exactly this reason (storage/recovery.rs:135: "splicing two frames into a single unparsable blob"). storage/binary.rs:525 says of a crash during append_record that it "leaves at most a torn trailing frame, which the read path reports as [`TailState::Truncated`] rather than mistaking for good data". |
| `FlatLogs` `UsersAreTheLog` | `Tears = {"failure"}` | `storage/binary.rs:556` | A write_all that fails halfway leaves a header whose declared payload the next records fill: they are acknowledged, and the next start takes them for the torn tail and drops them. storage/binary.rs:524 says "append_record returned Ok" means "this record is durable". |
| `RateLimit` `RetryAfterIsEnough` | a burst of half a token | `api/limits.rs:534` | parse_rate_from accepts any burst above 0, so FACETQL_RATE_READ=0.5 caps the bucket at half a token: Bucket::take never reaches 1.0 and refuses every request with a Retry-After that is refused again. The comment at api/limits.rs:585 says 'rounding down would advertise a retry that is still too early and would be refused again'; here rounding up does too. |
| `RateLimit` `EvictionIsInvisible` | three owners | `api/limits.rs:666` | At the cap a full bucket is dropped to make room, and when its owner returns while the other buckets are still refilling the owner is refused as a new key, where the kept bucket would have had a token. The comment at api/limits.rs:594 says a full bucket 'is the one entry that can be evicted without changing any caller's allowance', and line 647 that 'dropping one is indistinguishable from keeping it'. |
| `RateLimit` `FailureIsTheServers` | a slow refill | `api/limits.rs:739` | With the mutex poisoned the decision is Deny(None), which rate_limit answers 429 like every other Deny. The doc comment at api/limits.rs:703 says 'The refusal is a 503 rather than a 429 because the cause is this server, not the caller.' The mutex is poisoned by Duration::from_secs_f64, which panics when a configured refill makes the wait longer than a Duration. |
| `Serving` `InFlightFinish` | `Tls = TRUE` | `tls_server.rs:51` | serve_tls returns on the signal without waiting for the connection tasks, run_server settles and main returns, and dropping the runtime aborts every connection task at its await: the client of a request in flight gets no answer. The doc comment at tls_server.rs:37 says 'Connections already handed to hyper are spawned tasks and finish on their own', and main prints 'finishing in-flight requests' (main.rs:890). |
| `Serving` `WorkIsBounded` | any timeout | `api/limits.rs:150` | The timeout drops the handler and its permit while the spawned job stays queued or running, so a client that is answered 408 and asks again adds a job each time; nothing bounds the jobs waiting in the pool. The doc comment at api/limits.rs:118 says 'The timeout is therefore what stops a slow request from *accumulating*', and the one at line 160 that the in-flight bound 'keeps a burst from turning into an out-of-memory kill'. |
| `Serving` `StatsAreSeen` | a full pool | `api/routes.rs:2846` | GET /stats takes no permit but runs engine.stats() through with_engine, on the blocking pool that the admitted requests fill (512 threads by default in Tokio, as many as DEFAULT_MAX_CONCURRENT_REQUESTS), so it queues behind them and times out. The comment at api/limits.rs:229 says telemetry requests 'take no permit and are answered while every slot is busy'. |
| `Serving` `NothingToReplay` | a drain that expires | `main.rs:909` | settle checkpoints while write jobs may still be running (after the drain deadline, after a 408, or on the TLS path), and the runtime then waits for them: their commits are behind the final checkpoint and are replayed. The doc comment at main.rs:901 says 'Checkpointing here is what makes a planned restart cost nothing'. |
| `Metrics` `NoBurstHides` | two writers | `metrics.rs:438` | A writer leaves the queue as it acquires the mutex, so the depth is 0 while the mutex is merely held, and a writer that arrives then and has to wait adds nothing to write_queue_contended. The comment at metrics.rs:337 says 'A gauge sampled every few seconds misses short bursts entirely; this counter cannot', and the one at line 1071 'no burst can hide between two polls'. |
| `WalTail` `DiscardedWasNeverAcked` | `Faults = {"partial"}` | `storage/wal.rs:957` | write_all may fail after a part of the line (a full disk); write_line returns before it touches needs_separator, so the handle still believes the file ends on a newline and the next append continues the partial line. With an odd number of digits before it the line is not hex, so read_all calls it torn, and recover truncates it together with the acknowledged record on it. The message at storage/recovery.rs:131 says 'the incomplete trailing record was never acknowledged durable and is discarded'. |
| `WalTail` `StartsAgain` | `Faults = {"partial"}` | `storage/wal.rs:957` | After a partial write the next append is spliced onto the same line and read_all returns an error for it, so startup is refused although no byte was damaged. The comment at storage/wal.rs:901 says the last byte is known 'because every line this writes ends in one', and the one at storage/wal.rs:918 that 'Reaching a WAL that does not end on a newline requires a tear at exactly the last byte'. |
| `WalTail` `AckedSurvives` | `Faults = {"drop"}` | `storage/wal.rs:826` | sync_pending lets the next waiter retry a sync_data that failed, and believes its Ok. A kernel that marks the pages of a failed write-back clean reports success for the second call without writing them. The comment at storage/wal.rs:772 says 'Make everything appended so far durable'. |
| `WalTail` `StartsAgain` | `Faults = {"reorder"}` | `storage/wal.rs:1139` | A power loss that kept a later page of the unsynced log and lost an earlier one leaves a torn line with another behind it, which read_all refuses although everything acknowledged is there (`AckedKept`). Its message says 'a torn frame is only valid as the final line, so this is mid-log corruption rather than a crash tail'. |
| `Handlers` `CopyConverges` | a request `next` | `api/routes.rs:1345` | sequence_next writes the node of the counter and publishes no event, so a consumer that scanned before it never hears of the new value. api/routes.rs:2712 says "In that order there is **no gap**". |

The opposite case is `IndexRecovery` `ReplayReproducesRecords`, which holds and is
proved: history is keyed by address and version and an edge by its identity, so
replaying an `Archive` or an `InsertEdge` again changes nothing. Comments of
`storage/checkpoint.rs` are more pessimistic: line 157 says "`Insert`/`Delete`/user ops
are idempotent; `Archive` and `InsertEdge` are not", and line 172 that replaying the
whole log "duplicates history entries and edges".



## Not modelled

| what | why |
|---|---|
| `storage/lock.rs` | one exclusive file lock at startup; taken as an assumption |
| `config.rs`, `cli/*`, posture and startup-failure reporting of `main.rs` | parsing and printing, no state that outlives a call |
| backup and restore | file copies around a stopped or checkpointed store |
| `crypto.rs`, certificates, static token map of `auth.rs` | no protocol state here |
| `go_lower_table.rs` | a generated table |
| byte formats of records, log lines and pages | only lengths, order and integrity matter to the models; keys are modelled as bytes |
| maintenance and backfill of text indexes | the same calls as for data indexes, which `IndexRecovery` has; postings themselves are in `Predicate` and `Query` |
| process CPU and RSS readings, `classify` of `metrics.rs` | operating-system readings and a table |
| body limit and CORS layers | stateless filters |
| writes without a coordinate in the cell table | one plain counter |
| eviction of clean pages in the buffer pool of `pager.rs` | a clean page reads back the same; dirty ones are what `BTree` and `Segments` keep |

`components` in `PROJECT.json` gives the status of each part.
