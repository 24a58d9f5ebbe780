# rocksdb-ts in TLA+

rocksdb-ts is a Node binding: `src/binding.cc` exposes RocksDB's C++ interface
to JavaScript as about a hundred functions over opaque handles, and
`src/deps/rocksdb/rocksdb` is the engine it is built with. This directory holds
the specifications kept beside that code: models, TLC configurations and
proofs. Source paths below are relative to `src/`; engine paths are relative to
`src/deps/rocksdb/rocksdb/`.

Two questions decide whether the binding is correct, and they give the project
its shape:

1. **Who frees what, when.** Every handle is an N-API external over a raw C++
   object, freed by a finalizer when JavaScript can no longer reach the handle.
   C++ objects point at one another and keep nothing alive, a pool thread works
   through such pointers, and `rocksdb_close` waits for nobody.
2. **What a read sees.** The engine rewrites its data (memtables, flushes,
   compactions) under gets, snapshots and iterators that must not notice.

## 1. Inventory

| Component | State | Operations | Correct when |
|---|---|---|---|
| Asynchronous writes (`binding.cc` 96-183, 1506-1598) | `Promise::executing`, `success`, the deferred, the queue of libuv, raw pointers to db, batch, options | `rocksdb_batch_write_async`, `Begin`, `Finish`, the finalizer | nothing is freed or changed under a pending write; the promise settles once and says what happened |
| Batches and write options (220-432, 1321-1501) | updates of a `WriteBatch`; flags of `WriteOptions` | init, put, delete, clear, write, set | a write uses the batch as submitted |
| Database handle (479-563) | strong reference, `DBImpl::closed_` | open, close, finalize | closed once nothing needs it, then freed |
| Snapshots (1603-1630) | `DBImpl::snapshots_` | init, finalizer | released exactly once, before the database goes |
| Read options and slices (194-217, 1635-2190) | pointers to a snapshot and to slices; a slice's pointer into a Buffer | init, set, reset, finalizers | whatever is reachable points at live objects |
| Iterators (885-1320) | a copy of the read options, a number, a SuperVersion, a cursor | init, seek, next, prev, refresh, finalizer | shows one state of the map, dies before the database |
| Read path (`db/db_impl/db_impl.cc`) | SuperVersion, last sequence number | Get, NewIterator, GetSnapshot, ReleaseSnapshot | answers from a state the map had |
| Iterator cursor (`db/db_iter.cc`, `db/arena_wrapped_db_iter.cc`) | direction, saved key, position of the inner iterator, status | Seek, SeekForPrev, SeekToFirst, SeekToLast, Next, Prev, Refresh | moves as a cursor over a sorted map that nobody changes |
| Write path (`db/db_impl/db_impl_write.cc`, `db/write_thread.cc`, `db/memtable.cc`) | write queue and its links, write group, log, mutable memtable, last sequence number, background error | JoinBatchGroup, PreprocessWrite, WriteToWAL, InsertInto, ExitAsBatchGroupLeader, SwitchMemtable | one leader at a time, every writer leaves; a batch shows as a whole; the log replays to the memtables |
| Flush and compaction (`db/flush_job.cc`, `db/memtable_list.cc`, `db/compaction/`) | immutable memtables, sorted runs | PickMemTable, Run, Install | no reader can tell they happened |
| Recovery (`db/db_impl/db_impl_open.cc`), destroy, repair | log files | open, `rocksdb_destroy`, `rocksdb_repair` | acknowledged writes come back |
| `src/src/main.ts`, `binding.ts` | sample map over an iterator; declarations | `entries()` | yields the keys in order |

`PROJECT.json` lists these under `components`, with what is not modelled, and
the places in the code where they can go wrong under `hazards`.

How they interact. JavaScript calls the binding synchronously, so one call of
its runs at a time. `rocksdb_batch_write_async` hands a `BatchWritePromise` to
the libuv pool, whose threads call `db->Write` concurrently with everything the
JavaScript thread does; `Finish` runs on the JavaScript thread again. The
garbage collector runs finalizers between calls, in no particular order. The
engine's background threads flush and compact, and meet the callers under the
database mutex, through the SuperVersion (a reference-counted triple of memtable,
immutable memtables and files) and through the last published sequence number.

What is hard: writers that queue, lead, follow and leave through pointers into one
another's stacks; a cursor that turns round in the middle of the versions of a key
while new ones arrive; a crash between the log and the memtable; a pointer followed by a pool thread after the collector or `close`
went by; a snapshot list read at the start of a background job and used at its
end; the order of reading a sequence number and referencing a SuperVersion; a
deletion marker that may only be dropped when nothing it hides survives.

## 2. Plan and modules

| Module | What it is | State |
|---|---|---|
| `AsyncWrites` | asynchronous writes and the handles they point at | done |
| `AsyncWrites_proof` | its safety theorems | done |
| `ReadHandles` | the handles of reads, their finalizers, close and teardown | done |
| `ReadHandles_proof` | its safety theorems | done |
| `Versions` | versions of keys: lookup, and what compaction keeps | done |
| `Versions_proof` | rewriting versions is invisible to readers, and gives no two the same number | done |
| `KVStore` | abstract: what the database promises the binding | done |
| `Mvcc` | the engine's read path, snapshots, flush, compaction; implements `KVStore` | done |
| `Levels_proof` | a stack of levels ordered by age: what inserting, publishing, switching the memtable, flushing and merging do to it and to a read of it | done |
| `Mvcc_proof` | the levels stay ordered, no deletion gets number 0, `Mvcc` implements `KVStore` | done |
| `SortedCursor` | abstract: what an iterator promises, a cursor over a sorted map | done |
| `Cursor` | `DBIter` and the binding's iterator calls; implements `SortedCursor` | done |
| `Cursor_proof` | the loops keep their place, no key is shown twice, `Cursor` implements `SortedCursor` | done |
| `WriteThread` | joining, stalls, write groups, the log, the memtable, crash and replay | done |
| `WriteThread_proof` | one leader at a time, links and stacks that are safe, for any number of writers | done |
| `Durability_proof` | unique numbers, a log and a memtable that agree or stop the database, and writes that stay once they returned OK, for any number of writers, failures and crashes | done |
| `LogFiles` | several logs, their switch, flush and deletion, and replay across them | remaining |
| `DbLifecycle` | failing open, destroy, repair, reopening one path | remaining |

`Mvcc` uses `Versions` (EXTENDS) and instantiates `KVStore` under a refinement
mapping; `Cursor` uses `Versions` and instantiates `SortedCursor` the same way. The
modules meet in what one takes from another: `AsyncWrites` and `Mvcc` let one write
at a time append, insert and publish, which is `OneLeader` of `WriteThread`; `Mvcc`
gives an iterator a SuperVersion and a number and compares the map they show, and
`Cursor` shows that the calls on an iterator walk exactly that map. `AsyncWrites` and `ReadHandles` share the database's `closed` flag but
otherwise touch disjoint handles; they are kept apart so that each can be
checked with the handles that matter to it. Recursion is avoided everywhere
outside TLC-only modules, so every module above can be proved about.

## 3. The modules against the code

**AsyncWrites.** `life[h]` is whether the native object of a handle exists,
`held` what JavaScript can reach, `args[w]` the pointers `BatchWritePromise`
stores (with, for the properties only, what they pointed at on submission),
`executing` and `success` the fields of `Promise`, `queue`/`doneq` libuv's work
and completion queues, `deferred` the state of the JavaScript promise. `db->Write`
is two steps, `ThreadWritesLog` (`WriteToWAL`) and `ThreadInsertsIntoMemtable`
(the rest of `WriteImpl`), and both read the batch through the pointer;
`logged` holds the write between them, of which the write group allows one. The
synchronous `rocksdb_batch_write` takes the same two steps while the JavaScript
thread waits, so it is one action. `Rooted` says what the collector respects: a
handle JavaScript reaches, and a promise that is pending, because
`napi_create_promise` leaves a strong reference in the deferred until it is settled.
Batch and options are *not* rooted: the comment in line 1542 says so.

**ReadHandles.** `reference` is the strong reference of `rocksdb_open`,
`snapshots` is `DBImpl::snapshots_`, `options`, `bound` and `buffer` are the raw
pointers of read options, iterators and slices. An iterator keeps a copy of its
read options (`LevelIterator::read_options_`, `db/version_set.cc` 999): it follows
the bounds as it moves, and the snapshot again whenever it opens a file with
range tombstones (`BlockBasedTable::NewRangeTombstoneIterator`), so `bound` has
both. `purged` abstracts compaction to what matters to a snapshot, the numbers
whose state can no longer be read; `Mvcc` has the details. `Close` refuses while a
snapshot is listed, the finalizer of the database deletes it in any case.

**Versions.** An entry is `[key, seq, val]`. `Hidden`, `ObsoleteDeletion` and
`Squash` are rule (A), the two ways a deletion is dropped, and `PrepareOutput`, of
`CompactionIterator`; `Kept` is the effect of `NextFromInput` over a whole input
rather than its loop, and `beyond` and `bottom` are what
`KeyNotExistsBeyondOutputLevel` and `bottommost_level_` tell it.

**KVStore and Mvcc.** `KVStore` is an ordered map that changes by whole batches,
with snapshots, iterators and gets that answer from a map there was during the
call. `Mvcc` is the engine: `Levels` is what `Get` walks and `NewInternalIterator`
merges, `WriteBegin`/`Insert`/`Publish` the insertion of a batch entry by entry and
`SetLastSequence`, `GetBegin`/`GetReadsNumber`/`GetSearches` the order of
`GetImpl` (SuperVersion, then number), `NewIteratorBegin`/`IteratorReferences` the
opposite order of `NewIterator` and `Refresh`, `FlushBegin`/`FlushInstalls` and
`CompactionBegin`/`CompactionInstalls` the two ends of a background job, between
which anything may happen. The memtable is an object, so a SuperVersion that
holds it sees later insertions. The refinement maps the abstract map to what a read at
`lastSeq` sees, a snapshot to what a read at its number sees *now*, and an iterator
to what its own SuperVersion shows at its number: that flushes and compactions
are stuttering steps is exactly that no snapshot, iterator or get notices them.
`NoneAssumption` says that the value standing for "nothing there" is no map, iterator or batch.

**SortedCursor and Cursor.** `SortedCursor` is `include/rocksdb/iterator.h`: a map, bounds,
a position, and calls that lead to the key the map says or fail with a status.
`Cursor` is `DBIter`. `it` holds its fields (`direction_`, `valid_`, `status_`,
`saved_key_`, `pinned_value_`, `is_key_seqnum_zero_`, `num_internal_keys_skipped_`,
`sequence_`), `at` and `innerOk` the merging iterator, `view` and `dels` the entries and
range tombstones of the SuperVersion it references. A call takes many steps: `pc`
names the loop (`find` is `FindNextUserEntryInternal`, `turn` `ReverseToForward`, `prev`
`PrevInternal`, `value` `FindValueForCurrentKey`, `back` `FindUserKeyBeforeSavedKey`) and
`loc` its locals, because a pool thread may insert between two iterations (`Write`
changes `view` while the SuperVersion is current). The refinement maps the
abstract map to `MapAt(it.seq)`, computed from the log of writes alone, so it is
independent of entries, compactions and tombstones; between a call's begin and its
return the abstract cursor stays where JavaScript last saw it. The merging iterator is
one sorted list: a real merge may step past an entry inserted between where it and
one of its children stand, but such an entry is newer than the iterator.
`rocksdb_iterator_reset` calls `Cleanable::Reset`, which has nothing registered to run.
A `Careful` program of `Cursor` does not refresh across a DeleteRange.
`NoneAssumption` says that the value standing for "the inner iterator is not valid" is no entry.

**WriteThread.** A writer is a thread inside `db->Write`, its `Writer` on its stack.
`queue` is the list from `newest_writer_` along `link_older`, `newer` is `link_newer`, kept
apart because `CreateMissingNewerLinks` fills it in late and `BeginWriteStall` does not
maintain it; `stalled` says that `newest_writer_` is the dummy. `state`, `status` and `group`
are the fields of `Writer` and `WriteGroup` (`st` is the leader's local status, `ok`
`WriteGroup::status`). The actions follow one writer: `Join` (`LinkOne`), `Preprocess`,
`Refuse`, `BeginStall`, `EndStall` (`PreprocessWrite`, `DelayWrite`), `Enter`
(`EnterAsBatchGroupLeader`), `AppendRecord`/`AppendFails`, `Sync`/`SyncFails`
(`WriteToWAL`), `InsertAlone`, or `Launch`, `InsertOwn` and `Complete` for a parallel
group, `Publish` (`SetLastSequence` and the two status checks), `Handoff`, `Release`,
`Leave`, `Return`. `Crash` and `Abort` stop the process; `Restart` is
`RecoverLogFiles` in `kPointInTimeRecovery`, the default, over what is left of the log.
`mayBeLost` remembers the batches that no promise covers, for `OkIsKept` only. The
assertion of `CreateMissingNewerLinks` is a guard (`LinksAgree`) of `Enter` and
`Handoff`: a program that breaks it goes no further, which `EveryWriterLeaves` would
notice. A `Careful` program of `WriteThread` has at most two writers at a time when it
mixes `no_slowdown` with patient ones. One batch per writer and one number per batch;
the limit on the size of a group is a nondeterministic cut.

Both binding modules are parameterised by `Careful`, the precautions the
JavaScript program takes, since the binding itself protects little:

| | precaution | module |
|---|---|---|
| `sync` | do not modify the batch or options of a pending write | AsyncWrites |
| `hold` | keep both reachable until the promise settles | AsyncWrites |
| `await` | close only when no write is pending | AsyncWrites |
| `open` | call a database function only while it is open | ReadHandles |
| `pin` | keep reachable what a reachable read options or iterator points at | ReadHandles |
| `drain` | close only once iterators are finalized | ReadHandles |

So each safety property is of the form "a program that does this much is safe",
and the theorems say which precaution each one needs. Where a document
promises the program more, there is a run that shows the violation. The guard
`~closed` on writes in `AsyncWrites` is the same assumption as `open`. When a
thread would follow a freed pointer or a closed database the C++ behaviour is
undefined: `Defined` stops the model there, and the invariants flag the state
before the step. A careful program never reaches such a state.

Abstractions shared by all: one database, one column family, keys and values
without bytes, puts and deletions (range deletions in `Cursor` only; no merges, single
deletions, time-to-live or filters), no I/O errors except the log append or sync that
fails and the block the cache does not have, one flush and one compaction at a time.

## 4. Runs

| Run | Instance | Question |
|---|---|---|
| `async_writes` | 2 writes, 2 batches, 1 options, 2 threads, 1 update per batch, 1 synchronous write | all safety properties of `AsyncWrites`, careful client |
| `async_liveness` | 2 writes, 1 batch | does every promise settle |
| `close_under_write` | 1 write, without `await` | does close wait for writes, as the documents say (it does not) |
| `read_handles` | 2 snapshots, read options, iterator, slice, Buffer, numbers to 2 | all safety properties of `ReadHandles`, careful client |
| `closed_db_leaks` | 1 snapshot, read options, iterator | is a closed and forgotten database freed (it is not) |
| `mvcc_snapshots` | 1 key, 2 snapshots, 3 updates, 3 memtables | refinement, order of the levels, zeroed numbers |
| `mvcc_batches` | 2 keys, snapshot and iterator, 2 updates, 3 memtables, a pool thread that writes between and during gets | refinement with batches published during reads, and with iterators |
| `iterator_race` | 1 key, 1 iterator, writes by a pool thread during every call | does an iterator show a state there was (it does not) |
| `cursor` | 2 keys, 3 writes or range deletions, 1 compaction, 4 read options | refinement, position and direction, the zero-number shortcut, every call returns |
| `refresh_after_delete_range` | 2 writes | does a refreshed iterator show the latest state (it does not) |
| `write_groups` | 3 writers in 4 mixes of kinds, 1 stall, 1 failure, 1 crash | one leader, no freed pointer, links that agree, unique numbers, log and memtable agree or stop, OK is kept, every writer leaves |
| `stall_links` | 4 writers, 1 stall | are the links the assertion speaks of right (they are not) |

Why the bounds are enough for what they look for. Two writes make one overtake the
other in the pool and share a batch; two batches make them differ; one
synchronous write between them exercises the write group. Two snapshots give every
relative order of taking and releasing, and three numbers put a compacted-away
state between two kept ones. In `Mvcc`, three updates of one key give a newest,
a hidden and a snapshot-protected version at once, three memtables give a flush
during a compaction and a compaction that has a run above and one below it; two
keys make a batch that could show half, and give the key ranges of
`KeyNotExistsBeyondOutputLevel`. In `Cursor`, three writes put a visible, an older and
a newer entry on one key, or a tombstone between them, or hidden entries of both keys
on either side of a turn; a compaction gives entries with number 0 and a
SuperVersion to refresh to; the options put 0 and 1 in `maxSkip`, so that every
reseek happens, and have each bound, each limit and a cache that misses. In `WriteThread`, three
writers are a leader, a follower, and one that links itself behind them while they
write; the mixes put a synced write behind an unsynced one, a logged one behind an unlogged
one, a broken batch in a group and a stall in front of impatient writers. Snapshots (and writes' handles) are symmetric in the safety
runs; the liveness runs use no symmetry.

Deadlock is checked in `cursor`, where a program can always seek again. The other
models stop when their bounded handles, writers and counters are used up, which is the bound
and not the code; that no writer is stuck is `EveryWriterLeaves`.

Fairness. `async_liveness` assumes weak fairness of the pool (`Pool`) and of the
event loop (`EventLoop`): libuv's threads run whatever is queued, and the loop
turns while work is pending because it is an active request. Nothing is assumed
of the program, which may start no write, nor of the collector.
`cursor` assumes that a loop of `DBIter` that can take a step does, and nothing of the
program or of the pool thread that writes meanwhile. `write_groups` assumes weak
fairness of each writer's thread (`Step(w)`, which includes the end of its stall:
`NeedsDelay` ends with the compaction that caused it) and that a process whose assertion
failed is gone; nothing is assumed of arrivals, failures and crashes.
`closed_db_leaks` grants the collector and teardown fairness for each handle, so the
database stays allocated although the collector runs.

What the properties of the runs say is stated before each in the modules. Every
property of a passing run is paired in `PROJECT.json` with a mutant: an operator
of the module (marked *Mutant*) that changes a mapped definition the way a bug
would, under which TLC reports the property violated.

Disagreements the runs document:

- `close_under_write`: `rocksdb_close` (`binding.cc` 557) closes at once;
  `UPGRADING.md` line 51 says close waits for pending operations.
- `closed_db_leaks`: the reference of `rocksdb_open` (539) is deleted only in the
  finalizer it holds off (489); `db.h` line 240 says the DB must be freed.
- `iterator_race`: `NewIterator` (`db_impl.cc` 2346) and `Refresh` read the number
  before the SuperVersion, the order the comment at 1508 explains to be wrong.
  Reachable through `rocksdb_batch_write_async`: the pool thread writes while the
  JavaScript thread is inside `rocksdb_iterator_init`. In `mvcc_batches` the pool therefore
  writes between calls and during gets, not while an iterator is made or refreshed.
- `refresh_after_delete_range`: `Refresh` (`arena_wrapped_db_iter.cc` 82) moves the number
  but keeps the range tombstones; `iterator.h` 90 says it renews the iterator to the
  latest state. `cursor` therefore has a program that does not refresh across a DeleteRange.
- `stall_links`: `BeginWriteStall` (`write_thread.cc` 346) unlinks `no_slowdown` writers from
  `link_older` only; the assertion at 286 says that the links agree. Reachable with
  `rocksdb_write_options_set_no_slowdown` on some writes and not on others.

## 5. Theorems

Proved with TLAPS for every value of the constants that satisfies the named
assumptions of the modules.

*AsyncWrites_proof.* The inductive invariant `IInv` is `TypeOK`, `OnePlace`, `PendingAlive`
and `Protected`. The properties alone are not inductive: that a promise outlives
its work needs that queued, executing and completed work is always pending, hence
rooted, and that needs that a write is never in two of the three places and that no queue
holds it twice, since otherwise `Finish` for one place would settle, and the
collector free, the promise another place still points at. `Protected` ties a
pending write to what the client promised. From `Invariance`: `TypeCorrect`,
`PromiseSafe` (whatever the client does), `ArgumentsSafe` (from `hold`), `CloseSafe`
(from `await`), `SettledOnce`. What the writes do to the data needs `Told` besides: a pending write
still points at what was submitted (`Undisturbed`, from `sync`), the log replays to the memtables or is one
record ahead of them (`LogOK`), and the flag `Finish` will settle from says how often the batch is in the
memtables (`OutcomeOK`). From it, and `sync`: `PromisesTellTheTruth` (`SettledTellsTheTruth`) and `LogReplays`
(`LogMatchesMemtables`).

*ReadHandles_proof.* The inductive invariant adds to the properties that reachable
handles are alive (`Reachable`), that an open database has its reference while
the environment runs (`Referenced`), that compaction never gets at the current
number, which the next snapshot takes (`Numbered`), and that the pointers of a
reachable handle lead to reachable handles (`Pinned`, one pointer at a time, from
which `NothingDangles` follows over two). It yields `SnapshotsExact` and
`SnapshotsStay` (`SnapshotsReadable`), whatever the client does, `SnapshotFinalizerSafe` (from
`open`), `IteratorsSafe` (from `open` and `drain`), and from `pin` `ReadsSafe` and `ReadsAsSet`
(`ReadsAsOfSnapshot`). `FinalizedAlone` is the step the argument turns
on: the collector cannot pick the database, and teardown picks it last.

*Versions_proof.* `RewriteIsInvisible`: take the entries E a flush or a compaction
rewrites, the older entries O of the runs below, and the snapshots S the job listed, related as `Job`
says (no two versions of a key share a number, what the job is told about the runs below is true); then every
lookup at the number of a snapshot in S, or at a number that E does not exceed,
finds the same value in `Rewrite(E)` with O as in E with O. The argument follows the
version the lookup finds: it is not hidden from that reader, so either it is kept or it is a
deletion whose drop exposes nothing older. `Levels_proof` and `Mvcc_proof` carry this
fact from one job to the running engine.

*Levels_proof.* A SuperVersion is a stack of levels (mutable memtable, immutable memtables,
runs), and reads stop at the first level that has something. `Sound` says what makes that
right: entries of a key are younger in higher levels, and no two have the same number. The
theorems say, for stacks of any depth, what each thing the engine does to one preserves and who
can tell: inserting an update on top (`ToppedSound`, `ToppedInvisible`), publishing a batch
(`PublishedUntouched`, `PublishedLast`), a new memtable (`PushedSound`), and replacing any
stretch of levels by its rewritten contents, which is both flush and compaction
(`SplicedSound`, `SplicedInvisible`). `FirstLevelDecides` is why `Get` may stop early.

*Mvcc_proof.* For any set of keys, snapshots, iterators and batches, and any bounds. `LevelsOrdered`
is not inductive: it speaks of the current SuperVersion only, while a reader holds an
older one whose memtable is still written to, and a flush or compaction puts back in its place
what it picked before other jobs and switches went by. `Inv` adds that every SuperVersion somebody holds
is sound (`Good`: also that only its mutable memtable can have entries above the published number, and these
are the updates of the running batch done so far, `WriterOK`), that what a job picked is still where it was, and that every
snapshot there is was either listed by the job or taken later, at a number not below all it picked (`FlushOK`,
`CompactionOK`): a snapshot taken in the middle of a job is safe for that reason and no other.
From `Invariance`: `Types` (`TypeOK`), `LevelsStayOrdered` (`LevelsOrdered`), `ZeroIsNoDeletion`
(`NoDeletionGetsZero`). `GoodFlushed` and `GoodCompacted` are the two installs, `PublishedView` that a batch
appears whole, `CurrentViews` that nothing else changes the map shown at the published number or at a snapshot.

`Refines` (`ImplementsKVStore`) has one lemma per abstract step (`Seen...`) and one that every other
step is a stutter. What the abstract `Get` returns must be a map of the time of the call, so the
refinement needs `AnswersOK` besides `Inv`: what the SuperVersion and number that a running call holds
show is among the maps since the call began, also if it has only one of the two yet. The
hypothesis is `NoWriteWhileMaking`: the pool writes between calls and during gets, not while an
iterator is made or refreshed. The binding does not see to that, its user has to; without it the
claim is false (`iterator_race`), and `mvcc_snapshots` and `mvcc_batches` satisfy it. Under the
same hypothesis `IteratorsShowTheirTime` proves what `iterator_race` violates.

*WriteThread_proof.* For any finite set of writers and any bounds on stalls, failures and
crashes, under one hypothesis, `Uniform`: the program does not mix `no_slowdown` writes with
patient ones. Without it the links do go wrong (`stall_links`), since only then does
`BeginWriteStall` take writers out of the middle of the queue; what a `Careful` program that
mixes them two at a time may rely on is left to `write_groups`. None of the properties is
inductive alone: which links are made and who waits depends on where the group in front is.
`IInv` says what the queue looks like at every point: a writer is in it once and at most the front of it is not waiting (`QueueOK`, `HeadOK`); the links made so far start at
the front and lead to the next writer (`LinksOK`); a writer is in one group ever, and a group any of
which is still in the queue is the front of it (`GroupsOK`); `running` counts those that have not
finished inserting (`CountOK`), so that the one that finds 1 is the last and takes over what
the leader had (`TokenOK`); those a leaving group has not told yet still wait (`ReleaseOK`).
There is one lemma for each kind of step, on the queue alone (`HolderMoves` for the ten
that only move the leader on, `JoinKeeps`, `EnterKeeps`, `LaunchKeeps`, `InsertOwnKeeps`,
`CompleteKeeps`, `HandoffKeeps`, `TellKeeps`, `OutsiderKeeps`, `RestartKeeps`); `ShapeStep`
and `TypeStep` bring the actions to them. From `Invariance`: `TypeCorrect`, `LeadersExclude`
(`OneLeader`), `LinksSafe` (`LinkedRight`) and `StacksSafe` (`NothingFreed`).

*Durability_proof.* What those writers leave behind, under the same hypothesis, by an invariant `Data`
beside `IInv`. A group is *in hand* (`InHand`) from its record, or from the queue if it needs none, to
`SetLastSequence`; the database is `Doomed` when it has stopped, or when whoever is about to publish has an
error to report. Meanwhile the properties do not hold, and `Data` says by how much: the numbers above
`lastSeq` that are taken are those of the group in hand, each at its place (`NumOK`); what is logged and not
applied is of that group (`SameOK`); a record that does not replay is the last one, and that group's
(`WholeOK`); unless the database is doomed, after which the next group gets an error before it appends. That a doomed
database cannot lose what an earlier group was told is why `WholeOK` speaks of the last record only:
a torn or broken record is never followed by another. `HandOK` and `InsertOK` follow a group
from step to step (its record, what is synced, its numbers, who has inserted), so that who
publishes without an error knows that all members are applied and that the record is whole (`FineGroup`);
`FitOK` is why the leader's sync covers its followers. `KeptOK` states the promise from
the moment of publishing, when nobody has been told yet, to the end: applied, published, and in a
file, or in a whole record (synced if the write was), or without a log. `Restarted` shows that a
replay brings all of that back: every whole record before the point the log was cut at. From
`DataInvariance`: `NumbersStayUnique` (`NumbersUnique`), `DivergenceIsStopped` (`DivergenceStops`) and
`OkStays` (`OkIsKept`).

*Cursor_proof.* For any keys, read options, ranges to delete and bounds. Nothing the runs check is
inductive: all of it speaks of a cursor at rest or of one loop, and what a loop finds depends on where the one
before it stopped. The invariant has a part for each place a call can be in. `Position` is about the
entry alone: forwards, whatever the iterator can see of the entry's own key before it was passed over as a
repetition (`FindAt`), and the saved key lies behind an entry with number 0; backwards, nothing
visible below the saved key has been passed (`BackAt`), the property `Stands` hands to the next
call. It is stable because an entry that a pool thread inserts meanwhile is newer than the iterator, so
not visible (`PositionStays`). From `LoopInvariance`: `CursorTypes` (`TypeOK`), `ZeroEndsItsKey`
(`ZeroIsTheLast`), and `DirectionsAgree` (`PositionMatchesDirection`), whatever the program does.

`Data` adds what the entries mean. `Faithful` says that the entries and tombstones of the
current SuperVersion stand for the log, and those the iterator uses for the log up to its number
(`Represents`, key by key: the newest visible version is live and has the value, or there is none). Writes,
range deletions and a compaction keep it: a write decides about its keys alone (`LastDecides`, `PastStays`), and what
`Rewrite` leaves of a key without snapshots is its newest version (`CompactKeeps`). Then a call makes progress without
loss: with `Wanted` the keys of the map that it may lead to, nothing wanted is behind the entry
(`FindData`, `PrevData`), `FindValueForCurrentKey` knows the newest version it has passed (`ValueData`), and
a call that ends has ended at the first wanted key in its direction, at none when none is wanted, or with a status (`EndData`).
The seek that replaces many steps is right for the same reason: it passes only versions of a key
already shown, or newer than the iterator (`WantedAhead`). `CursorInvariance` and
`CursorImplementsSorted` (`ImplementsSortedCursor`: one lemma per abstract step, the loops and the database stutter)
need the hypothesis `Careful`, that the program does not refresh across a DeleteRange: `RefreshInPlace` would
otherwise move the number past tombstones the iterator does not have (`refresh_after_delete_range`).

Only model-checked: the liveness properties `EveryWriteSettles`, `CallsReturn` and `EveryWriterLeaves`
(fairness is outside the prover's reach). Every other property of a passing run is proved, under
the hypotheses named above; what a `Careful` program of `WriteThread` that mixes `no_slowdown` with
patient writes may rely on is left to the run `write_groups`.

## 6. Not modelled

- Several logs, their switch and deletion after a flush, the format of records, and the
  recovery modes other than the default.
- Pipelined and unordered writes and the second write queue, which the binding's options can
  switch on by name; groups that insert without concurrency (`allow_concurrent_memtable_write`
  off, or merges); `EnterUnbatched`; recovery from a full disk without reopening; how
  a waiting writer sleeps (`AwaitState` and `SetState` are a guard and an assignment).
- Of the cursor: merge operands, prefix seeks, tailing iterators, `iter_start_seqnum`,
  `ignore_range_deletions`, the iterators that only report an error.
- The environment going down while asynchronous work runs: Node decides what it
  calls, and the binding ignores the status `Finish` is given.
- Destroy, repair, and the snapshot list's pointers, which change only under the mutex.
- `ROCKSDB_STATUS_THROWS` throws without returning, so a function goes on after a
  failed call. After a failed open (`binding.cc` 528) it asks Node for a handle on a null
  database, which Node refuses while an exception is pending; the `ReferenceContainer` is lost.
- The status a scan ends with: the generator of `main.ts` (20-30) takes an invalid
  iterator for the end and does not look at it.
- At teardown Node runs the remaining finalizers from its list, newest first;
  `RunTeardownFinalizer` takes from it that the database, the oldest handle, comes
  after the snapshots and iterators made from it.
- Getters, other options, the logger, string encodings, the experiments with other
  binding generators, and the rest of the vendored engine and libraries.
