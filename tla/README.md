# A TLA+ verification of f4kvs-lsm

f4kvs-lsm is an asynchronous LSM-tree key-value engine (`crates/f4kvs-lsm`) behind
the `StorageEngine` trait of `crates/f4kvs-storage-core`. This directory holds TLA+
modules for its write path, its sequence numbers, its compaction, its three
write-ahead logs with group commit, its SSTable reader and block cache, its scans and
counters, and its column families, the configurations that check them with TLC, and
theorems checked by TLAPS. `PROJECT.json` lists components, runs, mutants, theorems and hazards, and
maps every definition to the lines it models.

    tlc -workers 2 -config write_path.cfg MCWritePath
    tlapm WritePathProofs.tla

Paths below are relative to `src/crates/f4kvs-lsm/src/`.

## 1. Inventory

| Component | State | Operations | Hard behaviour |
|---|---|---|---|
| Write path, `core/engine.rs`, `storage/memtable.rs` | `operation_guard`, `active_memtable`, `immutable_memtables`, `wal_manager`, level 0 | put, delete, batch_put, put_with_ttl, get, flush, compact, shutdown | every await is an interleaving point; an index taken under a lock is used after it was dropped; the WAL is truncated by whoever flushes; crashes; failing writes |
| Sequence numbers, `core/engine.rs` | `sequence_number`, the SEQUENCE file, L0 file names, entry timestamps | naming and stamping in a flush, `persist_sequence_high_water`, `load_existing_sstables` | rebuilt after a crash from names, counts and SEQUENCE, while compaction removes the names |
| Compaction, `compaction/manager.rs`, lookups in `core/engine.rs`, pins in `storage/sstable.rs` | the level map, `compacting`, deletion marks, reader pins, files | `compact_if_needed`, `compact_all`, reclaim, `get_from_sstables`, load at restart | snapshot, merge, install, reclaim with no lock over them; timeouts; tombstones; ghosts after a crash |
| Segmented WAL, `storage/wal.rs`, `recover_from_wal` | segment files, `segments`, `current_segment`, `segment_counter`, checkpoint records | append, rotate, truncate, age and count cleanup, scan, reuse, replay | crash between two removals; torn records; records larger than a segment; clock in seconds |
| Group commit, `storage/wal_group_commit.rs`, `start_group_commit` of `wal.rs` and `wal_frame.rs` | pending queue with timing, `commit_notify`, the background task, one channel per entry | enqueue, wait, timer, wake-up, flush of the queue | acknowledgement before the log; timer against notification; three parties take the queue |
| Frame WAL, `storage/wal_frame.rs`, `wal_handle.rs` | frame files, `current_segment`, `segments`, `segment_counter` | write, batch, rotate, flush, truncate, clean shutdown, cleanup, replay | two tasks rotate; the counter is incremented outside the lock |
| Indexed WAL, `storage/wal_indexed.rs`, `wal_index.rs`, `wal_sync.rs` | staging buffer, frames, segments, double-buffered `wal.idx` | append, flush frame, rotate, checkpoint, truncate, resume | index and frames are synced separately |
| SSTable format and reader, `storage/sstable.rs`, `flat_index.rs`, `file_reader.rs`; bloom filter | blocks, index, filter; per handle: descriptor, `index_loaded`, `decompressed_block`, `reader_count`, mark | write, get, synchronous get, scan, index warm-up, read for compaction, open and evict handles, close, delete | clones share part of their state; a handle is closed, marked or unlinked under a reader |
| Block cache, `storage/block_cache.rs` | blocks, `access_order`, `current_size` | get, put, evict | two tasks put one block; a block larger than the cache |
| Scans, cursor, key counter, clear, `core/engine.rs`, `storage/memtable.rs` | `live_key_count`, cursor heads with positions | put effects, keys, scan_prefix, scan_range(_limit), scan_all, scan_*_with_values, prefix_scan_next, count, clear, recover_from_corruption | layers are visited one after the other while flush and compaction move keys between them |
| Column families | the map `column_families`; keys "name#key" | create, drop, *_cf calls | one map for all families; range ends at the end of a family |
| TTL | expiry times | *_with_ttl | TTL writes take no guard |
| Adaptive compaction, configuration, statistics, values and errors, storage-core helpers, benchmarks | plain data | - | none, or floating-point heuristics |

How they interact. A put takes `operation_guard.read()`, appends to the WAL under
`wal_manager.write()`, drops that lock, updates the active memtable under its own
lock, drops the guard, and may find the memtable full. It then swaps the memtable
into the immutable list, clones it, stamps its entries from `sequence_number`,
writes an L0 file, persists SEQUENCE, publishes the file to the level map and removes
the memtable from the list. `flush()` and `compact()` do the same under
`operation_guard.write()`; `flush()` then truncates the WAL. Compactions run beside
all this: they take a snapshot of the level map, write new files with no lock, and
install them under the map's write lock. A restart loads every SSTable in the data
directory and replays the WAL on top.

What makes each part correct:

- write path: a read, and a restart at any instant, gives back every acknowledged
  write or a newer one; the WAL is never truncated under a running write; calls end;
- sequence numbers: timestamp order is flush order, across crashes; no file is
  overwritten;
- compaction: no value changes, no live or pinned file is removed, a crash at any
  step changes no value;
- WAL: what was acknowledged is replayed, in order, and never overwritten; what was
  queued is written and its caller answered;
- SSTable reader: a call returns what was written to the file, whatever is evicted,
  loaded, marked or unlinked beside it; pins are balanced;
- scans and counter: no live key is missed, no value returned that a get would not
  have; the counter does not fall behind the live keys;
- column families: what is put in one family is seen in that one only.

The 40 hazards of `PROJECT.json` name the lines at which each of these can go wrong.

## 2. Modules

| Module | Models | Used by |
|---|---|---|
| `WritePath` | operations, memtables, flush pipeline, guard, get, crash | `MCWritePath` |
| `WritePathInv` | `SafeUse` and the other conditions of use, the inductive invariants of reads and recovery, of the refinement and of failing writes | `WritePathProofs` |
| `KVStore` | what the trait promises: a map, with writes that take effect once | `WritePathKV` |
| `WritePathKV` | the refinement mapping from `WritePath` to `KVStore` | `MCWritePath` |
| `Sequencer` | counter, names, stamps, SEQUENCE | run directly |
| `Compaction` | levels, two kinds of compaction, reclaim, pins, get, restart | run directly |
| `WalSegments` | segments, replay, truncation, cleanup, restart | run directly |
| `IndexedWal` | the indexed log: frames, `wal.idx`, resume, replay | run directly |
| `GroupCommit` | queue, timing, wake-ups, background task | extended by `FrameWal` |
| `FrameWal` | the frame log, who writes the queue, engine calls on the log | run directly |
| `Sizes` | sums of sizes, counted as bytes | extended by `SstableFormat` and `BlockCache` |
| `SstableFormat` | what is written to a file, index search, bloom filter | extended by `SstableRead` |
| `BlockCache` | the LRU cache as a value | extended by `SstableRead` |
| `SstableRead` | handles, clones, pins, eviction, reads, reclaim | `MCSstableRead` |
| `Layers` | cells of a layer, lookups in a list of layers | extended by `EngineApi` and `ColumnFamilies` |
| `EngineApi` | key counter, scans, cursor, clear over all layers | `MCEngineApi` |
| `ColumnFamilies` | families as key prefixes over a memtable and two levels | `MCColumnFamilies` |
| `*Proofs` | the theorems of section 4 | TLAPS |

### WritePath

One action per step between two awaits at which another task can run.
`Begin` takes the shared guard (put_with_ttl does not). `LogItem` writes one record; a
batch keeps `wal_manager` until its last. `ApplyItem` updates one key; a batch takes the
memtable lock anew for each item. `CheckFull`, `Swap`, `Clone`, `WriteFile`,
`Publish` and `Remove` are the flush pipeline, with the index taken at the swap in
`slot`. `QueueExclusive` and `AcquireExclusive` are the guard's writer side: tokio's
lock is fair, so a queued writer keeps new readers out. `Truncate` ends flush() and
shutdown(), `SkipTruncate` ends compact(). `GetActive`, `GetImm` and `GetSst` are the three
lookups of a get. `LogFails` and `FlushFails` are I/O errors. `CrashRestart` keeps the
log and the files. `wal[k]` is the last record of a key, all that replay keeps of the
log. Sizes are abstract: any client in `Flushers` may find a non-empty memtable full.
`before[o]` records which operations had ended when `o` began; `Fresh` uses it to say
that an answer is no older than what was acknowledged, without assuming an order
between concurrent writes. A delete is an operation like a put: what it writes is a
tombstone, and the read of a tombstone is the read of that operation.

### KVStore

`kv` maps a key to the write a get returns. A write takes effect key by key between
its call and its return (batch_put is not atomic in the code and not here); a crash
keeps what has taken effect and may complete keys of interrupted writes, because
their records may be in the log. `WritePathKV` maps `kv` to what an uninterrupted
lookup finds. The claim is for keys that one client writes at a time: see
`racing_puts_and_crash` below for why.

### Sequencer

`TakeName` and `Stamp` are the fetch_adds of a flush one by one. `LoadHighWater` and `Persist`
are the two halves of `persist_sequence_high_water`, whose failure is only
logged (`PersistFails`). `Compact` removes files whose names carry a
sequence and leaves their stamps in `merged`. `CrashRestart` may leave the file under
way torn and rebuilds the counter as the code does: past every name, past name + count
of every file that opens, not below SEQUENCE, and writes SEQUENCE anew.

### Compaction

A file is its level and an entry per key: a timestamp and a tombstone flag.
`AutoSnapshot`/`ManualSnapshot`, `Merge`, `Install`, `Mark`, `Unlink`, `Reclaimed` are the
steps of `compact_if_needed` and `compact_all`; `MergeAborts`, `MergeFails` and
`InstallTimesOut` are their error paths. Outputs are cut at any keys, which stands
for all target sizes. `GetStart`, `GetPin`, `GetRead` and `GetNextLevel` are
`get_from_sstables` with its candidate indices and pins. `CrashRestart` loads every file
in the directory, level 0 in any order (read_dir), level 1 sorted. Bloom filters are
taken to be exact, which loses nothing: a false positive adds a file without the key.
`compact_if_needed` rewrites a level in place, as in the code: only `compact_all` fills
level 1. The install of compact_if_needed appends outputs and concurrent flushes to the
level; a level above 0 is sorted by compact_all only.

### WalSegments

Segment size is counted in records. `AppendRecords` covers `write_entry` and
`batch_write_entries` with their rotation. `WriteHuge` is a record larger than a
segment, `WriteFails` and `RotateFails` are I/O errors. `Close`, `RemoveFile`, `Renew` and
`TruncateFails` are `truncate_after_flush`; `Clean`, `ForceCleanup` and `SkipFile` the
background cleanup. `Crash` may leave the record of an unacknowledged write or a torn
one. `Replayed` follows `recover_from_wal`: records up to the first that does not
parse, the checkpoint filter in whole seconds, stable sort by timestamp over segment
id and place. `CrashIn` says at which program points a crash may happen.

### IndexedWal

Calls hold `wal_manager`, so one runs at a time; the steps are its I/O steps, each of
which may fail or be the last before a crash. `Call` gives the entries of a put or a
batch, `FlushFirst`, `Full` and `Stage` decide for the next one as `append_entry` and
`append_entries_batch` do, `WriteFrame` and `CommitIndex` are `flush_staging` and
`commit_frame`, `RotateDir` and `RotateHeader` are `rotate_segment`, and `WipeCurrent`,
`WipeDir` and `WipeIndex` are `truncate_after_flush`. `Partial` lists what an
unfinished write leaves of a frame file. `slots` is wal.idx as the process sees it and
`maybe` what a power loss may leave of it, since `commit_volatile` does not sync.
`Limit` and `Decoded` follow the reader, which cuts the last frame of the active
segment at the offset in wal.idx. The in-memory `latest` of the index equals the newer
slot and is not kept apart. Not modelled: age cleanup, `mark_clean_shutdown`, and
removals that fail (the code ignores their errors).

### GroupCommit and FrameWal

`GroupCommit` is the loop of the background task: `TaskLook` computes the deadline,
`TaskTimer` and `TaskNotified` are the two arms of its select, `TaskCount` looks whether
the batch is full. Durations are not kept: an armed timer may fire at any moment, and
does if it stays armed. In `FrameWal` the caller is whoever holds `wal_manager` (puts
hold it for writing, also while they wait for durability) and the committer is the
background task; every critical section on `current_segment` or the queue is a step.
`Put`, `PutEnqueue`, `PutNotify`, `PutAwait` are the queued write, `BatchPut` and `WriteOwn`
the direct ones, `Take`, `Check`, `NoRoom`, `Write`, `Rotate`, `Bump` are `flush_pending` and
`batch_write_entries` for either process. flush(), flush_wal(), shutdown() and the
checkpoint are lists of steps (`plan`) of the caller. `Fail` returns an error to whoever
waits for it; shutdown_background_tasks only logs it. `past` records circumstances in
which the code is known to lose writes, so that one run can contain them and still
state the property outside them (constant `Exempt`): `nowait` (calls return after the
enqueue, as config.rs says), `torn` (a torn record hides its whole file from
`read_entries`), `wipe` (a crash or error between two removals of a truncation),
`shutdown` (a checkpoint that was written and not truncated hides writes of its second)
and `cleanup` (segments removed by age or number).

### SstableFormat, BlockCache and SstableRead

`Places` packs entries into blocks as `write_entries` does, `IndexGet` is the partition
point search, `MightContain` the filter for any hash functions. `SstableRead` reads it
back. `BeginGet` takes a clone under the lock of the live map in two steps (`CloneFlag`:
the index first, then its flag) and pins it; `BeginSync` and `BeginScan` work on the handle
in the map; `BeginAll` is the unpinned read of a compaction. `Count`, `Evict` and `Open` are
`ensure_sstable_open` with max_open_files, `LockIndex`, `Load`, `SetLoaded` the loading of
the index, `FromLastBlock`, `FromCache`, `FromFile` the three places an entry may come from.
`ReadFails` retries as configured. `Install`, `Mark`, `Wait`, `Close`, `RemoveFile` are the
compaction's side. Read mode PositionedRead only. The model follows the code in that
index_start ignores load errors, scans skip entries they cannot read, and the
synchronous get and scans do not enforce max_open_files.

### EngineApi

Each layer maps keys to cells: a write's number, negative for its tombstone (`Layers`).
`Init` finds files of an earlier session, level 0 listed in any order, as read_dir gives
them; gets go by the stamps, the merging scans by the list (`NewestHit`, `LastHit`). `seen`
records what gets returned while a scan ran, so that a scan's answer can be compared
with them. Writers take `Write`, `PutItem`/`DeleteLook`/`DeleteItem` and the counting steps
one by one; `Swap`, `Publish`, `RemoveImm` is one flush at a time; `ClearActive` ...
`ClearCount` and `RecoverWal`, `RecoverImm` are the steps of clear() and
recover_from_corruption(). `ScanActive`, `ScanImm`, `ScanSst` visit the layers downwards,
`MergeSst`, `MergeImm`, `MergeActive` upwards, `Cursor*` are one call of a resumable
cursor: prefix_scan_next, scan_next, which seeks anew on every call, or
try_prefix_scan_next_n_sync, which collects a `batch`. `TryFails` is a try_read of the
latter that finds a lock taken: the call returns None, its batch is gone, and the caller
goes on with prefix_scan_next and the same cursor, as its doc says. `HoldsImm` is the lock on the immutable list that some scans keep over their
SSTable part. `calm` and `exact` are history: whether write calls were ever overlapped,
and whether the counter began exact (the open estimates it). Of a scan, `moved` says that
entries left a place it had yet to look at, `shadow` that it found a key in level 0 and
level 1, `jumbled` that it found level 0 out of the order of the stamps, `dropped` that a
batch was lost. A workload of
`MCEngineApi` picks the calls and the files found at open.

### ColumnFamilies

Strings are sequences of numbers, since the property is about the encoding.
`Prefixed` is `name#key`, `ExclusiveRangeEnd` the successor that range scans use as
their end, `Unprefixed` what is cut off results. create and drop take `&mut self`, so a
call is one step. The map of families is not persisted: after `Restart` only the
default one is known, and the others show their old keys when created again.
Below the families are a memtable, the files of level 0 and a level 1, because the scans
they wrap answer layer by layer: `ScanPrefix` lists every key in the index of a file,
deleted ones included, `ScanRange` the keys that are live in any layer,
`ScanRangeLimit` joins the layers' lists, repeated keys included, and cuts them off, and
`Merged` goes by the order of the list. `*Cf` is what the family calls make of it. `truth`
holds what was put last in each family, `past` every cell that was written in it.

## 3. Runs

All passing runs explore their state space completely.

| Run | Properties | What it shows |
|---|---|---|
| `write_path` | `TypeOK`, `ReadsSeeAckedWrites`, `AckedWritesAreDurable`, `GetIsNeverStale`, `TruncateWaitsForWriters`, `ImplementsKVStore` | Two clients (one of which fills memtables and writes a key twice), flush(), compact(), one get and a crash, interleaved at every await: reads and recovery never lose or age an acknowledged write, and the whole refines the map that the StorageEngine trait promises. |
| `write_path_faults` | `AckedKeysStayReadable` | With failing SSTable and WAL writes, shutdown() and put_with_ttl beside a batch and other calls, an acknowledged key stays readable. |
| `write_path_live` | `CallsReturn` | Under fair scheduling every call that has begun returns, and flush() gets the exclusive guard although gets keep taking the shared one. |
| `sequencer` | `TypeOK`, `RestartStaysAhead`, `FlushIsNewest`, `FlushNeverOverwrites` | One flush at a time, with crashes, torn files, failed opens, a failed write of SEQUENCE and compactions: the counter never restarts below a stamp that is on disk, timestamp order is flush order, and no flush writes over a file. |
| `compaction` | `TypeOK`, `LiveFilesOnDisk`, `PinnedFilesOnDisk`, `RestartIsInvisible`, `CompactionIsInvisible` | Three mixes of tasks: compact_if_needed alone and compact_all alone, with tombstones and flushes during their I/O, change no value that a get returns, and a crash at any step of the former, between two unlinks included, would change none; both together with a get, a failure and a crash unlink no file that is live or pinned. |
| `wal_recovery` | `AckedWritesRecovered` | Writes, batches, rotations, flushes and two crashes outside a truncation: replay gives back every acknowledged write. |
| `wal_segments` | `TypeOK`, `CurrentStartsEmpty` | All faults together (failed writes, rotations and removals, the cleanup task, values larger than a segment, crashes anywhere): the segment bookkeeping stays consistent with the files and no segment with records is started anew. |
| `indexed_wal` | `TypeOK`, `StagingHasRoom`, `AckedWritesRecovered`, `OnlyCopyIsKept` | Puts, batches, entries larger than a frame, rotations, flushes, an I/O error and two process crashes outside the wipe of a truncation: staged entries always have a frame, no restart resumes over an acknowledged frame, and replay gives back every acknowledged write. |
| `frame_wal` | `AckedWritesRecovered`, `NoAckedWriteVanishes`, `CallsReturn`, `QueueDrains` | Group commit with and without waiting and direct writes to the frame log, beside its background task, rotations, flush(), flush_wal(), shutdown(), the cleanup task, an I/O error and a crash: what was acknowledged after it was durable is replayed, what was accepted is never dropped on its way to a file, every call returns and the queue drains. |
| `sstable_read` | `LookupIsFaithful`, `PinsBalance`, `CacheStaysConsistent` | Gets, synchronous gets, scans, the index warm-up and the read of a compaction on two files, beside eviction of file handles, an I/O error, install and reclaim: a call returns exactly what the writer put into the file, pins are given back on every path, and the shared block cache can always evict. |
| `engine_api` | `CountCoversLiveKeys`, `KeyScansMissNothing`, `MergeScanIsFresh`, `CursorIsFaithful` | Puts, batches and deletes, every kind of scan and of resumable cursor, a flush, a compaction, clear() and recover_from_corruption(), over files found at open, level 0 listed in any order: the key counter covers the live keys; scans miss no live key, and those that return values return none that gets did not. The cursor may be the non-blocking one, which gives up at any point and leaves its caller to go on with the blocking one. |
| `column_families` | `FamiliesAreIsolated`, `RangeScansKeepTheirBounds`, `LimitCutsOwnKeysOnly`, `PrefixScansStayInFamily` | Families of which one name begins with the other, with keys that hold a # or have no successor, over a memtable, level 0 and level 1: creations, drops, flushes, compactions, restarts and writes of one family never show in another; range and prefix scans miss no live key of their family and list nothing that was not put in it and is not within their bounds (deleted keys they may list); a limited scan comes short of its limit only at the end of the range. |

Bounds and why they are enough:

- `write_path`: three operations, two clients, one of which fills memtables and
  writes a key twice, so that versions of one key are in the active memtable, an
  immutable one and an SSTable at once; one get and one crash at any point. 1.4
  million states.
- `write_path_faults`: two clients share a key, one operation is a batch, one is
  put_with_ttl, one I/O error at any log or SSTable write, shutdown() beside them. No
  client fills memtables here; flush(), compact() and shutdown() run the pipeline
  (two concurrent pipelines lose a key by themselves: `concurrent_flush_loses_reads`).
- `write_path_live`: one operation per client, one a batch, a get that is repeated for
  ever, and flush(). Fairness: a task that has begun a call takes its next step, as
  tokio polls every task that is woken (weak fairness of `ClientStep`, `GetStep`); the
  guard serves waiters in the order they queued, so a waiting flush step is not
  passed over for ever (strong fairness of `FlushStep`, because `Swap` is enabled and
  disabled as others hold the guard); nothing makes a caller begin a call. It is also
  the run without a crash, so that "returns" means the answer and not the crash.
- `sequencer`: one flusher, memtables of up to two entries, eleven sequence numbers,
  two crashes, a failed SSTable write or open and a failed write of SEQUENCE: enough
  for a file, its compaction, a crash, and a flush after it.
- `compaction`: two keys, five files: two flushes, a merge and a flush during it, and a
  second merge. Each kind of compaction runs alone for the value properties, which
  fail when they race (`manual_races_background`), and both run together, with one key
  and one file less, and with a crash or an error, for the file properties.
  compact_all alone has two keys and four files, and one key and five. The sessions for `RestartIsInvisible`
  start from an empty directory; it asks in every state what a restart would
  find. After a restart it fails (`restart_order_resurrects`).
- `wal_recovery`: two keys, segments of two records, three writes and two crashes
  outside a truncation, no I/O error, no cleanup: each of those breaks the property
  (below). `wal_segments` has all of them at once, with segments of one record.
- `indexed_wal`: two keys, one of whose entries is larger than a frame, frames of two
  entries, segments of two frames, three ids, three writes, one error, two process
  crashes: enough to fill a segment, rotate, crash on either side of the index write,
  resume, and write again. Crashes inside the wipe and power loss break the property
  (below).
- `frame_wal`: one key, so that every two writes compete for it; segments of one record,
  so that every second write rotates; batches of one; three modes (queued with and
  without waiting, direct); two writes, one administrative call, one I/O error, one
  crash, a clock of two seconds where calls wait for durability (elsewhere nothing
  stated depends on it). Fairness: weak for the steps of the caller and of the
  background task, since tokio polls every woken task and its locks are fair; none for
  the start of a call, for faults or for the clock. `CallsReturn` holds with I/O
  errors and crashes, `QueueDrains` for writes nobody waits for.
- `sstable_read`: two files, one of the older format with an entry per frame, one with
  two blocks of which one has two entries; lookups of a key that is in both and of one
  that is in one file only; a hash under which the filter has collisions; a cache of three units, smaller than the
  blocks together; one open file; two tasks (interchangeable) with three calls of
  every kind, one I/O error, and the reclaim of each file. 1.5 million states.
- `engine_api`: two keys, one flush, one compaction. The counting workload has a level 0
  and a level 1 file in every combination of value, tombstone and absence that it needs,
  three write calls (batches with a repeated key included) and an administrative call;
  the scanning one has every kind of scan beside two writes over the same files; the
  third has two level 0 files with values and tombstones in either order of the list,
  over a level 1, and one write. The batch of the non-blocking cursor is two keys, so
  that it can fail with one in hand. 2.8 million states.
- `column_families`: names `a` and `aa`, keys with `#`, the empty key and one that ends
  in a character without a successor, a plain key, four bounds for scans, a limit of two,
  three writes (puts and deletes, of one key and of two): enough for a value, a tombstone
  over it in another file and a key of the other family, under any order of the files.
  94 thousand states, every combination of family and bounds in each.

Deadlock is checked in the `write_path*` runs, where flush() can always be called
again, and in `column_families`. Elsewhere the bounds stop the system and the check is off.

Every property has a mutant in `PROJECT.json`: a change to one definition, such as a
bug in that code would make, under which TLC finds the property violated.

### Known disagreements

The other configurations in this directory, and the variations of them that the table
gives (the constants to change; the property is then the only one to check), are
scenarios in which TLC finds a violation: each shows the code doing something else than
a comment, a doc or the trait says. They are kept as regression scenarios: when the code
changes, change the model, and the trace should disappear. (`indexed_wal.cfg` with
`PerEntry = FALSE`, entries left in staging between puts, passes for `TypeOK` and
`StagingHasRoom`.)

| Scenario | Module | Property | Scenario |
|---|---|---|---|
| `concurrent_flush_loses_reads.cfg` | `MCWritePath` | `AckedKeysStayReadable` | Two clients whose puts both find the memtable full flush at the same time. The index of the immutable memtable is used after its lock was dropped (engine.rs:1831): one flush removes a memtable that is in no SSTable. |
| `l0_drops_tombstone.cfg` | `Compaction` | `ViewIsTruth` | A background merge of level 0 drops a tombstone (manager.rs:1184) while level 1 still holds the deleted value. |
| `failed_flush_loses_wal.cfg` | `MCWritePath` | `AckedWritesAreDurable` | A size-triggered flush fails and its memtable stays in the immutable list; a later flush() flushes only the active memtable and truncates the WAL. |
| failed_flush_stale_read: `failed_flush_loses_wal.cfg` | `MCWritePath` | `ReadsSeeAckedWrites` | After a failed flush two immutable memtables hold the same key, and the lookup takes the older. |
| `shutdown_races_put.cfg` | `MCWritePath` | `AckedWritesAreDurable` | shutdown() truncates the WAL with no guard; a put between its flush and its truncation is acknowledged and in the memtable only. |
| ttl_put_races_flush: `failed_flush_loses_wal.cfg` with `TtlOps = {o1}`, `MaxIoErrors = 0` | `MCWritePath` | `AckedWritesAreDurable` | put_with_ttl takes no operation_guard: flush() truncates the WAL between its record and its memtable update. |
| `racing_puts_and_crash.cfg` | `MCWritePath` | `QuietCrashKeepsReads` | Two clients log a key in one order and apply it in the other; a crash when all is quiet changes the value that reads return. |
| `two_flushes_set_sequence_back.cfg` | `Sequencer` | `RestartStaysAhead` | Two flushes read the counter and write SEQUENCE in opposite orders; after compaction removed the names, a crash restarts the counter below stamps on disk. |
| `manual_races_background.cfg` | `Compaction` | `ViewIsTruth` | compact_all does not look at `compacting`: both merge the same files and the older output stays in the level. |
| get_uses_stale_index: `manual_races_background.cfg` with `NumKeys = 2`, `Manuals = {}`, `Readers = {r}`, `MaxFiles = 5` | `Compaction` | `GetIsFresh` | A get collects indices into level 0, a compaction shortens the list, and the get skips or misreads the files. |
| `crash_in_reclaim.cfg` | `Compaction` | `RestartIsTruth` | A crash while compact_all unlinks its inputs: the restart loads old level-1 inputs beside the outputs and the search finds the old one. |
| size_tiered_reinstalls: `manual_races_background.cfg` with `LeveledOnly = FALSE` | `Compaction` | `LiveFilesOnDisk` | With a strategy that selects a group, the install puts back the unselected files of its snapshot although compact_all has merged and unlinked them. |
| orphan_output_resurrects: `l0_drops_tombstone.cfg` with `Manuals = {}`, `MaxFiles = 4`, `MaxErrors = 1` | `Compaction` | `RestartIsTruth` | The install lock times out; the outputs stay in data_dir, and after a later delete and compaction a restart loads them. |
| restart_order_resurrects: `l0_drops_tombstone.cfg` with `Manuals = {}`, `MaxFiles = 5`, `MaxCrashes = 1` | `Compaction` | `RestartIsTruth` | After a restart level 0 is in directory order; a merge that drops a tombstone may unlink the file of the tombstone before that of the value, and a crash in between brings the value back. |
| reclaims_overlap: `l0_drops_tombstone.cfg` with `Autos = {a, b}`, `Manuals = {}` | `Compaction` | `RestartIsTruth` | `compacting` is given back before the reclaim, so a second compaction can unlink a tombstone while the first has not yet unlinked an older input with the value; a crash in between brings the value back. |
| ghost_input_resurrects: `l0_drops_tombstone.cfg` with `Manuals = {}`, `Readers = {r}`, `MaxFiles = 4` | `Compaction` | `RestartIsTruth` | An input that a reader holds is not unlinked; nothing tries again, and after a delete and a compaction a restart brings its value back. |
| `crash_in_truncate.cfg` | `WalSegments` | `AckedWritesRecovered` | A crash between two removals of a truncation leaves a newer SSTable and an older segment, whose records replay over it. |
| `age_cleanup_loses_log.cfg` | `WalSegments` | `AckedWritesRecovered` | The cleanup task removes a completed segment by its age although its records are in the memtable only (cleanup_flushed_segments looks at the age, not at what was flushed). |
| force_cleanup_loses_log: `age_cleanup_loses_log.cfg` with `MaxSegments = 2`, `MaxTime = 1` | `WalSegments` | `AckedWritesRecovered` | With more than max_segments files the cleanup task removes all of them, the current one included. |
| oversize_put_not_logged: `crash_in_truncate.cfg` with `CrashIn = {"idle"}`, `Oversize = TRUE` | `WalSegments` | `AckedWritesRecovered` | A record larger than segment_size is refused twice and the put is acknowledged without a log record. |
| torn_record_hides_log: `crash_in_truncate.cfg` with `SegCap = 3`, `CrashIn = {"idle"}`, `MaxErrors = 1` | `WalSegments` | `AckedWritesRecovered` | A write fails half-way and later writes follow it in the same segment; replay stops at the torn record. |
| checkpoint_hides_write: `wal_recovery.cfg` with `CrashIn = {"idle", "close"}`, `MaxIds = 4` | `WalSegments` | `AckedWritesRecovered` | A crash after the checkpoint of shutdown() and a restart within the same second: a write of that second is not replayed after the next crash. |
| `indexed_power_loss.cfg` | `IndexedWal` | `AckedWritesRecovered` | wal.idx is not synced with its frame (wal_index.rs: "safe when frame files are synced independently"): after a power loss it is behind, the restart resumes at a frame that holds an acknowledged write, and the next put writes over it. |
| indexed_zero_frame: `indexed_wal.cfg` with `MaxErrors = 0` | `IndexedWal` | `RecoveryReads` | A crash between the creation of a frame file and set_len leaves a file of length zero, and recovery fails on it. |
| indexed_crash_in_truncate: `indexed_wal.cfg` with `CrashIn = {"idle", "append", "frame", "index", "header", "wipeAll"}`, `MaxErrors = 0` | `IndexedWal` | `AckedWritesRecovered` | A crash between two removals of a truncation leaves older segments, whose entries replay over a newer SSTable. |
| `frame_flush_wal_incomplete.cfg` | `FrameWal` | `FlushWalCovers` | flush_wal() ("including group-commit queue", engine.rs:3820) finds the queue empty because the background task has taken it, and returns before the batch is written. |
| frame_rotation_lists_current: `frame_flush_wal_incomplete.cfg` with `GroupModes = {TRUE, FALSE}`, `WaitModes = {TRUE, FALSE}`, `Exempt = {"torn", "cleanup", "wipe", "shutdown"}` | `FrameWal` | `CleanupSparesCurrent` | Without waiting for durability a caller and the background task rotate at the same time; the counter is incremented outside the lock, so `segments` lists the file that is being written, and the cleanup task may remove it. |
| `clone_takes_empty_index.cfg` | `MCSstableRead` | `LoadedMeansIndexed` | A clone copies the index before and `index_loaded` after another task loads it (sstable.rs:2154): it has no index, never loads one, and its get misses the key. |
| cache_counts_twice: `clone_takes_empty_index.cfg` with `Kinds = {"get"}` | `MCSstableRead` | `UsageIsExact` | Two tasks miss one block and both put it; `current_size` counts it twice and eviction subtracts it once (block_cache.rs:83). |
| marked_fails_pinned_get: `clone_takes_empty_index.cfg` with `Kinds = {"get"}`, `MaxCalls = 1` | `MCSstableRead` | `PinnedGetSucceeds` | A get that pinned a file of the older format fails once a compaction has marked it (sstable.rs:1578), although reclaim waits "so in-flight gets are not failed" (manager.rs:791). |
| racing_deletes_miscount: `engine_api.cfg` with `Writers = {w1, w2}`, `Workloads <- CountingAfresh` | `MCEngineApi` | `CountNeverDrifts` | Two calls on one key both look before either applies; the counter drifts for good. |
| null_put_counts: `engine_api.cfg` with `Workloads <- CountingAfresh`, `NullPuts = TRUE` | `MCEngineApi` | `CountCoversLiveKeys` | A put of Value::Null is a tombstone to every read, and the counter adds one for it. |
| keys_lists_deleted: `engine_api.cfg` with `Workloads <- WithKeys` | `MCEngineApi` | `ScansListNoDeletedKey` | keys(), scan_prefix and scan_range collect live keys of older layers that a newer tombstone hides. |
| limit_repeats_keys: `engine_api.cfg` with `Workloads <- WithLimit` | `MCEngineApi` | `LimitedScanHasNoDuplicates` | scan_range_limit returns a key once per layer that holds it. |
| `merge_scan_level_order.cfg` | `MCEngineApi` | `MergeScanIsFreshAcrossLevels` | A merging scan applies level 1 after level 0, and the older value wins. |
| merge_scan_races_flush: `engine_api.cfg` with `Workloads <- WithMergeOnly` | `MCEngineApi` | `MergeScanIsFreshBesideFlush` | A memtable is flushed after the scan has passed the SSTables and before it reaches the memtables: the scan sees it in neither. |
| cursor_skips_flushed: `engine_api.cfg` with `Workloads <- WithCursor` | `MCEngineApi` | `CursorSkipsNothing` | A memtable is flushed after the cursor took its heads; its keys are in a file the cursor has no head for. |
| merge_scan_any_order: `engine_api.cfg` with `Workloads <- WithMergeReopened` | `MCEngineApi` | `MergeScanIsFreshInAnyOrder` | After a restart level 0 is in the order of read_dir (engine.rs:1059-1125 sorts the other levels only). A merging scan applies it in that order, and the older of two versions wins, or a deleted key comes back; gets merge by timestamp (engine.rs:2228). |
| try_cursor_drops_batch: `engine_api.cfg` with `Workloads <- WithTry` | `MCEngineApi` | `FallbackSkipsNothing` | try_prefix_scan_next_n_sync has advanced over the entries it collected (engine.rs:675) when a lock is taken: it returns None (engine.rs:664, 671), the entries are gone, and prefix_scan_next, to which its doc sends the caller, goes on behind them. |
| `clear_undone_by_restart.cfg` | `MCEngineApi` | `RestartAgreesWithReads` | clear() leaves the SSTable files, and the next open loads them. |
| write_after_clear_lost: `engine_api.cfg` with `Workloads <- ClearingWrites` | `MCEngineApi` | `RestartAgreesWithReads` | clear() removes the WAL directory under the open segment; what is written afterwards is not on disk. |
| family_name_with_hash: `column_families.cfg` with `Names <- HashNames` | `MCColumnFamilies` | `FamiliesAreIsolated` | With a `#` in a family name, two families share stored keys. |
| dropped_family_returns: `column_families.cfg` with `DropIsFinal = TRUE` | `MCColumnFamilies` | `FamiliesAreIsolated` | drop_column_family removes the name and not the keys, which are there again after the family is created anew. |
| prefix_scan_cuts_keys: `column_families.cfg` | `MCColumnFamilies` | `PrefixScanReturnsKeys` | scan_prefix_cf cuts the scanned prefix off the keys as well as the family's. |

## 4. Theorems

| Module | Theorem | Hypothesis | States |
|---|---|---|---|
| `WritePathProofs` | `TypeCorrect` | | The write path is type correct for any clients, operations, readers, shutdowns, crashes and failures. |
| `WritePathProofs` | `InductiveInvariant` | `SafeUse` | The inductive invariant holds: one flush at a time, WAL covers memtables, all lookup paths are fresh. |
| `WritePathProofs` | `Durable` | `SafeUse` | Every acknowledged write survives a crash at any instant. |
| `WritePathProofs` | `ReadYourWrites` | `SafeUse` | Reads never miss or age an acknowledged write. |
| `WritePathProofs` | `GetNeverStale` | `SafeUse` | A get that interleaves with flushes is never stale. |
| `WritePathProofs` | `TruncateExcludesWriters` | `SafeUse` | The WAL is never truncated under a running write. |
| `WritePathProofs` | `AckedReadable` | `NoCrashUse` or `SafeUse` | An acknowledged key stays readable, also while SSTable and log writes fail, shutdown() runs and TTL writes take no guard. |
| `WritePathProofs` | `RefinementInvariant` | `SafeUse`, `OneWriterPerKey` | What reads and what recovery find differs only in writes that are logged and not applied. |
| `WritePathProofs` | `WritePathImplementsKVStore` | `SafeUse`, `OneWriterPerKey` | The write path with its memtables, flushes, log and crashes implements the map of `KVStore`. |
| `SequencerProofs` | `SequencerTypes` | | Counter, SEQUENCE and file sets stay well typed with any number of flushes. |
| `SequencerProofs` | `NoOverwrite` | | No flush writes over an existing SSTable, with any number of concurrent flushes, crashes and failures. |
| `SequencerProofs` | `CounterSurvivesCrash` | `OneFlushAtATime` | A restart resumes above every stamp on disk, if no write of SEQUENCE fails. |
| `SequencerProofs` | `TimestampOrderIsFlushOrder` | `OneFlushAtATime` | A published SSTable is newer than all others. |
| `CompactionProofs` | `TypeCorrect` | | Level map, files, compactions and gets stay well typed in every mix of tasks. |
| `CompactionProofs` | `ReclaimSparesLive` | `SafeMix` | No file of the live map is unlinked, with any number of compactions, errors and crashes. |
| `CompactionProofs` | `ReclaimSparesPinned` | `SafeMix` | No file is unlinked under a get that pinned it. |
| `CompactionProofs` | `CompactionInvisible` | `LeveledOnly`, `SoloWorkloads` | In the workloads without faults, no step of a compaction changes a value. |
| `CompactionProofs` | `RestartInvisible` | the same, `OneBackgroundTask` | A crash at any step of a background compaction, between two unlinks included, changes no value. |
| `WalSegmentsProofs` | `WalTypes` | | Segment files, list, handle and counter stay consistent through rotation, truncation, cleanup, failure, crash and restart. |
| `WalSegmentsProofs` | `RotationIsFresh` | | No rotation and no restart starts a segment anew that holds records. |
| `WalSegmentsProofs` | `AckedWritesReplayed` | `PlainUse` | Replay gives back every acknowledged write or a newer one, through any number of rotations, flushes, truncations, clean shutdowns, torn records and crashes. |
| `IndexedWalProofs` | `StagingAlwaysHasRoom` | | Staged entries always have a frame to go to, in every sync mode, after any errors, crashes, power losses and resumes. |
| `IndexedWalProofs` | `IndexedTypes` | | The indexed log stays well typed under the same faults. |
| `IndexedWalProofs` | `AckedWritesReplayed` | `SyncedUse` | Replay gives back every acknowledged write or a newer one, after any number of I/O errors, crashes, resumes and truncations. |
| `IndexedWalProofs` | `OnlyCopyStays` | `SyncedUse` | No frame that holds the only copy of an acknowledged write is written again or removed. |
| `FrameWalProofs` | `FrameTypesHold` | | Queue, files, handle and the records of both processes stay well typed, in every configuration and after any faults. |
| `FrameWalProofs` | `CleanupNeverTakesCurrent` | `"nowait" \in Exempt` | `CleanupSparesCurrent`: where calls wait for durability or there is no group commit, so that one process rotates at a time, the cleanup task never removes the file that is being written. |
| `FrameWalProofs` | `WritesNeverVanish` | `"cleanup" \in Exempt` | Until something fails, an accepted entry is in the queue, with its writer, in a file or in an SSTable, also where callers do not wait. |
| `FrameWalProofs` | `ReplayRestoresAcknowledged` | `Exempt = Circumstances` | Replay gives back every acknowledged write or a newer one, after any number of crashes, failing writes, rotations, truncations and restarts. |
| `SstableReadProofs` | `PinsAreBalanced` | | Every call gives back the pin it took, on every path. |
| `SstableReadProofs` | `WrittenIsFound` | | Index, block places and bloom filter find every key that was written to a file, and the search finds no other, for all tables, block sizes and hash functions. |
| `SstableReadProofs` | `LookupsAreFaithful` | | A get, a synchronous get, a scan or the read of a compaction returns exactly what was written to its file, whatever is evicted, loaded, cached, marked or unlinked beside it, but for the errors that `LookupIsFaithful` names. |
| `SstableReadProofs` | `CacheAlwaysConsistent` | | What the block cache holds is in access_order and counted in current_size: put can always evict, and eviction never subtracts what was not added. |
| `ColumnFamiliesProofs` | `FamiliesIsolated` | `SeparatedUse` | What one family holds is what was put in it and not deleted from it. |
| `ColumnFamiliesProofs` | `PrefixScansInFamily` | `SeparatedUse` | A prefix scan of a family misses no live key with the prefix and lists no key that was never written in the family; the merging scan gives pairs of the family, and what a get returns for keys with versions in one file at most. |
| `ColumnFamiliesProofs` | `RangeScansBounded` | `SeparatedUse` | A range scan of a family misses no live key within the bounds and lists, beside them, only keys once put in the family that are within the bounds or begin with the end; the merging one stays within the bounds. |

They hold for every set of keys, operations, clients, readers, files and names, and
every bound. The assumptions are those of the modules (the constants have their types,
task sets are disjoint, kinds of call are known; each is an `ASSUME` that TLC evaluates
on every run) and the hypotheses of the table. Without any of these the property fails:

- `SafeUse` (`WritePathInv`): at most one client fills memtables, nobody calls
  shutdown() or put_with_ttl, and no SSTable or WAL write fails. Each conjunct is
  needed: dropping it gives one of the violations of section 3.
- `NoCrashUse`: one task besides flush() and compact() flushes, and the process does
  not crash; all other faults may happen. With two, `concurrent_flush_loses_reads`; with
  a crash after a failed flush, `failed_flush_loses_wal`.
- `OneWriterPerKey`: otherwise two writes are logged in one order and applied in the
  other (`racing_puts_and_crash`).
- `OneFlushAtATime`: needed for the stamps (`two_flushes_set_sequence_back`), not for
  the names.
- `SafeMix`: a levelled strategy, or no compact_all (`size_tiered_reinstalls`).
- `LeveledOnly` and `SoloWorkloads`: one kind of compaction at a time, and one
  compact_all (`manual_races_background`). `OneBackgroundTask`: see `reclaims_overlap`.
- `PlainUse`: the use of `wal_recovery`: no I/O error (`torn_record_hides_log`), no cleanup
  task (`age_cleanup_loses_log`), no value larger than a segment
  (`oversize_put_not_logged`), no crash inside a truncation (`crash_in_truncate`,
  `checkpoint_hides_write`).
- `SyncedUse`: entries are synced per put, there is no power loss
  (`indexed_power_loss`), and no crash between two removals of a truncation
  (`indexed_crash_in_truncate`). Between puts that are not synced, acknowledged entries are
  in the staging buffer only.
- `Exempt` (`FrameWal`): which of the circumstances in `past` the properties exclude.
  The hypotheses say no more than is needed: with any one of the five circumstances left
  out of `Exempt`, `AckedWritesRecovered` fails in the run `frame_wal`; with `nowait` left
  out, `CleanupSparesCurrent` does (`frame_rotation_lists_current`); with `cleanup` left
  out, `NoAckedWriteVanishes`. They restrict no step: the circumstances occur in the
  behaviours of the theorem, and it speaks of the states before the first of them.
- `SeparatedUse`: no name holds a `#` (`family_name_with_hash`), no key that is used
  without a family begins with a name and a `#`, and a dropped family keeps its keys
  (`dropped_family_returns`).

The arguments:

- *WritePath.* `TypeCorrect` needs no `SafeUse`: it is inductive together with `OpInv`,
  which ties each client to the operation it runs. For the rest, none of the
  safety properties is inductive. `WritePathIInv` adds: who holds the guard at which
  program point (`GuardInv`); each client's operation has not ended (`OpInv`); at
  most one flush is between swap and removal, owns the only immutable memtable,
  and its file is the newest (`FlushInv`); the log covers the memtables (`WalInv`); and
  the three freshness statements strengthened from acknowledged operations to
  those applied (`ReadInv`) or logged (`DurableInv`), and to what a get has still to look
  at (`GetInv`). Truncation is safe because the exclusive guard excludes writers and the
  flush before it left both memtables empty; the swap is safe because the shared guard
  of the flusher keeps the exclusive flush out, and there is one flusher.
- *Refinement.* `StampInv`: no two files have one stamp, so that a lookup has one answer
  and the mapping one value. `AgreeInv`: on a key without a logged and unapplied write,
  recovery and reads agree; on one with such a write, recovery returns that write. A
  step of `ApplyItem` is then `KVStore`'s taking effect, a crash completes the keys of
  the writes in the log, and every step of a flush is a stutter.
- *AckedReadable.* `FlushGuardInv`: whoever flushes holds the guard. `SlotInv`: its index
  is that of the last immutable memtable, behind those that failed flushes left in the
  list; and its SSTable holds that memtable. `PresentInv`: what was applied is in some
  layer. A removal then removes the memtable that was published.
- *Sequencer.* `NamesInv`: every name and stamp is below the counter, and a flush in
  progress has a name no file has. `StampsInv`: stamps of one file are contiguous, and
  a stamp that no name covers is below SEQUENCE. The crash step then needs only that
  the rebuilt counter is at least as high as both.
- *Compaction.* `TypeInv` is inductive by itself. `FilesInv` adds what keeps a reclaim
  from live files: inputs that were replaced are not live, outputs that are not yet
  installed are nobody's inputs, and `compacting` keeps background compactions apart.
  `ViewInv`: live files are in order, newest last, and hold the entry flushed last for
  every key, or nothing if that is a tombstone; a running compaction has all files older
  than what came since, and its outputs hold the newest entries of its inputs. `DiskInv`:
  every file on disk is live, or about to be installed or unlinked; what is still to be
  unlinked is older, and has a tombstone after every value of a key that is not live, so
  that unlinking oldest first never uncovers a value.
- *WalSegments.* `SegmentsInv`: `segment_counter` is past every file on disk, and an id
  that is not on disk has no records. With `TypeOK` (`tracked`, `pending` and `current` are
  disjoint parts of `disk`) it is inductive. Replay needs `LogInv` besides: a checkpoint is
  in the log only while a truncation is under way, and a torn record only at the end of
  a segment that is written no more (`KindsInv`), so that the replay is over all puts; the
  order of the files is that of the writes and of the clock (`Sorted`), so that the last
  one replayed is the newest; an acknowledged write is in the log, or in an SSTable with
  nothing older in the log (`CoverInv`); and what a flush moves is not behind (`MemInv`).
- *IndexedWal.* `RoomInv`: staged entries have a frame, and nothing is staged when the
  process is down; a restart may resume behind the last frame, and then `Full` rotates
  before anything is staged. `TypesInv` adds where files lie (`DiskInv`), where a call is
  (`CallInv`), and that there is a header in wal.idx whenever there is a current segment
  (`HeaderInv`). Durability rests on `LogInv`: the order of segments, frames and entries
  is the order of writes (`OrderInv`); the frame to be written next, now and after a
  restart by what wal.idx names, is behind all that hold entries (`TailInv`); what may
  still be written over, and what is staged, is newer than all that was acknowledged
  (`LooseInv`); an acknowledged write has a copy that recovery decodes and nothing
  writes over, or is in an SSTable with nothing older in the log (`CoverInv`); a write under
  way is queued, staged or has such a copy (`UnderWayInv`); and the memtable over the
  SSTables is not behind what was acknowledged (`MemInv`). An index that a crash left
  one frame behind is harmless because the frame it forgets was never acknowledged.
- *FrameWal.* Types are inductive only together with `Control`: which steps the caller has
  still to do at each program point (`RouteOK`), who holds which records and where it
  returns to after a rotation (`BatchOK`), and what is under way (`CallOK`, `RestOK`).
  `IdsBelow`: no file has an id beyond `segment_counter`, and none but that of a rotation
  that has not counted yet is equal to it. With a wait for durability, or without group
  commit, one process writes at a time (`QueueAlone`), and then a file is listed as
  completed only after it was replaced (`SegmentsAlone`): the cleanup task spares the
  current one. For entries on their way, without that: the current file is on disk and
  not among those that a truncation removes (`CalmSegments`), the memtables cover what
  was acknowledged (`MemCovers`), so that what flush() publishes covers what its
  truncation removes, and each acknowledged write, and the one that is about to be, is in
  the queue, in a batch, in a file or in an SSTable (`AllKept`, `OpKept`). Each step that
  takes, writes or removes entries keeps every one of them unless an SSTable has it
  (lemma `NothingDropped`). Replay needs, until a circumstance occurs: files in the order
  of writes and of the clock (`Ordered`, `Bounded`); a checkpoint only while the
  truncation that follows it is under way (`CkptOK`); an acknowledged write in a file, or
  its key in none and the SSTable ahead (`LogCovers`); the write under way in a file
  before its caller hears of it (`OpLogged`). `RecoveredCovers` concludes that the last
  record replayed is new enough.
- *SstableRead.* `PinInv`: `reader_count` is the number of calls with a pin, and a file
  taken out of the map gets no new one. `CallInv` and `HandleInv` say where a call reads
  from: the index of its clone, its block, the cache or an open descriptor. `ResultInv`:
  what it has found is right, and what was asked for is found or still to be looked for.
  `LookupIsFaithful` speaks of the states before a clone has taken an index and its flag
  from two sides of a load (`mixed`); after that it fails (`clone_takes_empty_index`).
  `WrittenIsFound` is about the format alone. The n-th key has n - 1 keys below it
  (`KeySeqFacts`, from `Ranking`); blocks are filled one after the other and an entry lies
  where the entries before it in its block end (`PlaceInv`, step by step from
  `PlaceSteps`); as no entry is empty, no two of a block begin at one offset
  (`EntryFound`). Where an induction over the keys is needed, `UpTo` takes the least number
  at which a statement fails. `CacheInv` adds to `CacheConsistent` that the cache is well
  typed; evicting all of access_order empties the cache (`EvictionEnds`), and a hit moves
  one occurrence of a key and loses none (`TouchKeeps`).
- *ColumnFamilies.* `name#key` is injective for names without `#`, so that a call changes
  stored keys of one family. `LayersInv` says of each stored key that its stamps are of
  writes that took place, that of the memtable newer than those of level 0, of which one is
  the newest (`KeyInv`), and of each key of a family that what a lookup finds is its `truth`
  and what any layer holds is in its `past` (`FamilyInv`). The scans rest on the order of
  strings: what begins with a prefix lies between the prefix and its successor, and
  nothing else does.

Each proof module stands alone: the few facts about least and greatest elements of sets
of naturals (`LeastNat`, `MinNat`, `MaxNat`) and about ranks in finite ordered sets
(`Ranking`) are stated and proved in the modules that use them.

Checked by TLC only:

- `CallsReturn` and `QueueDrains`: liveness under fairness is out of the prover's reach.
- `CountCoversLiveKeys`, `KeyScansMissNothing`, `MergeScanIsFresh` and `CursorIsFaithful` of
  `EngineApi`: scans filter, join and fold sequences of layers, and what such a fold
  computes for every input is an induction over data. The library states it with an
  operator as parameter, which the installed provers cannot instantiate; the argument by
  a least counterexample that `SstableReadProofs` uses for one recursive function is not
  carried out for these folds.
- `LimitCutsOwnKeysOnly` of `ColumnFamilies`: the limited scan sorts and joins the lists of
  the layers, which is such an induction too.
- `FormatRoundTrip` and `FilesRoundTrip` of `MCSstableRead` are what `WrittenIsFound` proves,
  evaluated for all tables of up to four keys and for the files of the run.

## 5. What is left out

- Configuration, statistics, metrics, values, errors, storage-core helpers, benchmarks:
  plain data, conversions and counters, no protocol. So are health_check,
  execute_with_recovery and the recommendations of the engine.
- Adaptive compaction chooses a strategy from floating-point measurements; the
  strategy is a constant of `Compaction`.
- SSTable byte layout, compression, checksums, and the mmap and seek read modes: I/O.
  The second bloom filter (`utils/bloom.rs`) is not used by the engine.
- TTL expiry: times are compared with the wall clock when a TTL is asked for; only the
  locking of put_with_ttl is modelled (`WritePath`).
- Size accounting of memtables: any memtable may be full at any time.
- The age cleanup of the indexed log, its mark_clean_shutdown and failing removals.
- Recovery that fails as a whole (timeout, allow_recovery_failure).
- Input files of compact_all whose index does not load: the code skips them and merges the
  rest (manager.rs:482-494), the snapshot of `Compaction` takes every file of the levels.
- scan_next whose `after` lies outside its prefix (the heads then stand on keys before the
  prefix and do not move, so that it misses keys of the files), and
  try_prefix_scan_foreach_sync, which is the loop of try_prefix_scan_next_n_sync with a
  callback and passes over values of other types.
- File scans that skip what they cannot read, in `EngineApi` and `ColumnFamilies`; what a
  file gives under errors is the subject of `SstableRead`.
- Ranges whose end is before their start: the memtable's range panics on some of them, and
  the range properties of `ColumnFamilies` speak of the others.
- The clocks of `WalSegments` and `FrameWal` never step back; the cleanup task and writers exclude each
  other because both hold `wal_manager`.
- In `WritePath` level 0 is the only level and the counter survives a crash; `Compaction`
  and `Sequencer` cover what that leaves out.

## 6. State of the development

Modelled, in the order of importance: write path and its contract, sequence numbers,
compaction, the three logs with group commit, the SSTable reader with its cache, scans
and the counter, column families. Proved: what section 4 lists, which is every
invariant and every action property of the runs but the four invariants of
`EngineApi` and the limited scan of `ColumnFamilies`. What would extend it:

1. TTL expiry and the sweep that removes expired keys, with a clock shared by writers.
2. Failing removals and the age cleanup of the indexed log.
3. Recovery that fails as a whole, and the paths `allow_recovery_failure` opens.
4. Proofs about the scans and the counter of `EngineApi`.
