# A verification of tiny-lsm

tiny-lsm (`src/`) is a log-structured key-value store with multi-version
concurrency, transactions with a write-ahead log, and a Redis layer with a
server on top. This directory holds TLA+ modules translated from its source, the
TLC runs that check them, and proofs that TLAPS checks.

Paths below are relative to the repository (`src/src/...` is the directory
`src/` of the repository).

## 1. The system

| Component | State it keeps | Operations | Hard parts |
|---|---|---|---|
| SkipList (`src/src/skiplist`) | entries ordered by key, then by descending transaction id | put, get, range searches | same key and id overwrites |
| MemTable (`src/src/memtable`) | a current skip list, frozen ones (newest first), `frozen_bytes`; two locks | put, remove, batches, get, freeze, `flush_last`, clear | order of the frozen tables, the running size, lock order |
| SST, Block (`src/src/sst`, `src/src/block`) | immutable files of sorted versions in blocks, with a key range, block index and Bloom filter | build, open, get, iterate, range query, delete | all versions of one key in one block and one SST; searches and iterators at the borders of blocks |
| BlockCache (`src/src/block/block_cache.cpp`) | two LRU lists and a map shared by all SSTs, a mutex | get, put | two threads that miss on one block; blocks of deleted SSTs |
| LSMEngine (`src/src/lsm/engine.cpp`) | per level a list of SST ids, `next_sst_id`, `cur_max_level` | get, get_batch, put, remove, flush, full_compact, constructor, clear | reads that stop at the first hit, compaction cascades, a crash between file operations |
| Merging iterators (`src/src/iterator`, `two_merge_iterator.cpp`, `concact_iterator.cpp`, `level_iterator.cpp`) | positions in several tables | step, skip | which of two equal keys comes first; tombstones |
| TranManager, TranContext (`src/src/lsm/transation.cpp`) | next transaction id, ids ready and flushed, open transactions, the tranc_id file | begin, get, put, remove, commit, abort, recovery | isolation levels, ids committed out of order, what survives a crash |
| WAL (`src/src/wal`) | files of log records, a checkpoint id, a cleaner thread | log, recover, clean | a torn log, a log deleted too early |
| VLog (`src/src/vlog`) | large values out of line | append, read | none modelled |
| Redis layer (`src/src/redis_wrapper`) | keys with prefixes for expiry, hashes, lists, sets, sorted sets; a lock | the Redis commands | several keys that must agree, expiry |
| Server (`src/server`) | one asio event loop on one thread | dispatch | none |

LSM calls LSMEngine with a fresh transaction id for every plain call, and
TranContext with its own id. LSMEngine owns the MemTable and the SSTs and tells
TranManager which transactions have reached an SST. TranManager owns the WAL. The
Redis layer calls LSM only. The server runs everything on one thread; the library
can be used from several.

What makes the store correct: a read returns the newest version the reader may
see, whatever was frozen, flushed or compacted meanwhile; a snapshot does not
change; nothing written is lost by a flush, a compaction or a clean restart; what
was flushed, and what was committed, survives a crash; a scan finds what reads find;
the entries that one Redis value is spread over agree; every call returns.

`PROJECT.json` lists every component with its status, the hazards of the code with
the properties that cover them, and the lines every definition stands for.

## 2. Modules

| Module | Models |
|---|---|
| `Table` | what a skip list and an SST have in common: a set of versions, insertion, and the search for the newest version a reader may see |
| `MvccStore` | the abstract store: a growing set of versions stamped with fresh ids |
| `LsmTree` | MemTable, LSMEngine and the plain operations of LSM, the compaction cascade, and closing and reopening a directory |
| `Scans` | the heap iterators of the memtable, Level_Iterator and the range query, as operators on the state of `LsmTree` |
| `LsmCrash` | `LsmTree` on a machine that may stop between any two steps |
| `Transactions` | TranContext, TranManager, the log and the recovery, over `LsmCrash` |
| `SstBlocks` | the inside of an SST: SSTBuilder, the searches, the iterators of blocks and SSTs, range queries |
| `Compaction` | one compaction, entry by entry, over `SstBlocks` |
| `BlockCache` | the LRU-K cache and the threads of `SST::read_block` |
| `MemTableLocks`, `CommitLocks` | threads in MemTable and LSMEngine with their three locks; the same with commits |
| `Redis` | the Redis commands, expiry and `redis_mtx`, over an abstract store |
| `LsmTreeProofs`, `ReadPathProofs` | the theorems about `LsmTree`: what is stored, and what reads find |
| `LsmCrashProofs`, `TransactionsProofs`, `MemTableLocksProofs`, `BlockCacheProofs`, `RedisProofs` | the theorems about the module of the same name |
| `NumberFacts` | least and greatest elements and induction, for the proofs |
| `MC...` | the model-checking instances |

`LsmTree` describes a compaction by its result, SST by SST; `Compaction` takes the
iterators, the block builder and the cut apart and shows that result
(`MergeExact`), with the order of versions that `RecencyOrder`
guarantees as its input. `Scans` reads an SST by its result, which `ScanExact` and
`RangeComplete` check block by block. `Redis` takes the store as a map, which is
what `ReadsLatest` says of `get`.

### Table and LsmTree

A version is a record of key, transaction id and value; the empty value is the
tombstone. A table is a finite set of versions: which entry the ordered structures
stop at is said by `TableGet`. Keys are numbers in the order of the strings, and 0
is the empty key of the commit markers, which `SSTBuilder` treats as "no first key
yet" (`FirstKey`).

| Variable | Code |
|---|---|
| `current_table`, `frozen_tables`, `frozen_bytes` | the fields of MemTable; sizes count entries instead of bytes |
| `levels` | `level_sst_ids` and `ssts` together |
| `cur_max_level`, `next_sst_id` | the fields of LSMEngine |
| `next_tranc_id` | `TranManager::nextTransactionId_` |
| `mode`, `job` | where the thread is: between calls, in `flush_all` or the destructor, and how far the running flush has come |

A plain call is one action (`Put`, `RemoveKeys`, `Read`, `Flush`, `FlushAll`). A
write includes the freeze and, when the memtable is too large, the start of the
flush it causes; the flush then runs in steps, one per SST written
(`CompactBuild`, `FlushLast`) or deleted (`CompactDelete`), with the update of the
lists at the end (`CompactInstall`). While it runs no other operation is enabled,
as in the code. `CompactInstall` continues with the level above, so a cascade runs
from the deepest full level upwards in the order in which the recursion of
`full_compact` returns. `Reopen` is the end of the destructor and the constructor
on the same directory.

Abstractions, and why they keep the properties:

- The size at which `gen_sst_from_iter` ends an SST is replaced by a choice: it
  may end after any key, never between two versions of one key. Every
  cut the code makes is one the model makes.
- A Bloom filter has no false negatives, so a lookup finds what is there.
- Creating an SST file is one step. A crash inside it leaves a torn file, on
  which the constructor fails; that is not modelled.
- The heap and the two-way merge of a compaction yield all versions of both levels
  in order (`keep_all_versions`). Where versions of one key in the newer table have
  the larger ids, the comparison of the heap is consistent; `RecencyOrder` says
  that they do.
- A key is written once per call, and one call has one id.

### LsmCrash

`Crash` may happen between any two actions, in the middle of a flush or compaction
too. What is left is the set of files: `FilesAt` has the inputs not yet deleted and
the outputs written so far. The tranc_id file is written by the destructor only;
before the first clean close it is empty and the constructor cannot read it, so
the model's crashes come after one.

### Transactions

Extends `LsmCrash`: the same engine, with the transactions of several clients open
at a time, plain calls in between, and crashes.

| Variable | Code |
|---|---|
| `trans` | `TranManager::activeTrans_`: level, state, `operations`, `temp_map_`, `rollback_map_` of every TranContext |
| `ready`, `flushed` | `readyToFlushTrancIds_`, `flushedTrancIds_` |
| `flushed_file`, `tranc_id_file` | the contents of the tranc_id file |
| `wal` | the put and delete records in the wal files |
| `opening`, `replay` | the constructor of LSM is running, and what it has left to replay |
| `committed` | history only: the versions whose commit returned true |

| Action | Code |
|---|---|
| `Begin`, `TranWrite` | `LSM::begin_tran`; `TranContext::put` and `remove` |
| `Commit`, `CommitConflict` | `TranContext::commit` that succeeds and that fails its check (`Conflict`) |
| `Abort`, `Rollback`, `AbortDone` | `TranContext::abort`; for a read-uncommitted transaction one step per key, since each write may flush and other calls come between two of them |
| `TranFlushLast` | the end of `LSMEngine::flush`, with `add_flushed_tranc_id` for every marker in the SST |
| `EngineStep` | all other calls (`Call`) and steps of the engine; the destructor waits for a running `abort` |
| `TranReopen` | destructor and constructor, up to the replay |
| `Die`, `DieInCommit` | the process dies between two steps, or in `WAL::log` with a part of the records in the file |
| `Replay`, `InitNewWal` | the rest of the constructor |

A commit holds both memtable locks, so it is one step; only a crash sees its log
writes apart. The records of begin and commit are left out because recovery
does nothing with them. `sst_get_` returns the id that was asked for, as
`SstIterator::get_tranc_id` does, and `EngineGet` the same for a value found in an
SST. `TranContext::get` is not modelled: it reads the engine like a plain `get`, and
keeps what it read in `read_map_`.

### Scans

The scans read only, so they are operators and not actions, evaluated in every
state of the `engine` run. A heap item carries the id its iterator reports: its
own in the memtable, the reader's (here 0) in an SST. `Greater` is `operator>` as
written; where it holds in both directions between two items of one key the heap
may put either on top, and `Tops` has both. The scans of the memtable are
modelled for every reader, those that reach the SSTs for readers without a
transaction.

### SstBlocks and Compaction

A block is a sequence of entries with the first and last key of its meta entry; an
SST is a sequence of blocks. Sizes are entries plus one unit per block, for the
number of entries it ends with. The binary searches are recursive functions with
the code's bounds, the iterators are positions, and `ReadLoop` is the loop of a
caller. `Compaction` has two actions: `Add`, one round of `gen_sst_from_iter`
(read, step the merge, add, cut), and `Finish`, what is left after the loop, which
throws if that is nothing. Its initial states are all ways to lay two versions of
each key out over two SSTs of each level that `RecencyOrder` and `LevelsSorted` allow.

### BlockCache

| Variable | Code |
|---|---|
| `less_k`, `greater_k`, `cache_map` | the fields of BlockCache; the map says which list the item is in |
| `ssts`, `next_sst_id` | the fields of LSMEngine: the SSTs it has not dropped |
| `files` | all SSTs opened since the engine was, and what file each number stands for |
| `op`, `returned` | each thread between its `get` and its `put`, and what its last read gave |
| `used_after` | history only: the pairs of cached blocks of which the first was used after the second |

`ReadHit` and `ReadMiss` are `BlockCache::get`; the file is read between `ReadMiss` and
`ReadPut`. `Build`, `Drop`, `Clear` and `Reopen` are what flush, compaction, clear and
the constructor do to the numbers in use. `Build`, `Drop` and `Clear` may come between any two
steps of a read, as range queries read blocks without `ssts_mtx`; a range query holds its
SSTs and reads them after they were dropped, so a thread may read any SST in `files`,
held by it or not. Only `Reopen` waits for the threads.

### MemTableLocks and CommitLocks

A step is what a thread does from taking a lock to the next wait or release;
`pc` says what it waits for and so what it holds. Writers insert, freeze, measure
and flush as `LSMEngine::put` does; readers look at the current table, the frozen
tables and the SSTs with one lock at a time. `QueuedWritersBlock` leaves open
whether a waiting writer keeps new readers out; the C++ standard leaves it open too. A
thread that inserts into a table `flush_last` has taken away is `stale`: what it
inserts is lost. A null SST that `flush` dereferences is a place (`null_sst`) from
which the call never returns. `CommitLocks` adds the steps of `TranContext::commit`.

### Redis

`store` maps entries to values: the entry of the key itself, its deadline, the fields
of a hash, the two entries of each element of a sorted set, the members of a set.
A critical section of `redis_mtx` is one step. `Check` is the first section that
all commands on composed values share, `Clean` the removal of an expired value,
and each command has an action for its exclusive section; replies are operators.
A key is used with the commands of one type. A range over a prefix
gives exactly its entries; a range query over SSTs may give more (section 3),
so `SetCountExact`, `CleanWhole` and `ZRangeComplete` hold on a store whose ranges are exact. `Tick` moves the clock between any
two sections.

## 3. Runs

| Run | Shows | Bounds |
|---|---|---|
| `engine` | reads find the newest visible version (`ReadsLatest`); the read path is in order of recency (`RecencyOrder`); `frozen_bytes` is exact; the engine implements `MvccStore`; `flush_all` and the destructor end (`DrainTerminates`); the scans of the memtable are exact for every reader (`MemScanExact`); a full scan, and a range query over keys not yet compacted, miss nothing (`ScanFindsAll`); `get_batch` finds every key that only SSTs hold, whatever else is in the batch (`BatchFindsStored`); the inductive invariant of the proofs holds | two keys, one value and the tombstone, 4 transaction ids; tables freeze at two entries, a flush comes at three: frozen lists of two tables, L0 and L1 full, reopening at every point |
| `engine_deep` | reads and refinement again, `LevelsSorted` and stable snapshots (`SnapshotReadsStable`), with three levels | 5 ids, every write flushed: L0 to L1 and L1 to L2 cascades with SSTs cut at every key. Only tombstones are written: the properties tell versions apart by key and id |
| `crash_files` | no flushed version leaves the disk (`FlushedStaysOnDisk`); SST ids stay unique (`SstIdsUnique`) | 3 ids, one crash at any step |
| `tran_durable` | ids count as flushed only when their writes are on disk (`FlushedIdsOnDisk`); no commit is flushed in part (`FlushedWhole`); no write of a transaction that has not committed is ever found, whatever id the reader asks with (`NoDirtyReads`); a clean close leaves nothing to replay (`CleanOpenReplaysNothing`); no commit over a newer version in memory (`ConflictSeenInMemory`) | two keys, 3 ids, so three transactions open together or two and a plain write; two writes each, more than a table holds; repeatable read, which has every step of read committed and the check. `ConflictSeenInMemory` is a property of this level only: beside a transaction that does not check it is false (section 4) |
| `tran_crash` | everything committed is there after recovery from one crash at any step, in a commit, an abort and the recovery too (`CommittedKept`), and no id counts as flushed too early (`FlushedIdsOnDisk`), with read-committed and read-uncommitted transactions side by side | one key, 2 ids, one write each, one crash; tables freeze at two entries and L0 is full at three SSTs, so that the writes of a read-uncommitted transaction, its rollback and its marker go to different SSTs with a compaction in between |
| `compaction` | lookups (`SearchExact`), scans (`ScanExact`) and range queries (`RangeComplete`) of an SST against a search of all its entries; the merge gives every version once and in order, and disjoint SSTs come out (`MergeExact`) | two keys and the marker, two ids each, on two SSTs per level, with blocks of one and of three entries: several blocks per SST, blocks with one key in several versions, SSTs that end with and within a block |
| `cache` | a reader gets a block of the file it asked for (`ReadsOwnFile`); map and lists agree (`MapAgrees`); eviction takes the least recently used item of the list that goes first (`EvictsOldest`) | two threads, two SSTs of two blocks, room for three, K = 3: every item can be below, at and above K |
| `threads` | a reader misses no version acknowledged before it began (`NoMissedVersion`); every call returns (`CallsReturn`) | one writer, two readers, 7 calls; freezing at two entries, flush at three, waiting writers keep readers out |
| `redis` | fields and field list of a hash agree (`HashAgrees`); the counter of a set is right (`SetCountExact`); ZRANGE, ZRANK and ZCARD miss no element (`ZRangeComplete`); LRANGE's index arithmetic (`RangeExact`); an expired value is removed whole (`CleanWhole`) | three threads, so one may overtake another between two sections of a third; one key of each type in turn, two items, elements with two scores each and none in common, lists up to 3 elements, 4 seconds; DEL for strings, hashes and lists |
| `tran_rollback` | violation of `CommitsReadBack`: an abort replaces what another transaction has committed | one key, two values, two read-uncommitted transactions of up to two writes, nothing flushed unless asked for |
| `threads_commit` | violation of `CallsReturn`: a commit and a put wait for each other | one writer, one committer, 4 calls |
| `redis_expiry` | violation of `CleanOnlyExpired`: a fresh value is removed as expired | as `redis` |

`MaxLevel`, `MaxTrancId`, `MaxCrashes`, `MaxOps`, `MaxBuilds`, `MaxTime`, `MaxLen` and
`MaxNumber` are bounds of the models, not of the code. `HasRoom` stops a write or
flush that would need a level below `MaxLevel`, and a push beyond `MaxLen`. Two keys
are enough to have SSTs beside each other and keys between their ranges; the
properties compare one key at a time. Sizes are small so that freezing, flushing
and compacting follow each other within few writes.

Fairness. `LsmTree!LiveSpec`: weak fairness of the steps of a flush and of the loop of
`flush_all`, which run in one thread and wait for nothing; new requests are not
assumed to come. `MemTableLocks!Fairness`: weak fairness of the steps of each thread
inside a call. A thread that holds no lock anyone else keeps runs on, and since
there are finitely many calls no stream of readers can keep a writer waiting for
ever, so nothing is assumed about the fairness of `std::shared_mutex`.

### Disagreements found

With a run:

- Read-uncommitted abort (`tran_rollback`): `abort` writes the noted value back under the id
  noted with it (transation.cpp:298). T1 puts a, T2 puts b and notes a; T1 puts c
  and commits; T2 aborts and a replaces the committed c. The aborted b, with the
  larger id, stays the newest version beside it. `CommittedKept` goes by key and
  id and does not see this; nothing of it depends on flushes or crashes.
- Commit and put (`threads_commit`): `commit` takes `frozen_mtx` and then `cur_mtx`, `put`
  takes them the other way round, to freeze or to measure. The conflict check
  waits for `ssts_mtx` with both held, while `flush` holds it and waits for
  `frozen_mtx`.
- Expiry (`redis_expiry`): a command gives up the shared lock after it has found the
  deadline passed and removes the value under the exclusive one without looking
  again; a SET in between is lost. All commands that clean do this.

These follow from the modelled steps and have no run of their own:

- `get_batch`: when one key of a batch is not in the memtable, L0 is searched for
  all keys and replaces newer memtable values (engine.cpp:238); an L0 tombstone
  uncovers older values; a memtable tombstone is returned as an empty value.
- Crash in a compaction (`Crash` between two `CompactDelete`): inputs not yet deleted
  are loaded beside the outputs, and the binary search then works on overlapping
  ranges (engine.cpp:617).
- Conflict check (`Conflict`): the id that `sst_get_` returns is the one queried, 0, so a
  competing write that has been flushed is not noticed (transation.cpp:231).
- Late commit (`Commit`): a transaction commits under the id it began with, after
  larger ones; `get` finds the older version first. For this reason
  `ReadsLatest`, `RecencyOrder` and the snapshot properties are checked and proved
  for plain calls only (`LsmTree`), not for `Transactions`.
- Second crash (`InitNewWal`): the log is deleted while the replayed records are only
  in the memtable (transation.cpp:354).
- Torn commit (`DieInCommit`): `WAL::log` appends record by record and recovery
  replays what is there without looking for the commit record, so a part of an
  uncommitted transaction may come back.
- Ids after a crash (`Crash`): the next id is saved only by a clean close, so new
  writes may get ids below those in the files, and `VersionIdsBounded` is lost.
- Two writers (`FlushTake`): `flush_last` takes the current table without `cur_mtx`, so a
  put on another thread may be acknowledged and lost; two flushes of the last
  table dereference a null SST (engine.cpp:509); `get_total_size` takes its locks
  shared twice, which blocks for ever if a writer queues in between. This is why
  the `threads` run has one writer; it says nothing of these cases.
- Compaction (`Finish`): if the last entry fills an SST exactly, the empty builder
  still has a size and `build` throws (engine.cpp:741); the inputs stay in place.
- Range query (`RangeGives`, `RangeScan`): all items of SSTs carry the reader's id, and
  `operator>` then holds both ways between two levels, so an older version may
  come first; a range that ends with the last entry of a block reads on into
  the next one (sst_iterator.cpp:41). Callers in the Redis layer get entries
  beyond their prefix.
- Full scan (`LevelScan`): the heaps over the memtable and L0 swallow their tombstones
  (memtable.cpp:345, level_iterator.cpp:39), so Level_Iterator shows an older value
  of a removed key from below, against its own comment (level_iterator.cpp:64).
- Level_Iterator (`get_min_key_idx`): the empty smallest key, that of the commit
  markers, counts as "none yet".
- BlockCache: two threads that miss on one block reach the branch of `put` that
  block_cache.cpp:39 says is never reached (harmless, `MapAgrees`); with K = 1 a new
  item would be counted as moved while it is in the other list, hence `K >= 2`.
- Redis: DEL leaves the members of sets and the elements of sorted sets (hence
  `Deletable`); SADD counts a member given twice in one call twice (hence sets of
  members); INCR and DECR ignore the deadline; EXPIRE sets a deadline for a key that
  does not exist, and popping the last element leaves one behind; ZADD keeps the
  old score entry of an element, and two elements with one score share an entry
  (hence disjoint scores, and `>=` for ZCARD); ZRANK counts the element entries
  too; LRANGE with a stop below minus the length gives everything.

## 4. Proofs

All theorems hold for every value of the constants: any finite set of keys, any
values, limits, ratios, levels, numbers of threads, items and crashes. The named
assumptions of the modules are all that is assumed (keys are a finite set of
numbers, the tombstone is not a value, limits are natural numbers, the ratio and
the capacity at least 1, K at least 2), except where a hypothesis is stated in the
theorem itself. Every invariant below, `TInv` and `Recent` included, holds in the states
TLC reaches in the runs of its component.

| Theorem | States | Argument |
|---|---|---|
| `LsmTreeProofs!Invariance`, `TypeCorrect`, `LevelsStaySorted`, `RecencyOrdered`, `Refinement` | `IInv`, `TypeOK`, `LevelsSorted`, `RecencyOrder`, `ImplementsMvccStore` | `IInv` is inductive |
| `ReadPathProofs!ReadPathInvariant`, `ReadsNewest`, `SnapshotsStable`, `BatchesFindStored`, `FrozenBytesStayExact` | `ReadInv`, `ReadsLatest`, `SnapshotReadsStable`, `BatchFindsStored`, `FrozenBytesExact` | `IInv` and `ReadInv` together |
| `LsmCrashProofs!CrashInvariance`, `SstIdsStayUnique`, `FlushedDataStays` | `DiskInv`, `SstIdsUnique`, `FlushedStaysOnDisk` | `DiskInv` is inductive under crashes |
| `TransactionsProofs!TranInvariance`, `TransactionsTyped`, `CleanOpens` | `TInv`, `TranTypeOK`, `CleanOpenReplaysNothing`, whatever crashes | `TInv` is inductive |
| `TransactionsProofs!CommitsSurvive`, `SkippedAreOnDisk` | `CommittedKept`, `FlushedIdsOnDisk`, up to the second crash | from `TInv` |
| `TransactionsProofs!CommitsStayWhole`, `ReadsAreClean` | `FlushedWhole`, `NoDirtyReads`, up to the first crash | from `TInv` |
| `TransactionsProofs!ConflictsSeen` | `ConflictSeenInMemory` without crashes, if every transaction checks | `Recent`, above `TInv` |
| `MemTableLocksProofs!PlacesInvariant`, `NoVersionMissed` | `LInv`, `NoMissedVersion`, if one thread writes | `LInv` is inductive |
| `BlockCacheProofs!CacheInvariant`, `ReadersGetOwnFile`, `MapMatchesLists`, `EvictionsOldest` | `CInv`, `ReadsOwnFile`, `MapAgrees`, `EvictsOldest` | `CInv` is inductive |
| `RedisProofs!Invariance`, `HashesAgree`, `SetCounts`, `SortedSetsComplete`, `RangesExact`, `CleansWhole` | `RInv`, `HashAgrees`, `SetCountExact`, `ZRangeComplete`, `RangeExact`, `CleanWhole` | `RInv` is inductive |

**The engine.** The properties are not inductive by themselves. `IInv` adds: every id in
use is below the next one (`VersionIdsBounded`, `SstIdsBounded`), which is why a write
is newer than everything; the balance of a compaction (`MergeOK`: what the iterator
has left and the SSTs built are together the two input levels, in order), which is
why installing the outputs neither loses nor reorders anything; and the sizes
(`SizesAddUp`), which is why a reported size 0 means an empty memtable, so that a
clean close drops nothing. There is one lemma per action; a lemma for an action
says that it preserves `IInv` and what it does to `AllVersions`.

**The read path.** `get` stops at the first place with a hit. `SearchInOrder` says that
this finds the newest version when the places are in the order of recency. Below L0
the places are found by a binary search: `BisectionExists` shows that the recursion
is well-founded, `BisectionFinds` that on disjoint, sorted, non-empty SSTs it ends
at the one that covers the key. `ReadInv` adds what `IInv` leaves open: no SST is
empty (an empty one has no key range to compare with) and none lies below
`cur_max_level`. With `FindIs` (a read gives the newest visible version) a stable
snapshot and the batch follow from what a step does to `AllVersions`.

**Crashes.** A crash in a compaction leaves inputs beside outputs, so `LevelsSorted`,
`RecencyOrder` and `VersionIdsBounded` are lost, and with them `IInv`. `DiskInv` is the
part that survives, strengthened: ids are different over all levels (`ListedOnce`),
outputs have ids of their own, and inputs are deleted only when nothing is left
to write (`CompactSafe`). From it `FilesHoldAll`: the files in the directory hold
what the levels hold at every step of a compaction, whichever inputs are already
gone. That `std::sort` has a result for whatever files are there is `SortExists`.

**Transactions.** The memtable is seen as a row of slots, the current table first and
the oldest frozen table, the next to be flushed, last. `TInv` has three parts that
hold whatever happens: `Manager` (an open transaction, or one that waits for its marker
to be flushed, is not among the ids recovery skips, and every marker in the memtable
is that of a committed transaction), `Contexts` (what a transaction holds carries its own
id, which is above the saved one) and `LogOK` (every transaction in the log counts as
flushed or has its marker in the memtable: hence nothing to replay after a clean
close, which empties the memtable). The lemmas `CompressOK` and `AddFlushedOK` say what
`compressSet` and `add_flushed_tranc_id` do to the ids recovery skips. The other
parts hold for a while:

- `Durable`, up to the second crash: a committed write is on disk, or it is not
  skipped by recovery and is in a slot or in what is still to be replayed. This is not
  inductive without `NotAhead`: no table that is flushed earlier makes the id count as
  flushed. A read-uncommitted transaction has writes in earlier tables than its marker,
  never in later ones, and the ids an `add_flushed_tranc_id` takes along are those of
  aborted transactions only. A second crash does lose committed writes:
  `init_new_wal` has deleted the log while the replayed records are only in the
  memtable (section 3).
- `Fresh` and `Whole`, up to the first crash: no version of a transaction that writes at
  commit is in the store before it commits, nor in the `rollback_map_` of
  another one; the writes of a commit and its marker share a slot, so that one
  flush takes them all. After a crash the id counter goes back to the last clean
  close, ids are given out again, and a new transaction shares an id with versions
  of the log that were replayed: TLC finds both properties violated then.
- `Recent`, up to the first crash: tables nearer the front have the newer versions of
  a key, which is why `MemTable::get`, which stops at the first table with the key, shows
  the newest version to the conflict check. It holds if every transaction checks.
  Beside a read-committed transaction the property is false: it may
  commit an old id in front of a newer version in a frozen table, and the
  check of a third one then sees the old id only.

`NoDirtyReads` speaks of transactions that write at commit. Nothing like it holds of
read-uncommitted ones, whose aborted writes remain in front (section 3); `ReadsAreClean`
holds beside them, which the run does not have.

**Threads.** `LInv` says in which place each version is while a table moves from the
current to the frozen tables to the SSTs, and where each reader has looked. The
hypothesis `OneWriter` of the theorem is the restriction of the `threads` run: with
two writers the property is false (section 3).

**Cache.** `CInv` says that every item is in exactly one list, the one its count
belongs to, with the data of its file, and what every thread carries between its two
lock sections.

**Redis.** `RInv` relates the entries of a value to each other between critical sections
of any number of clients. `SetCounts` has the hypothesis that DEL is not used on sets and
`SortedSetsComplete` that scores are distinct; without them the code breaks the
properties (section 3).

Induction over numbers is done with the set of numbers for which the claim holds
(`NumberFacts!NatInductionSet`), since the provers cannot instantiate the induction
theorems of the library.

Only model-checked: liveness (`DrainTerminates`, `CallsReturn`), which the provers do not
handle; and the properties of `Scans`, `SstBlocks` and `Compaction` (`MemScanExact`,
`ScanFindsAll`, `SearchExact`, `ScanExact`, `RangeComplete`, `MergeExact`), whose iterators,
searches and merges are recursive functions and folds over sequences, so that each of
them is an induction over data.

## 5. Not modelled

- `LSM::clear`, except for what it does to the numbers of SSTs (`BlockCache!Clear`): it
  deletes the files of the log under a running cleaner thread and leaves
  `frozen_bytes` as it is.
- The rotation and the cleaner thread of the log, and its checkpoint.
- `TranContext::get` with `read_map_`, `commit(test_fail)`, and scans of the SSTs inside
  a transaction.
- Block and SST encodings, checksums, mmap and file classes: byte layout and I/O.
  A torn SST file makes the constructor fail.
- VLog: append-only and read through a pointer that never changes.
- Server, configuration and bindings: parsing and dispatch on one thread.

## 6. Plan

1. Storage engine (`Table`, `MvccStore`, `LsmTree`, `LsmCrash`) with its proofs: done.
2. Transactions, log and recovery (`Transactions`): done but for `TranContext::get`.
3. Threads and locks (`MemTableLocks`, `CommitLocks`), Redis layer (`Redis`), block cache
   (`BlockCache`), blocks, iterators and scans (`SstBlocks`, `Compaction`, `Scans`): done.
4. The files of the log with the cleaner thread, and `LSM::clear`.
5. An abstract Redis value per key that `Redis` implements for one client.

All invariants of the runs but those listed at the end of section 4 are theorems.
