------------------------------ MODULE LsmTree ------------------------------
(***************************************************************************)
(* The storage engine: MemTable (a current table and frozen tables), the   *)
(* levels of SSTs, flush with its cascade of full compactions, the read    *)
(* path, and the directory an engine loads when it is opened.              *)
(*                                                                         *)
(* One thread runs the engine (as in the server): an operation runs to its *)
(* end before the next begins.  A flush is nevertheless cut into steps,    *)
(* one per file it creates or deletes, because a crash may fall between    *)
(* any two of them.  `job` is how far the running flush has come.          *)
(***************************************************************************)
EXTENDS Table, Integers, SequencesExt

CONSTANTS PerMemLimit,  \* LSM_PER_MEM_SIZE_LIMIT, in entries
          TolMemLimit,  \* LSM_TOL_MEM_SIZE_LIMIT, in entries
          LevelRatio,   \* LSM_SST_LEVEL_RATIO
          MaxLevel,     \* bound: deepest level of the model
          MaxTrancId    \* bound: transaction ids handed out

ASSUME SizesAssumption == /\ PerMemLimit \in Nat
                          /\ TolMemLimit \in Nat \ {0}
                          /\ LevelRatio \in Nat \ {0}
ASSUME BoundsAssumption == MaxLevel \in Nat \ {0} /\ MaxTrancId \in Nat

VARIABLES
  current_table,  \* MemTable::current_table
  frozen_tables,  \* MemTable::frozen_tables, newest first
  frozen_bytes,   \* MemTable::frozen_bytes, in entries
  levels,         \* level_sst_ids and ssts: per level, its SSTs in search order
  cur_max_level,  \* LSMEngine::cur_max_level
  next_sst_id,    \* LSMEngine::next_sst_id
  next_tranc_id,  \* TranManager::nextTransactionId_
  mode,           \* "open", "draining" (in flush_all) or "closing" (in ~LSM)
  job             \* the flush in progress

memVars == <<current_table, frozen_tables, frozen_bytes>>
sstVars == <<levels, cur_max_level, next_sst_id>>
lsmVars == <<memVars, sstVars, next_tranc_id, mode, job>>

Level == 0 .. MaxLevel
Sst   == [id : Nat, table : Tables]

\* phase: "idle"; "build" writes the merge of `level` and the next level,
\* `rest` is what the iterator still has to give and `built` the SSTs written;
\* "delete" removes the input files, `gone` of them so far; "flush" is about
\* to write the oldest memtable.
Job == [phase : {"idle", "build", "delete", "flush"}, level : Level,
        rest : Tables, built : Seq(Sst), gone : Nat]

AtPhase(p) == [phase |-> p, level |-> 0, rest |-> {}, built |-> <<>>, gone |-> 0]
Idle == AtPhase("idle")

LevelVersions(lv, l) == UNION {lv[l][i].table : i \in DOMAIN lv[l]}

MemVersions  == current_table \cup UNION {frozen_tables[i] : i \in DOMAIN frozen_tables}
DiskVersions == UNION {LevelVersions(levels, l) : l \in Level}
AllVersions  == MemVersions \cup DiskVersions

\* MemTable::get_total_size
TotalSize == frozen_bytes + Cardinality(current_table)

-----------------------------------------------------------------------------
(* The read path.  Every search result is a set of at most one version.    *)

\* Of the places searched in order, the first one with a result.
FirstHit(results) ==
  LET first == CHOOSE i \in DOMAIN results :
                 results[i] # {} /\ \A j \in DOMAIN results : j < i => results[j] = {}
  IN  IF \A i \in DOMAIN results : results[i] = {} THEN {} ELSE results[first]

\* Mutant of MemGet: the frozen tables are searched from the oldest.
MemGetOldestFirst(k, q) ==
  FirstHit(<<TableGet(current_table, k, q)>>
             \o [i \in DOMAIN frozen_tables |->
                   TableGet(Reverse(frozen_tables)[i], k, q)])

\* MemTable::get: the current table, then the frozen ones from the newest.
MemGet(k, q) ==
  FirstHit([i \in 1 .. Len(frozen_tables) + 1 |->
              TableGet((<<current_table>> \o frozen_tables)[i], k, q)])

\* L0: every SST from the front of the list.
L0Get(k, q) ==
  FirstHit([i \in DOMAIN levels[0] |-> SstGet(levels[0][i].table, k, q)])

\* L1 and below: binary search for an SST whose key range covers k; 0 if none.
\* The window is [left, right) with positions from 0, as in the code.
BinarySearch(ssts, k) ==
  LET pos == 0 .. Len(ssts)
      search[w \in pos \X pos] ==
        LET left  == w[1]
            right == w[2]
            mid   == left + (right - left) \div 2
            t     == ssts[mid + 1].table
        IN  IF left >= right     THEN 0
            ELSE IF InRange(t, k)     THEN mid + 1
            ELSE IF LastKey(t) < k    THEN search[<<mid + 1, right>>]
            ELSE search[<<left, mid>>]
  IN  search[<<0, Len(ssts)>>]

LevelGet(l, k, q) ==
  LET i == BinarySearch(levels[l], k)
  IN  IF i = 0 THEN {} ELSE SstGet(levels[l][i].table, k, q)

SstsGet(l, k, q) == IF l = 0 THEN L0Get(k, q) ELSE LevelGet(l, k, q)

\* LSMEngine::get down to the version found, tombstones included.
Find(k, q) ==
  FirstHit([l \in -1 .. cur_max_level |->
              IF l = -1 THEN MemGet(k, q) ELSE SstsGet(l, k, q)])

\* LSMEngine::get as its caller sees it: an empty value is "not found".
Get(k, q) == {v \in Find(k, q) : v.val # Tombstone}

\* Mutant of GetBatch: a hit in L0 ends the search for the whole batch.
GetBatchStopsAtL0(ks, q) ==
  LET inMem  == [k \in ks |-> MemGet(k, q)]
      inL0   == [k \in ks |-> IF L0Get(k, q) = {} THEN inMem[k]
                              ELSE {v \in L0Get(k, q) : v.val # Tombstone}]
      below(k) ==
        FirstHit([l \in 1 .. cur_max_level |->
                    {v \in LevelGet(l, k, q) : v.val # Tombstone}])
  IN  IF \E k \in ks : inL0[k] # {} THEN inL0 ELSE [k \in ks |-> below(k)]

\* LSMEngine::get_batch.  Once some key of the batch is missing from the
\* memtable, L0 is searched for every key; deeper levels are searched for
\* every key that still has no value.
GetBatch(ks, q) ==
  LET inMem  == [k \in ks |-> MemGet(k, q)]
      inL0   == [k \in ks |-> IF L0Get(k, q) = {} THEN inMem[k]
                              ELSE {v \in L0Get(k, q) : v.val # Tombstone}]
      below(k) ==
        FirstHit([l \in 1 .. cur_max_level |->
                    {v \in LevelGet(l, k, q) : v.val # Tombstone}])
  IN  IF \A k \in ks : inMem[k] # {} THEN inMem
      ELSE [k \in ks |-> IF inL0[k] # {} THEN inL0[k] ELSE below(k)]

-----------------------------------------------------------------------------
(* Flush and compaction.                                                   *)

\* What the TwoMergeIterator over two levels gives, every version of every
\* key included (keep_all_versions).
Merge(lv, l) == LevelVersions(lv, l) \cup LevelVersions(lv, l + 1)

\* full_l0_l1_compact and full_common_compact up to gen_sst_from_iter.
StartCompact(lv, l) ==
  [phase |-> "build", level |-> l,
   rest  |-> Merge(lv, l),
   built |-> <<>>, gone |-> 0]

\* Where the recursion of full_compact(0) ends: the first level whose next
\* level is not full.  It is compacted first, then the ones above it.
DeepestFull ==
  CHOOSE l \in 0 .. MaxLevel - 1 :
    /\ Len(levels[l + 1]) < LevelRatio
    /\ \A m \in 0 .. l - 1 : Len(levels[m + 1]) >= LevelRatio

HasRoom == \E l \in 1 .. MaxLevel : Len(levels[l]) < LevelRatio

\* LSMEngine::flush up to its first file operation.
FlushEntry ==
  IF Len(levels[0]) >= LevelRatio THEN StartCompact(levels, DeepestFull)
  ELSE AtPhase("flush")

\* Mutant of CompactBuild: an SST may end between two versions of one key.
CompactBuildSplitsKeys ==
  /\ job.phase = "build"
  /\ \E cut \in job.rest :
       LET t == {v \in job.rest : v.key < cut.key \/ (v.key = cut.key /\ v.id >= cut.id)}
       IN  job' = [job EXCEPT
             !.phase = IF t = job.rest THEN "delete" ELSE "build",
             !.rest  = job.rest \ t,
             !.built = Append(job.built, [id |-> next_sst_id, table |-> t])]
  /\ next_sst_id' = next_sst_id + 1
  /\ UNCHANGED <<memVars, levels, cur_max_level, next_tranc_id, mode>>

\* Mutant of CompactBuild: only the newest version of a key is kept.
CompactBuildDropsOld ==
  /\ job.phase = "build"
  /\ \E cut \in KeysOf(job.rest) :
       LET t == {v \in job.rest : v.key <= cut}
       IN  job' = [job EXCEPT
             !.phase = IF t = job.rest THEN "delete" ELSE "build",
             !.rest  = job.rest \ t,
             !.built = Append(job.built, [id |-> next_sst_id,
                         table |-> UNION {TableGet(t, k, 0) : k \in KeysOf(t)}])]
  /\ next_sst_id' = next_sst_id + 1
  /\ UNCHANGED <<memVars, levels, cur_max_level, next_tranc_id, mode>>

\* One SST of gen_sst_from_iter.  The size threshold is abstracted: the SST
\* may end after any key, but never between two versions of one key.  Sizes
\* are in Compaction, and with them the last SST that ends exactly with the
\* input, after which gen_sst_from_iter throws.
CompactBuild ==
  /\ job.phase = "build"
  /\ \E cut \in KeysOf(job.rest) :
       LET t == {v \in job.rest : v.key <= cut}
       IN  job' = [job EXCEPT
             !.phase = IF t = job.rest THEN "delete" ELSE "build",
             !.rest  = job.rest \ t,
             !.built = Append(job.built, [id |-> next_sst_id, table |-> t])]
  /\ next_sst_id' = next_sst_id + 1
  /\ UNCHANGED <<memVars, levels, cur_max_level, next_tranc_id, mode>>

\* The input files, in the order full_compact deletes them.
Doomed == levels[job.level] \o levels[job.level + 1]

\* Mutant of CompactDelete: an input is deleted while outputs are unwritten.
CompactDeleteEarly ==
  /\ job.phase \in {"build", "delete"}
  /\ job.gone < Len(Doomed)
  /\ job' = [job EXCEPT !.gone = @ + 1]
  /\ UNCHANGED <<memVars, sstVars, next_tranc_id, mode>>

CompactDelete ==
  /\ job.phase = "delete"
  /\ job.gone < Len(Doomed)
  /\ job' = [job EXCEPT !.gone = @ + 1]
  /\ UNCHANGED <<memVars, sstVars, next_tranc_id, mode>>

\* Mutant of CompactInstall: the target level keeps its old SSTs and loses
\* the new ones.
CompactInstallKeepsOld ==
  LET lv == [levels EXCEPT ![job.level] = <<>>]
  IN  /\ job.phase = "delete"
      /\ job.gone = Len(Doomed)
      /\ levels' = lv
      /\ cur_max_level' = Max({cur_max_level, job.level + 1})
      /\ job' = IF job.level = 0 THEN AtPhase("flush")
                ELSE StartCompact(lv, job.level - 1)
      /\ UNCHANGED <<memVars, next_sst_id, next_tranc_id, mode>>

\* The tail of full_compact, and the return into the caller: the full_compact
\* of the level above, or flush.
CompactInstall ==
  LET lv == [levels EXCEPT ![job.level] = <<>>, ![job.level + 1] = job.built]
  IN  /\ job.phase = "delete"
      /\ job.gone = Len(Doomed)
      /\ levels' = lv
      /\ cur_max_level' = Max({cur_max_level, job.level + 1})
      /\ job' = IF job.level = 0 THEN AtPhase("flush")
                ELSE StartCompact(lv, job.level - 1)
      /\ UNCHANGED <<memVars, next_sst_id, next_tranc_id, mode>>

\* The table MemTable::flush_last takes: the oldest frozen table, or else the
\* current one.
FlushSource == IF frozen_tables = <<>> THEN current_table ELSE Last(frozen_tables)

\* Mutant of FlushLast: the new SST goes to the back of L0.
FlushLastPushBack ==
  /\ job.phase = "flush"
  /\ FlushSource # {}
  /\ levels' = [levels EXCEPT ![0] = Append(@, [id |-> next_sst_id, table |-> FlushSource])]
  /\ IF frozen_tables = <<>>
     THEN current_table' = {} /\ UNCHANGED <<frozen_tables, frozen_bytes>>
     ELSE /\ frozen_tables' = Front(frozen_tables)
          /\ frozen_bytes' = frozen_bytes - Cardinality(FlushSource)
          /\ UNCHANGED current_table
  /\ next_sst_id' = next_sst_id + 1
  /\ job' = Idle
  /\ UNCHANGED <<cur_max_level, next_tranc_id, mode>>

\* Mutant of FlushLast: frozen_bytes is not reduced.
FlushLastKeepsBytes ==
  /\ job.phase = "flush"
  /\ FlushSource # {}
  /\ levels' = [levels EXCEPT ![0] = <<[id |-> next_sst_id, table |-> FlushSource]>> \o @]
  /\ IF frozen_tables = <<>>
     THEN current_table' = {} /\ UNCHANGED frozen_tables
     ELSE frozen_tables' = Front(frozen_tables) /\ UNCHANGED current_table
  /\ next_sst_id' = next_sst_id + 1
  /\ job' = Idle
  /\ UNCHANGED <<frozen_bytes, cur_max_level, next_tranc_id, mode>>

\* MemTable::flush_last and the rest of LSMEngine::flush.
FlushLast ==
  /\ job.phase = "flush"
  /\ FlushSource # {}
  /\ levels' = [levels EXCEPT ![0] = <<[id |-> next_sst_id, table |-> FlushSource]>> \o @]
  /\ IF frozen_tables = <<>>
     THEN current_table' = {} /\ UNCHANGED <<frozen_tables, frozen_bytes>>
     ELSE /\ frozen_tables' = Front(frozen_tables)
          /\ frozen_bytes' = frozen_bytes - Cardinality(FlushSource)
          /\ UNCHANGED current_table
  /\ next_sst_id' = next_sst_id + 1
  /\ job' = Idle
  /\ UNCHANGED <<cur_max_level, next_tranc_id, mode>>

FlushStep == CompactBuild \/ CompactDelete \/ CompactInstall \/ FlushLast

-----------------------------------------------------------------------------
(* The operations of class LSM.                                            *)

Ready == mode = "open" /\ job = Idle

\* MemTable::put and its variants: insert, then freeze the table if it has
\* outgrown its limit.
MemInsert(B) ==
  LET t == TablePut(current_table, B)
  IN  IF Cardinality(t) > PerMemLimit
      THEN /\ current_table' = {}
           /\ frozen_tables' = <<t>> \o frozen_tables
           /\ frozen_bytes' = frozen_bytes + Cardinality(t)
      ELSE current_table' = t /\ UNCHANGED <<frozen_tables, frozen_bytes>>

\* LSMEngine::put and its variants: the memtable insert, then flush if the
\* memtable as a whole is too large.
EngineWrite(B) ==
  /\ HasRoom
  /\ MemInsert(B)
  /\ job' = IF TotalSize' >= TolMemLimit THEN FlushEntry ELSE Idle
  /\ UNCHANGED <<sstVars, mode>>

NewTrancId ==
  /\ next_tranc_id <= MaxTrancId
  /\ next_tranc_id' = next_tranc_id + 1

\* LSM::put and LSM::put_batch
Put(f) == Ready /\ NewTrancId /\ EngineWrite(Batch(f, next_tranc_id))

\* LSM::remove and LSM::remove_batch
RemoveKeys(ks) ==
  /\ Ready
  /\ NewTrancId
  /\ EngineWrite(Batch([k \in ks |-> Tombstone], next_tranc_id))

\* LSM::get and LSM::get_batch take an id; what they return is Get, GetBatch.
Read == Ready /\ NewTrancId /\ UNCHANGED <<memVars, sstVars, mode, job>>

\* LSM::flush
Flush ==
  /\ Ready
  /\ TotalSize > 0
  /\ HasRoom
  /\ job' = FlushEntry
  /\ UNCHANGED <<memVars, sstVars, next_tranc_id, mode>>

\* LSM::flush_all (SAVE) and ~LSM both flush until the memtable is empty.
FlushAll(m) ==
  /\ Ready
  /\ mode' = m
  /\ UNCHANGED <<memVars, sstVars, next_tranc_id, job>>

Drain ==
  /\ mode # "open"
  /\ job = Idle
  /\ TotalSize > 0
  /\ HasRoom
  /\ job' = FlushEntry
  /\ UNCHANGED <<memVars, sstVars, next_tranc_id, mode>>

Drained ==
  /\ mode = "draining"
  /\ job = Idle
  /\ TotalSize = 0
  /\ mode' = "open"
  /\ UNCHANGED <<memVars, sstVars, next_tranc_id, job>>

-----------------------------------------------------------------------------
(* Opening a directory.                                                    *)

\* The SST files on disk whose name carries level l.
FilesAt(l) ==
  LET deleted == {Doomed[i] : i \in 1 .. job.gone}
      busy    == job.phase \in {"build", "delete"}
  IN  IF ~busy THEN ToSet(levels[l])
      ELSE (ToSet(levels[l]) \ deleted)
             \cup (IF l = job.level + 1 THEN ToSet(job.built) ELSE {})

\* std::sort by sst id.
SortedById(S) ==
  CHOOSE s \in [1 .. Cardinality(S) -> S] :
    /\ ToSet(s) = S
    /\ \A i, j \in DOMAIN s : i < j => s[i].id < s[j].id

\* Mutant of Load: the largest SST id found is handed out again.
LoadReusesId(files) ==
  /\ levels' = [l \in Level |-> IF l = 0 THEN Reverse(SortedById(files[0]))
                                ELSE SortedById(files[l])]
  /\ cur_max_level' = Max({0} \cup {l \in Level : files[l] # {}})
  /\ next_sst_id' = Max({0} \cup {s.id : s \in UNION {files[l] : l \in Level}})
  /\ current_table' = {}
  /\ frozen_tables' = <<>>
  /\ frozen_bytes' = 0
  /\ mode' = "open"
  /\ job' = Idle

\* The constructor of LSMEngine on these files.
Load(files) ==
  /\ levels' = [l \in Level |-> IF l = 0 THEN Reverse(SortedById(files[0]))
                                ELSE SortedById(files[l])]
  /\ cur_max_level' = Max({0} \cup {l \in Level : files[l] # {}})
  /\ next_sst_id' = Max({0} \cup {s.id : s \in UNION {files[l] : l \in Level}}) + 1
  /\ current_table' = {}
  /\ frozen_tables' = <<>>
  /\ frozen_bytes' = 0
  /\ mode' = "open"
  /\ job' = Idle

\* The end of ~LSM, which saves the next transaction id, and the next LSM on
\* the same directory, which reads it back.
Reopen ==
  /\ mode = "closing"
  /\ job = Idle
  /\ TotalSize = 0
  /\ Load([l \in Level |-> FilesAt(l)])
  /\ UNCHANGED next_tranc_id

-----------------------------------------------------------------------------
Init ==
  /\ current_table = {}
  /\ frozen_tables = <<>>
  /\ frozen_bytes = 0
  /\ levels = [l \in Level |-> <<>>]
  /\ cur_max_level = 0
  /\ next_sst_id = 1
  /\ next_tranc_id = 1
  /\ mode = "open"
  /\ job = Idle

\* A call of class LSM.
Request ==
  \/ \E ks \in SUBSET Keys \ {{}} :
       \/ \E f \in [ks -> Values] : Put(f)
       \/ RemoveKeys(ks)
  \/ Read
  \/ Flush
  \/ FlushAll("draining")
  \/ FlushAll("closing")

Operate ==
  \/ Request
  \/ Drain
  \/ Drained
  \/ CompactBuild
  \/ CompactDelete
  \/ CompactInstall
  \/ FlushLast

Next == Operate \/ Reopen

Spec == Init /\ [][Next]_lsmVars

\* A flush, and the loop of flush_all, run without waiting for anything.
LiveSpec == Spec /\ WF_lsmVars(FlushStep) /\ WF_lsmVars(Drain \/ Drained \/ Reopen)

-----------------------------------------------------------------------------
(* Properties.                                                             *)

\* Type invariant of the engine's state.
TypeOK ==
  /\ current_table \in Tables
  /\ frozen_tables \in Seq(Tables)
  /\ frozen_bytes \in Nat
  /\ levels \in [Level -> Seq(Sst)]
  /\ cur_max_level \in Level
  /\ next_sst_id \in Nat \ {0}
  /\ next_tranc_id \in Nat \ {0}
  /\ mode \in {"open", "draining", "closing"}
  /\ job \in Job

\* LSMEngine::get stops at the first table that holds a visible version.
\* Whatever was frozen, flushed or compacted meanwhile, that is the version
\* with the largest visible transaction id of the whole store.
ReadsLatest ==
  \A k \in Keys, q \in 0 .. next_tranc_id :
    Find(k, q) = TableGet(AllVersions, k, q)

\* A snapshot read is repeatable: once the id q has been handed out, no later
\* write, freeze, flush, compaction or reopen changes what get(k, q) returns.
SnapshotReadsStable ==
  [][\A k \in Keys, q \in 1 .. next_tranc_id - 1 :
       Find(k, q)' = Find(k, q)]_lsmVars

\* SSTs in the order of their ids, each with smaller keys than the next.
SortedSsts(ssts) ==
  \A i, j \in DOMAIN ssts :
    i < j => /\ ssts[i].id < ssts[j].id
             /\ \A v \in ssts[i].table, w \in ssts[j].table : v.key < w.key

\* What the binary search of the read path relies on: at L1 and below the key
\* ranges of the SSTs are disjoint and in the order of the SST ids; L0 lists
\* its SSTs from the newest.
LevelsSorted ==
  /\ \A i, j \in DOMAIN levels[0] : i < j => levels[0][i].id > levels[0][j].id
  /\ \A l \in 1 .. MaxLevel : SortedSsts(levels[l])

Newer(S, T) == \A v \in S, w \in T : v.id > w.id

\* Newer data sits nearer the front of the read path: the memtable before
\* the SSTs, the current table before the frozen ones, each level before the
\* next.  It is why get may stop at its first hit.
RecencyOrder ==
  /\ Newer(MemVersions, DiskVersions)
  /\ \A i \in DOMAIN frozen_tables : Newer(current_table, frozen_tables[i])
  /\ \A i, j \in DOMAIN frozen_tables :
       i < j => Newer(frozen_tables[i], frozen_tables[j])
  /\ \A i, j \in DOMAIN levels[0] :
       i < j => Newer(levels[0][i].table, levels[0][j].table)
  /\ \A l, m \in Level :
       l < m => Newer(LevelVersions(levels, l), LevelVersions(levels, m))

\* The running total that put compares with the limit and flush_all loops on
\* is the size of the frozen tables, through every freeze and flush.
FrozenBytesExact ==
  LET sum[i \in 0 .. Len(frozen_tables)] ==
        IF i = 0 THEN 0 ELSE sum[i - 1] + Cardinality(frozen_tables[i])
  IN  frozen_bytes = sum[Len(frozen_tables)]

\* The engine implements the multi-version map: every step adds the versions
\* of one write or nothing, and no flush, compaction or reopen loses, invents
\* or alters a version.
Mvcc == INSTANCE MvccStore WITH versions <- AllVersions
ImplementsMvccStore == Mvcc!MvccSpec

\* flush_all and the destructor's flush loop come to an end.
DrainTerminates == mode # "open" ~> mode = "open"

\* A batch read finds every key whose visible versions are all in SSTs, with the
\* version get finds, whatever the other keys of the batch are and wherever
\* they were found.  Keys that are in the memtable too are left out: a version in
\* L0 takes the place of the newer one there.
BatchFindsStored ==
  Ready => \A ks \in SUBSET Keys, q \in 1 .. next_tranc_id : \A k \in ks :
             MemGet(k, q) = {} /\ Get(k, q) # {} => GetBatch(ks, q)[k] = Get(k, q)

-----------------------------------------------------------------------------
(* The inductive invariant behind the theorems of LsmTreeProofs.           *)

\* The next transaction id is larger than every id in the store, so that what is
\* written next is the newest version and every reader sees what is stored.
VersionIdsBounded == \A v \in AllVersions : v.id < next_tranc_id

SstIdsBounded ==
  \A l \in Level : \A i \in DOMAIN levels[l] : levels[l][i].id < next_sst_id

\* A compaction j of the levels lv: what the iterator has left and what is
\* built make up the two levels, the built SSTs are in order and before the
\* rest, and nothing is left once the inputs are being deleted.
MergeOK(j, lv, nextId) ==
  j.phase \in {"build", "delete"} =>
    /\ j.level < MaxLevel
    /\ j.rest \cup UNION {j.built[i].table : i \in DOMAIN j.built}
         = Merge(lv, j.level)
    /\ SortedSsts(j.built)
    /\ \A i \in DOMAIN j.built :
         /\ j.built[i].id < nextId
         /\ \A v \in j.built[i].table, w \in j.rest : v.key < w.key
    /\ j.phase = "delete" => j.rest = {}

\* sums[i] is the size of the first i frozen tables together.
SizesAddUp ==
  \E sums \in [0 .. Len(frozen_tables) -> 0 .. frozen_bytes] :
    /\ sums[0] = 0
    /\ sums[Len(frozen_tables)] = frozen_bytes
    /\ \A i \in 1 .. Len(frozen_tables) :
         sums[i] = sums[i - 1] + Cardinality(frozen_tables[i])
    /\ \A i, j \in 0 .. Len(frozen_tables) : i <= j => sums[i] <= sums[j]

\* A running flush keeps what it has read and what it has written in balance,
\* ids are handed out above everything in use, and with that every property
\* above is preserved by every step.
IInv ==
  /\ TypeOK
  /\ LevelsSorted
  /\ RecencyOrder
  /\ VersionIdsBounded
  /\ SstIdsBounded
  /\ MergeOK(job, levels, next_sst_id)
  /\ SizesAddUp
=============================================================================
