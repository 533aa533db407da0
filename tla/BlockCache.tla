----------------------------- MODULE BlockCache -----------------------------
(***************************************************************************)
(* The block cache that all SSTs of an engine share, an LRU-K cache of two *)
(* lists and a map, and the threads that read blocks through it while SSTs *)
(* come and go.                                                            *)
(*                                                                         *)
(* SST::read_block asks the cache, reads the file on a miss and hands the  *)
(* block to the cache; get and put of the cache each run under its mutex,  *)
(* the file is read between them.  Range queries read without ssts_mtx, so *)
(* a flush or compaction may come between any two of these steps, and they *)
(* go on reading SSTs the engine has dropped, which they hold.  A block is *)
(* told from another one with the same number by the file it came from:    *)
(* `files` gives each SST id the number of the build that wrote its file.  *)
(***************************************************************************)
EXTENDS Integers, SequencesExt

CONSTANTS Readers,    \* threads
          BlockIds,   \* the blocks of an SST
          Capacity,   \* LSM_BLOCK_CACHE_CAPACITY
          K,          \* LSM_BLOCK_CACHE_K
          MaxBuilds   \* bound: SST files written

ASSUME CacheAssumption ==
  /\ Capacity \in Nat \ {0}
  /\ K \in Nat /\ K >= 2
  /\ MaxBuilds \in Nat

VARIABLES
  files,        \* the SSTs opened since the engine was: sst_id -> the build of its file
  ssts,         \* LSMEngine::ssts: those of them it has not dropped
  next_sst_id,  \* LSMEngine::next_sst_id
  builds,       \* how many files have been written
  less_k,       \* BlockCache::cache_list_less_k, front first
  greater_k,    \* BlockCache::cache_list_greater_k, front first
  cache_map,    \* BlockCache::cache_map_: (sst_id, block) -> the list its item is in
  op,           \* op[t]: the read of thread t between its get and its put
  returned,     \* what the last read_block of each thread gave
  used_after    \* history: <<x, y>> if of the cached blocks x and y, x was used last

cache == <<less_k, greater_k, cache_map, used_after>>
engine == <<files, ssts, next_sst_id, builds>>
vars == <<engine, cache, op, returned>>

Idle == [step |-> "idle"]
NoRead == [asked |-> 0, got |-> 0]

Key(item) == <<item.sst, item.block>>
KeysOf(list) == {Key(list[i]) : i \in DOMAIN list}
Position(list, key) == CHOOSE i \in DOMAIN list : Key(list[i]) = key

-----------------------------------------------------------------------------
(* The cache.                                                              *)

\* Bound that loses nothing: beyond K + 1 an access count is never looked at.
Counted(item) == [item EXCEPT !.count = IF @ > K THEN @ ELSE @ + 1]

\* The order of last use when the key has been used and these blocks are cached.
Used(key, cached) ==
  {<<key, x>> : x \in cached \ {key}}
    \cup {p \in used_after : p[1] \in cached \ {key} /\ p[2] \in cached \ {key}}

\* Mutant of update_access_count: an item below K accesses keeps its place.
update_access_count_in_place(key, data) ==
  LET list == IF cache_map[key] = "less" THEN less_k ELSE greater_k
      i    == Position(list, key)
      item == [Counted(list[i]) EXCEPT !.data = data]
      rest == RemoveAt(list, i)
  IN  /\ IF item.count < K
         THEN /\ less_k' = ReplaceAt(less_k, i, item)
              /\ UNCHANGED <<greater_k, cache_map>>
         ELSE IF item.count = K
         THEN /\ less_k' = rest
              /\ greater_k' = <<item>> \o greater_k
              /\ cache_map' = [cache_map EXCEPT ![key] = "greater"]
         ELSE /\ greater_k' = <<item>> \o rest
              /\ UNCHANGED <<less_k, cache_map>>
      /\ used_after' = Used(key, DOMAIN cache_map)

\* The item of the key gets the data and counts one more access: it goes to the
\* front of its list, or with the K-th access to the front of the other one.
update_access_count(key, data) ==
  LET list == IF cache_map[key] = "less" THEN less_k ELSE greater_k
      i    == Position(list, key)
      item == [Counted(list[i]) EXCEPT !.data = data]
      rest == RemoveAt(list, i)
  IN  /\ IF item.count < K
         THEN /\ less_k' = <<item>> \o rest
              /\ UNCHANGED <<greater_k, cache_map>>
         ELSE IF item.count = K
         THEN /\ less_k' = rest
              /\ greater_k' = <<item>> \o greater_k
              /\ cache_map' = [cache_map EXCEPT ![key] = "greater"]
         ELSE /\ greater_k' = <<item>> \o rest
              /\ UNCHANGED <<less_k, cache_map>>
      /\ used_after' = Used(key, DOMAIN cache_map)

Full == Cardinality(DOMAIN cache_map) >= Capacity

\* What a put of a new block into a full cache evicts: the last item of
\* cache_list_less_k, or of the other list if that one is empty.
Victim == Key(Last(IF less_k # <<>> THEN less_k ELSE greater_k))
Evicted == IF Full THEN {Victim} ELSE {}

Insert(key, data) ==
  LET item   == [sst |-> key[1], block |-> key[2], data |-> data, count |-> 1]
      cached == (DOMAIN cache_map \ Evicted) \cup {key}
  IN  /\ less_k' = <<item>> \o (IF Full /\ less_k # <<>> THEN Front(less_k) ELSE less_k)
      /\ greater_k' = IF Full /\ less_k = <<>> THEN Front(greater_k) ELSE greater_k
      /\ cache_map' = [x \in cached |-> IF x = key THEN "less" ELSE cache_map[x]]
      /\ used_after' = Used(key, cached)

-----------------------------------------------------------------------------
(* SST::read_block.                                                        *)

Deliver(t, asked, got) ==
  /\ op' = [op EXCEPT ![t] = Idle]
  /\ returned' = [returned EXCEPT ![t] = [asked |-> asked, got |-> got]]

\* BlockCache::get finds the block.
ReadHit(t, id, b) ==
  /\ op[t] = Idle
  /\ id \in DOMAIN files
  /\ <<id, b>> \in DOMAIN cache_map
  /\ LET list == IF cache_map[<<id, b>>] = "less" THEN less_k ELSE greater_k
         data == list[Position(list, <<id, b>>)].data
     IN  /\ update_access_count(<<id, b>>, data)
         /\ Deliver(t, files[id], data)
  /\ UNCHANGED engine

\* BlockCache::get does not; the thread goes to the file it has open.
ReadMiss(t, id, b) ==
  /\ op[t] = Idle
  /\ id \in DOMAIN files
  /\ <<id, b>> \notin DOMAIN cache_map
  /\ op' = [op EXCEPT ![t] = [step |-> "load", key |-> <<id, b>>, file |-> files[id]]]
  /\ UNCHANGED <<engine, cache, returned>>

\* Mutant of ReadPut: the block is inserted without another look at the map.
ReadPutBlindly(t) ==
  /\ op[t] # Idle
  /\ Insert(op[t].key, op[t].file)
  /\ Deliver(t, op[t].file, op[t].file)
  /\ UNCHANGED engine

\* BlockCache::put of what was read.  Another thread may have missed and put the
\* same block meanwhile: then its item is updated.
ReadPut(t) ==
  /\ op[t] # Idle
  /\ IF op[t].key \in DOMAIN cache_map
     THEN update_access_count(op[t].key, op[t].file)
     ELSE Insert(op[t].key, op[t].file)
  /\ Deliver(t, op[t].file, op[t].file)
  /\ UNCHANGED engine

-----------------------------------------------------------------------------
(* The engine.                                                             *)

\* A flush or a compaction writes an SST.
Build ==
  /\ builds < MaxBuilds
  /\ builds' = builds + 1
  /\ files' = [i \in DOMAIN files \cup {next_sst_id} |->
                 IF i = next_sst_id THEN builds + 1 ELSE files[i]]
  /\ ssts' = ssts \cup {next_sst_id}
  /\ next_sst_id' = next_sst_id + 1
  /\ UNCHANGED <<cache, op, returned>>

\* A compaction deletes one.  A reader that has it keeps it open.
Drop(id) ==
  /\ id \in ssts
  /\ ssts' = ssts \ {id}
  /\ UNCHANGED <<files, next_sst_id, builds, cache, op, returned>>

\* Mutant of Clear: the ids start again.
ClearResetsIds ==
  /\ ssts # {}
  /\ ssts' = {}
  /\ next_sst_id' = 0
  /\ UNCHANGED <<files, builds, cache, op, returned>>

\* LSM::clear takes no lock (what it does to the containers under a reader is left
\* out); the SST ids go on and the cache keeps its blocks.
Clear ==
  /\ ssts # {}
  /\ ssts' = {}
  /\ UNCHANGED <<files, next_sst_id, builds, cache, op, returned>>

\* Close and open, with no call under way: a new cache, and the ids go on after
\* the largest file there is, so the ids of deleted files are used again.
Reopen ==
  /\ \A t \in Readers : op[t] = Idle
  /\ files' = [id \in ssts |-> files[id]]
  /\ next_sst_id' = Max(ssts \cup {-1}) + 1
  /\ less_k' = <<>> /\ greater_k' = <<>> /\ cache_map' = <<>> /\ used_after' = {}
  /\ returned' = [t \in Readers |-> NoRead]
  /\ UNCHANGED <<ssts, builds, op>>

-----------------------------------------------------------------------------
Init ==
  /\ files = <<>> /\ ssts = {} /\ next_sst_id = 0 /\ builds = 0
  /\ less_k = <<>> /\ greater_k = <<>> /\ cache_map = <<>> /\ used_after = {}
  /\ op = [t \in Readers |-> Idle]
  /\ returned = [t \in Readers |-> NoRead]

Next ==
  \/ \E t \in Readers :
       \/ \E id \in DOMAIN files, b \in BlockIds : ReadHit(t, id, b) \/ ReadMiss(t, id, b)
       \/ ReadPut(t)
  \/ Build
  \/ \E id \in ssts : Drop(id)
  \/ Clear
  \/ Reopen

Spec == Init /\ [][Next]_vars

-----------------------------------------------------------------------------
(* Properties.                                                             *)

\* A block that read_block returns is the one of the file it was asked for,
\* although ids of SSTs are used again after a reopen, blocks of deleted SSTs stay
\* in the cache, and SSTs are written and deleted while a read is under way.
ReadsOwnFile == \A t \in Readers : returned[t].got = returned[t].asked

\* The map and the lists describe the same cache, after any mix of hits, misses
\* of two threads on the same block, promotions and evictions: every item is in
\* one list once, and that is the list the iterator in the map leads to.
MapAgrees ==
  /\ DOMAIN cache_map = KeysOf(less_k) \cup KeysOf(greater_k)
  /\ Cardinality(DOMAIN cache_map) = Len(less_k) + Len(greater_k)
  /\ \A key \in DOMAIN cache_map :
       key \in KeysOf(IF cache_map[key] = "less" THEN less_k ELSE greater_k)

\* The cache never holds more blocks than its capacity, and each list is ordered
\* by last use, so that an eviction takes the least recently used block of its
\* list.
EvictsOldest ==
  /\ Len(less_k) + Len(greater_k) <= Capacity
  /\ \A list \in {less_k, greater_k} : \A i, j \in DOMAIN list :
       i < j => <<Key(list[i]), Key(list[j])>> \in used_after
=============================================================================
