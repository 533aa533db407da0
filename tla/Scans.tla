------------------------------- MODULE Scans -------------------------------
(***************************************************************************)
(* The scans of the storage engine: the heap iterators over the memtable,  *)
(* the Level_Iterator that LSM::begin returns, and the range query of      *)
(* lsm_iters_monotony_predicate.  They are operators on the state of       *)
(* LsmTree.  Scans that reach the SSTs are modelled for a reader without a *)
(* transaction (tranc_id 0); how one SST is read block by block, and what  *)
(* a range query reads past the end of its range there, is in SstBlocks.   *)
(***************************************************************************)
EXTENDS LsmTree

\* A SearchItem.  `id` is what the iterator it came from reports, which is the
\* version's own tranc_id in the memtable and the reader's in an SST.
Item(v, id, idx, level) == [v |-> v, id |-> id, idx |-> idx, level |-> level]

\* operator> of SearchItem
Greater(x, y) ==
  IF x.v.key # y.v.key THEN x.v.key > y.v.key
  ELSE x.id < y.id \/ x.level < y.level \/ x.idx > y.idx

\* The items of key k that may be on top of a HeapIterator's queue once k is its
\* smallest key.  Of two items of different levels each may be Greater than
\* the other; which one is on top then depends on the layout of the heap.
Tops(items, k) ==
  LET same  == {x \in items : x.v.key = k}
      least == {x \in same : \A y \in same \ {x} : ~Greater(x, y)}
  IN  IF least = {} THEN same ELSE least

\* What a HeapIterator that skips deleted keys gives for k: the top item, and
\* nothing if that is a tombstone, which takes the other items of k with it.
HeapGives(items, k) ==
  {IF x.v.val = Tombstone THEN {} ELSE {x.v} : x \in Tops(items, k)}

ByKey(S) == SetToSortSeq(S, LAMBDA v, w : v.key < w.key)

\* The HeapIterator read to its end, where the items of a key have one order.
HeapRead(items) ==
  ByKey({x.v : x \in {y \in UNION {Tops(items, k) : k \in AllKeys} : y.v.val # Tombstone}})

-----------------------------------------------------------------------------
(* The memtable.                                                           *)

MemTables == <<current_table>> \o frozen_tables

\* The order of the entries in a table.
LaidOut(t) ==
  SetToSortSeq(t, LAMBDA v, w : v.key < w.key \/ (v.key = w.key /\ v.id > w.id))

\* Mutant of Collect: of several items of one key in a row the last is kept.
CollectLast(items) ==
  {items[n] : n \in {m \in DOMAIN items :
                       m = Len(items) \/ items[m + 1].v.key # items[m].v.key}}

\* The loops that fill item_vec drop an item with the key of the item before,
\* be that from the same table or from the one read before it.
Collect(items) ==
  {items[n] : n \in {m \in DOMAIN items : m = 1 \/ items[m - 1].v.key # items[m].v.key}}

\* SkipList::iters_monotony_predicate: from both sides of some entry of the range
\* to the last one of it.
Within(t, ks) == {v \in t : v.key \in ks}

\* What a reader at q sees of each memtable, the keys ks only, in order.
MemItems(ks, q) ==
  FlattenSeq([i \in DOMAIN MemTables |->
    LET seen == LaidOut({v \in Within(MemTables[i], ks) : q = 0 \/ v.id <= q})
    IN  [n \in DOMAIN seen |-> Item(seen[n], seen[n].id, i, 0)]])

\* MemTable::iters_preffix and iters_monotony_predicate over the range ks
MemRange(ks, q) == HeapRead(Collect(MemItems(ks, q)))

\* MemTable::begin pushes every version the reader sees; the heap drops all but
\* the first of a key.
MemScan(q) == HeapRead(ToSet(MemItems(AllKeys, q)))

-----------------------------------------------------------------------------
(* Level_Iterator.                                                         *)

\* What an SST iterator without a transaction passes, by key: the newest version
\* of each, tombstones included.
SstRead(t) == UNION {TableGet(t, k, 0) : k \in AllKeys}

\* The SSTs of a level one after the other.
LevelItems(l, ks) ==
  FlattenSeq([i \in DOMAIN levels[l] |->
    LET read == ByKey({v \in SstRead(levels[l][i].table) : v.key \in ks})
    IN  [n \in DOMAIN read |-> Item(read[n], 0, -levels[l][i].id, l)]])

\* iter_vec: the memtable, L0, then a ConcactIterator for each level below.
Iterators ==
  <<MemScan(0), HeapRead(ToSet(LevelItems(0, AllKeys)))>>
    \o [l \in 1 .. MaxLevel |->
          LET items == LevelItems(l, AllKeys) IN [n \in DOMAIN items |-> items[n].v]]

\* Mutant of get_min_key_idx: of several iterators at one key the last is taken.
get_min_key_idx_last(its) ==
  LET step(min, i) ==
        IF its[i] = <<>> THEN min
        ELSE IF min.key = Marker \/ Head(its[i]).key <= Head(its[min.idx]).key
             THEN [key |-> Head(its[i]).key, idx |-> i]
        ELSE min
  IN  FoldLeft(step, [key |-> Marker, idx |-> 1], [i \in DOMAIN its |-> i]).idx

\* Level_Iterator::get_min_key_idx.  An empty smallest key counts as none so far.
get_min_key_idx(its) ==
  LET step(min, i) ==
        IF its[i] = <<>> THEN min
        ELSE IF min.key = Marker \/ Head(its[i]).key < Head(its[min.idx]).key
             THEN [key |-> Head(its[i]).key, idx |-> i]
        ELSE min
  IN  FoldLeft(step, [key |-> Marker, idx |-> 1], [i \in DOMAIN its |-> i]).idx

\* Level_Iterator::skip_key
skip_key(its, k) ==
  [i \in DOMAIN its |-> IF its[i] # <<>> /\ Head(its[i]).key = k THEN Tail(its[i]) ELSE its[i]]

\* The constructor and operator++: the entry at the smallest key unless it is a
\* tombstone, and on past that key.
LevelScan ==
  LET step(s, n) ==
        IF \A i \in DOMAIN s.its : s.its[i] = <<>> THEN s
        ELSE LET v == Head(s.its[get_min_key_idx(s.its)])
             IN  [its |-> skip_key(s.its, v.key),
                  out |-> IF v.val = Tombstone THEN s.out ELSE Append(s.out, v)]
      length == FoldSeq(LAMBDA it, n : n + Len(it), 0, Iterators)
  IN  FoldLeft(step, [its |-> Iterators, out |-> <<>>], [n \in 1 .. length |-> n]).out

-----------------------------------------------------------------------------
(* The range query.                                                        *)

\* What lsm_iters_monotony_predicate over the range ks may give for a key k of the
\* range: the memtable's answer, or else that of one heap over the SSTs of all
\* levels.
RangeGives(ks, k) ==
  LET mem  == {v \in ToSet(MemRange(ks, 0)) : v.key = k}
      disk == Collect(FlattenSeq([n \in 1 .. MaxLevel + 1 |-> LevelItems(n - 1, ks)]))
  IN  IF mem # {} THEN {mem}
      ELSE IF Tops(disk, k) = {} THEN {{}}
      ELSE HeapGives(disk, k)

-----------------------------------------------------------------------------
(* Properties.                                                             *)

Live(S) == {v \in S : v.val # Tombstone}

\* The scans of the memtable, over all of it or a set of keys, merge the current
\* and the frozen tables into the newest version of each key the reader may
\* see, without the deleted ones.
MemScanExact ==
  Ready => \A q \in 0 .. next_tranc_id :
    /\ MemScan(q) = ByKey(UNION {Live(TableGet(MemVersions, k, q)) : k \in AllKeys})
    /\ \A ks \in SUBSET Keys :
         MemRange(ks, q) = ByKey(UNION {Live(TableGet(MemVersions, k, q)) : k \in ks})

\* A full scan gives, in key order and once, every key that get finds, with the
\* version get finds; a range query does so for every key that no level below
\* L0 holds.
ScanFindsAll ==
  Ready =>
    LET scan == LevelScan
        deep == KeysOf(UNION {LevelVersions(levels, l) : l \in 1 .. MaxLevel})
    IN  /\ \A i, j \in DOMAIN scan : i < j => scan[i].key < scan[j].key
        /\ \A k \in Keys :
             /\ Get(k, 0) \subseteq ToSet(scan)
             /\ k \notin deep /\ Get(k, 0) # {} =>
                  \A lo, hi \in Keys : k \in lo .. hi =>
                    RangeGives(Keys \cap lo .. hi, k) = {Get(k, 0)}
=============================================================================
