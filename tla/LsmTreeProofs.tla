--------------------------- MODULE LsmTreeProofs ---------------------------
(***************************************************************************)
(* Proofs about the storage engine, for every set of keys and values and   *)
(* every size limit.  IInv is inductive: one lemma per action shows that   *)
(* the action preserves it and what the action does to AllVersions, the    *)
(* contents of the store.  NextOK puts them together; the theorems at the  *)
(* end read the properties and the refinement off it.                      *)
(***************************************************************************)
EXTENDS LsmTree, NumberFacts

-----------------------------------------------------------------------------
(* Facts about sets and tables.                                            *)

\* The versions of one call form a table.
LEMMA BatchIsTable ==
  ASSUME NEW ks \in SUBSET Keys, NEW f \in [ks -> Values \cup {Tombstone}], NEW n \in Nat
  PROVE  Batch(f, n) \in Tables
<1> DEFINE e == [k \in ks |-> [key |-> k, id |-> n, val |-> f[k]]]
<1>1. IsFiniteSet(ks)
  BY KeysAssumption, FS_Subset
<1>2. e \in Surjection(ks, Batch(f, n))
  BY DEF Surjection, Batch
<1>3. IsFiniteSet(Batch(f, n))
  BY <1>1, <1>2, FS_Surjection
<1>4. Batch(f, n) \subseteq Version
  BY DEF Batch, Version, AllKeys
<1>5. QED
  BY <1>3, <1>4 DEF Tables

\* SkipList::put turns a table into a table.
LEMMA TablePutIsTable ==
  ASSUME NEW t \in Tables, NEW B \in Tables
  PROVE  TablePut(t, B) \in Tables
<1> DEFINE s == {v \in t : \A w \in B : w.key # v.key \/ w.id # v.id}
<1>1. s \in SUBSET t /\ IsFiniteSet(t) /\ IsFiniteSet(B)
  BY DEF Tables
<1>2. IsFiniteSet(s \cup B)
  BY <1>1, FS_Subset, FS_Union
<1>3. QED
  BY <1>2 DEF TablePut, Tables

\* Keys, the marker included, are natural numbers.
LEMMA KeyIsNat ==
  ASSUME NEW v \in Version
  PROVE  v.key \in Nat
<1>1. AllKeys \subseteq Nat
  BY KeysAssumption DEF AllKeys, Marker
<1>2. QED
  BY <1>1 DEF Version

\* A part of a table is a table.
LEMMA SubTable ==
  ASSUME NEW t \in Tables, NEW s \in SUBSET t
  PROVE  s \in Tables
BY FS_Subset DEF Tables

\* The size of a table is a number, and is 0 for the empty table only: what
\* get_total_size() == 0 tells flush and flush_all.
LEMMA TableSize ==
  ASSUME NEW t \in Tables
  PROVE  Cardinality(t) \in Nat /\ (Cardinality(t) = 0 => t = {})
BY FS_CardinalityType, FS_EmptySet DEF Tables

\* A version is in one of the tables iff it is in their union.
LEMMA InUnion ==
  ASSUME NEW f, NEW D
  PROVE  \A v : v \in UNION {f[i] : i \in D} <=> \E i \in D : v \in f[i]
OBVIOUS

\* Two tables together form a table.
LEMMA UnionIsTable ==
  ASSUME NEW s \in Tables, NEW t \in Tables
  PROVE  s \cup t \in Tables
BY FS_Union DEF Tables

\* The versions of a level form a table.
LEMMA LevelIsTable ==
  ASSUME NEW lv \in [Level -> Seq(Sst)], NEW l \in Level
  PROVE  LevelVersions(lv, l) \in Tables
<1> DEFINE D == DOMAIN lv[l]
           T == {lv[l][i].table : i \in D}
           f == [i \in D |-> lv[l][i].table]
<1>1. lv[l] \in Seq(Sst) /\ D = 1 .. Len(lv[l]) /\ Len(lv[l]) \in Int
  OBVIOUS
<1>2. IsFiniteSet(D)
  BY <1>1, FS_Interval
<1>3. f \in Surjection(D, T)
  BY DEF Surjection
<1>4. IsFiniteSet(T)
  BY <1>2, <1>3, FS_Surjection
<1>5. \A i \in D : lv[l][i] \in Sst
  BY <1>1
<1>6. \A t \in T : t \in SUBSET Version /\ IsFiniteSet(t)
  BY <1>5 DEF Sst, Tables
<1>7. IsFiniteSet(UNION T)
  BY <1>4, <1>6, FS_UNION
<1>8. UNION T \in SUBSET Version
  BY <1>6
<1>9. QED
  BY <1>7, <1>8 DEF LevelVersions, Tables

\* The part of the type invariant that a flush works on.
DiskTyped == levels \in [Level -> Seq(Sst)] /\ next_sst_id \in Nat \ {0} /\ job \in Job

-----------------------------------------------------------------------------
(* Starting a flush.                                                       *)

\* A compaction that has written nothing yet is in balance.
LEMMA StartCompactOK ==
  ASSUME NEW lv \in [Level -> Seq(Sst)], NEW l \in Level, l < MaxLevel, NEW n \in Nat
  PROVE  /\ StartCompact(lv, l) \in Job
         /\ MergeOK(StartCompact(lv, l), lv, n)
<1> DEFINE j == StartCompact(lv, l)
<1>1. l + 1 \in Level
  BY BoundsAssumption DEF Level
<1>2. LevelVersions(lv, l) \cup LevelVersions(lv, l + 1) \in Tables
  BY <1>1, LevelIsTable, UnionIsTable
<1>3. /\ j.phase = "build" /\ j.level = l /\ j.built = <<>> /\ j.gone = 0
      /\ j.rest = LevelVersions(lv, l) \cup LevelVersions(lv, l + 1)
  BY DEF StartCompact, Merge
<1>4. j \in Job
  BY <1>2 DEF Job, StartCompact, Merge
<1>5. MergeOK(j, lv, n)
  BY <1>3 DEF MergeOK, Merge, SortedSsts
<1>6. QED
  BY <1>4, <1>5

\* No compaction runs before and after a flush.
LEMMA AtPhaseOK ==
  ASSUME NEW ph \in {"idle", "flush"}, NEW lv, NEW n
  PROVE  AtPhase(ph) \in Job /\ MergeOK(AtPhase(ph), lv, n)
<1>1. {} \in Tables
  BY FS_EmptySet DEF Tables
<1>2. 0 \in Level
  BY BoundsAssumption DEF Level
<1>3. QED
  BY <1>1, <1>2 DEF AtPhase, Job, MergeOK

\* While some level has room, the recursion of full_compact(0) ends above it.
LEMMA DeepestFullOK ==
  ASSUME DiskTyped, HasRoom
  PROVE  DeepestFull \in 0 .. MaxLevel - 1
<1> DEFINE S == {l \in 0 .. MaxLevel - 1 : Len(levels[l + 1]) < LevelRatio}
<1>1. PICK k \in 1 .. MaxLevel : Len(levels[k]) < LevelRatio
  BY DEF HasRoom
<1>2. k - 1 \in S
  BY <1>1, BoundsAssumption
<1>3. PICK m \in S : \A y \in S : m <= y
  <2>1. S # {}
    BY <1>2
  <2>2. S \in SUBSET (0 .. MaxLevel - 1)
    OBVIOUS
  <2>3. S \in SUBSET Nat
    BY <2>2, BoundsAssumption
  <2>4. QED
    BY <2>1, <2>3, LeastElement
<1>4. \A i \in 0 .. m - 1 : Len(levels[i + 1]) >= LevelRatio
  <2> SUFFICES ASSUME NEW i \in 0 .. m - 1  PROVE Len(levels[i + 1]) >= LevelRatio
    OBVIOUS
  <2>1. i \in 0 .. MaxLevel - 1 /\ i \notin S
    BY <1>3, BoundsAssumption
  <2>2. i + 1 \in Level
    BY <2>1, BoundsAssumption DEF Level
  <2>3. Len(levels[i + 1]) \in Nat
    BY <2>2 DEF DiskTyped
  <2>4. QED
    BY <2>1, <2>3, SizesAssumption
<1>5. QED
  BY <1>3, <1>4 DEF DeepestFull

\* LSMEngine::flush begins with a compaction in balance or with none.
LEMMA FlushEntryOK ==
  ASSUME DiskTyped, HasRoom
  PROVE  FlushEntry \in Job /\ MergeOK(FlushEntry, levels, next_sst_id)
<1>1. levels \in [Level -> Seq(Sst)] /\ next_sst_id \in Nat
  BY DEF DiskTyped
<1>2. DeepestFull \in Level /\ DeepestFull < MaxLevel
  BY DeepestFullOK, BoundsAssumption DEF Level
<1>3. /\ StartCompact(levels, DeepestFull) \in Job
      /\ MergeOK(StartCompact(levels, DeepestFull), levels, next_sst_id)
  BY <1>1, <1>2, StartCompactOK
<1>4. AtPhase("flush") \in Job /\ MergeOK(AtPhase("flush"), levels, next_sst_id)
  BY AtPhaseOK
<1>5. QED
  BY <1>3, <1>4 DEF FlushEntry
-----------------------------------------------------------------------------
(* Writes.                                                                 *)

\* What the order of the read path says of the memtable alone.
MemRecency ==
  /\ \A i \in DOMAIN frozen_tables : Newer(current_table, frozen_tables[i])
  /\ \A i, j \in DOMAIN frozen_tables :
       i < j => Newer(frozen_tables[i], frozen_tables[j])

\* ... and of the levels alone.
DiskRecency ==
  /\ \A i, j \in DOMAIN levels[0] :
       i < j => Newer(levels[0][i].table, levels[0][j].table)
  /\ \A l, m \in Level :
       l < m => Newer(LevelVersions(levels, l), LevelVersions(levels, m))

\* Every entry of a level's list is an SST.
LEMMA SstsTyped ==
  ASSUME TypeOK
  PROVE  \A l \in Level : /\ levels[l] \in Seq(Sst)
                          /\ \A i \in DOMAIN levels[l] : levels[l][i] \in Sst
<1>1. \A l \in Level : levels[l] \in Seq(Sst)
  BY DEF TypeOK
<1>2. QED
  BY <1>1

\* Whatever the memtable and the SSTs hold are versions.
LEMMA VersionsTyped ==
  ASSUME TypeOK
  PROVE  /\ \A v \in AllVersions : v \in Version
         /\ \A l \in Level : LevelVersions(levels, l) \in SUBSET Version
<1>1. /\ current_table \in SUBSET Version
      /\ \A i \in DOMAIN frozen_tables : frozen_tables[i] \in SUBSET Version
  BY DEF TypeOK, Tables
<1>2. \A l \in Level : LevelVersions(levels, l) \in SUBSET Version
  BY LevelIsTable DEF TypeOK, Tables
<1>3. QED
  BY <1>1, <1>2 DEF AllVersions, MemVersions, DiskVersions

\* frozen_bytes is a number and the sum of the sizes of the frozen tables.
Sized == frozen_tables \in Seq(Tables) /\ frozen_bytes \in Nat /\ SizesAddUp

\* Freezing a table keeps the sizes exact.
LEMMA FreezeSizes ==
  ASSUME Sized, NEW t \in Tables, frozen_tables' = <<t>> \o frozen_tables,
         frozen_bytes' = frozen_bytes + Cardinality(t)
  PROVE  Sized'
<1> DEFINE n == Len(frozen_tables)
<1>1. /\ frozen_tables \in Seq(Tables) /\ frozen_bytes \in Nat
      /\ n \in Nat /\ DOMAIN frozen_tables = 1 .. n
  BY DEF Sized
<1>2. t \in Tables /\ Cardinality(t) \in Nat
  BY TableSize
<1>3. /\ frozen_tables' = <<t>> \o frozen_tables
      /\ frozen_bytes' = frozen_bytes + Cardinality(t)
  OBVIOUS
<1>4. /\ frozen_tables' \in Seq(Tables)
      /\ Len(frozen_tables') = n + 1
      /\ DOMAIN frozen_tables' = 1 .. n + 1
      /\ frozen_tables'[1] = t
      /\ \A i \in 2 .. n + 1 : frozen_tables'[i] = frozen_tables[i - 1]
  BY <1>1, <1>2, <1>3
<1>5. PICK sums \in [0 .. n -> 0 .. frozen_bytes] :
        /\ sums[0] = 0
        /\ sums[n] = frozen_bytes
        /\ \A i \in 1 .. n : sums[i] = sums[i - 1] + Cardinality(frozen_tables[i])
        /\ \A i, j \in 0 .. n : i <= j => sums[i] <= sums[j]
  BY DEF Sized, SizesAddUp
<1> HIDE DEF n
<1> DEFINE c    == Cardinality(t)
           new  == [i \in 0 .. n + 1 |-> IF i = 0 THEN 0 ELSE sums[i - 1] + c]
<1>6. \A i \in 1 .. n + 1 : new[i] = sums[i - 1] + c /\ sums[i - 1] \in 0 .. frozen_bytes
  BY <1>1, <1>5
<1>7. new \in [0 .. n + 1 -> 0 .. frozen_bytes + c]
  BY <1>1, <1>2, <1>5
<1>8. new[0] = 0 /\ new[n + 1] = frozen_bytes + c
  BY <1>1, <1>5, <1>6
<1>9. \A i \in 1 .. n + 1 : new[i] = new[i - 1] + Cardinality(frozen_tables'[i])
  <2> SUFFICES ASSUME NEW i \in 1 .. n + 1
               PROVE  new[i] = new[i - 1] + Cardinality(frozen_tables'[i])
    OBVIOUS
  <2>1. CASE i = 1
    BY <1>1, <1>2, <1>4, <1>5, <1>6, <1>8, <2>1
  <2>2. CASE i # 1
    <3>1. i - 1 \in 1 .. n /\ new[i - 1] = sums[i - 2] + c
      BY <1>1, <1>6, <2>2
    <3>2. sums[i - 1] = sums[i - 2] + Cardinality(frozen_tables[i - 1])
      BY <1>1, <1>5, <3>1
    <3>3. frozen_tables[i - 1] \in Tables
      BY <1>1, <3>1
    <3>4. Cardinality(frozen_tables[i - 1]) \in Nat
      BY <3>3, TableSize
    <3>5. sums[i - 2] \in Nat
      BY <1>1, <1>5, <3>1
    <3>6. frozen_tables'[i] = frozen_tables[i - 1]
      BY <1>4, <2>2
    <3>7. new[i] = sums[i - 1] + c /\ c \in Nat
      BY <1>2, <1>6
    <3> DEFINE a == sums[i - 2]
               b == Cardinality(frozen_tables[i - 1])
    <3>8. a \in Nat /\ b \in Nat /\ c \in Nat
      BY <3>4, <3>5, <3>7
    <3>9. new[i] = (a + b) + c /\ new[i - 1] = a + c
      BY <3>1, <3>2, <3>7
    <3> HIDE DEF new, a, b, c
    <3>10. new[i] = new[i - 1] + b
      BY <3>8, <3>9
    <3>11. QED
      BY <3>6, <3>10 DEF b
  <2>3. QED
    BY <2>1, <2>2
<1>10. \A i, j \in 0 .. n + 1 : i <= j => new[i] <= new[j]
  <2> SUFFICES ASSUME NEW i \in 0 .. n + 1, NEW j \in 0 .. n + 1, i <= j
               PROVE  new[i] <= new[j]
    OBVIOUS
  <2>1. CASE i = 0
    BY <1>7, <1>8, <2>1, <1>1, <1>2
  <2>2. CASE i # 0
    <3>1. i \in 1 .. n + 1 /\ j \in 1 .. n + 1 /\ i - 1 \in 0 .. n /\ j - 1 \in 0 .. n /\ i - 1 <= j - 1
      BY <1>1, <2>2
    <3>2. sums[i - 1] <= sums[j - 1]
      BY <1>5, <3>1
    <3>3. /\ new[i] = sums[i - 1] + c /\ new[j] = sums[j - 1] + c /\ c \in Nat
          /\ sums[i - 1] \in Nat /\ sums[j - 1] \in Nat
      BY <1>1, <1>2, <1>6, <3>1
    <3> HIDE DEF new, c
    <3>4. QED
      BY <3>2, <3>3
  <2>3. QED
    BY <2>1, <2>2
<1> HIDE DEF new
<1>11. SizesAddUp'
  BY <1>3, <1>4, <1>7, <1>8, <1>9, <1>10 DEF SizesAddUp
<1>12. QED
  BY <1>1, <1>2, <1>3, <1>4, <1>11 DEF Sized

\* Flushing the oldest table keeps the sizes exact.
LEMMA DropSizes ==
  ASSUME Sized, frozen_tables # <<>>, frozen_tables' = Front(frozen_tables),
         frozen_bytes' = frozen_bytes - Cardinality(Last(frozen_tables))
  PROVE  Sized'
<1> DEFINE n == Len(frozen_tables)
<1>1. /\ frozen_tables \in Seq(Tables) /\ frozen_bytes \in Nat
      /\ n \in Nat /\ DOMAIN frozen_tables = 1 .. n
  BY DEF Sized
<1>2. /\ frozen_tables' = SubSeq(frozen_tables, 1, n - 1)
      /\ frozen_bytes' = frozen_bytes - Cardinality(frozen_tables[n])
  BY DEF Front, Last
<1>3. n \in 1 .. n
  BY <1>1
<1>4. /\ frozen_tables' \in Seq(Tables)
      /\ Len(frozen_tables') = n - 1
      /\ DOMAIN frozen_tables' = 1 .. n - 1
      /\ \A i \in 1 .. n - 1 : frozen_tables'[i] = frozen_tables[i]
  BY <1>1, <1>2, <1>3
<1>5. frozen_tables[n] \in Tables /\ Cardinality(frozen_tables[n]) \in Nat
  BY <1>1, <1>3, TableSize
<1>6. PICK sums \in [0 .. n -> 0 .. frozen_bytes] :
        /\ sums[0] = 0
        /\ sums[n] = frozen_bytes
        /\ \A i \in 1 .. n : sums[i] = sums[i - 1] + Cardinality(frozen_tables[i])
        /\ \A i, j \in 0 .. n : i <= j => sums[i] <= sums[j]
  BY DEF Sized, SizesAddUp
<1> HIDE DEF n
<1> DEFINE new == [i \in 0 .. n - 1 |-> sums[i]]
<1>7. \A i \in 0 .. n - 1 : i \in 0 .. n /\ i <= n - 1 /\ sums[i] \in Nat /\ n - 1 \in 0 .. n
  BY <1>1, <1>3, <1>6
<1>8. sums[n - 1] \in Nat /\ n - 1 \in 0 .. n - 1
  BY <1>1, <1>3, <1>6
<1>9. frozen_bytes' = sums[n - 1]
  BY <1>1, <1>2, <1>3, <1>5, <1>6, <1>8
<1>10. \A i \in 0 .. n - 1 : sums[i] <= sums[n - 1]
  BY <1>6, <1>7
<1>11. new \in [0 .. n - 1 -> 0 .. frozen_bytes']
  <2>1. \A i \in 0 .. n - 1 : sums[i] \in 0 .. sums[n - 1]
    BY <1>7, <1>8, <1>10
  <2>2. QED
    BY <1>9, <2>1
<1>12. new[0] = 0 /\ new[n - 1] = frozen_bytes'
  BY <1>1, <1>3, <1>6, <1>8, <1>9
<1>13. ASSUME NEW i \in 1 .. n - 1
      PROVE  new[i] = new[i - 1] + Cardinality(frozen_tables'[i])
  <2>1. i \in 0 .. n - 1 /\ i - 1 \in 0 .. n - 1 /\ i \in 1 .. n
    BY <1>1
  <2>2. new[i] = sums[i] /\ new[i - 1] = sums[i - 1]
    BY <2>1
  <2>3. QED
    BY <1>4, <1>6, <2>1, <2>2
<1>14. \A i, j \in 0 .. n - 1 : i <= j => new[i] <= new[j]
  BY <1>6, <1>7
<1> HIDE DEF new
<1>15. SizesAddUp'
  BY <1>4, <1>8, <1>9, <1>11, <1>12, <1>13, <1>14 DEF SizesAddUp
<1>16. QED
  BY <1>4, <1>8, <1>9, <1>15 DEF Sized

\* An empty memtable has the size 0.
LEMMA EmptySizes ==
  ASSUME frozen_tables' = <<>>, frozen_bytes' = 0
  PROVE  Sized'
<1> DEFINE zero == [i \in 0 .. 0 |-> 0]
<1>1. zero \in [0 .. 0 -> 0 .. 0] /\ zero[0] = 0
  OBVIOUS
<1>2. Len(frozen_tables') = 0
  OBVIOUS
<1> HIDE DEF zero
<1>3. \A i \in 0 .. 0 : i = 0
  OBVIOUS
<1>4. SizesAddUp'
  BY <1>1, <1>2, <1>3 DEF SizesAddUp
<1>5. QED
  BY <1>4 DEF Sized

\* MemTable::put with a fresh id keeps the memtable in order, its sizes exact,
\* and adds the batch to what it held.
LEMMA MemInsertOK ==
  ASSUME IInv, NEW B \in Tables, \A v \in B : v.id = next_tranc_id, MemInsert(B)
  PROVE  /\ current_table' \in Tables
         /\ frozen_tables' \in Seq(Tables)
         /\ frozen_bytes' \in Nat
         /\ MemRecency'
         /\ SizesAddUp'
         /\ MemVersions' = MemVersions \cup B
<1> DEFINE t == TablePut(current_table, B)
           n == Len(frozen_tables)
<1>1. /\ current_table \in Tables
      /\ frozen_tables \in Seq(Tables)
      /\ frozen_bytes \in Nat
      /\ next_tranc_id \in Nat
      /\ n \in Nat /\ DOMAIN frozen_tables = 1 .. n
  BY DEF IInv, TypeOK
<1>2. /\ \A v \in current_table : v.id < next_tranc_id
      /\ \A i \in 1 .. n : \A v \in frozen_tables[i] : v.id < next_tranc_id
  BY <1>1 DEF IInv, VersionIdsBounded, AllVersions, MemVersions
<1>3. t = current_table \cup B
  BY <1>1, <1>2 DEF TablePut
<1>4. t \in Tables /\ Cardinality(t) \in Nat
  BY <1>1, TablePutIsTable, TableSize
<1>5. MemRecency
  BY DEF IInv, RecencyOrder, MemRecency
<1>6. \A i \in 1 .. n : Newer(t, frozen_tables[i])
  <2> SUFFICES ASSUME NEW i \in 1 .. n, NEW v \in t, NEW w \in frozen_tables[i]
               PROVE  v.id > w.id
    BY DEF Newer
  <2>1. frozen_tables[i] \in Tables
    BY <1>1
  <2>2. w.id \in Nat
    BY <2>1 DEF Tables, Version
  <2>3. CASE v \in current_table
    BY <1>1, <1>5, <2>3 DEF MemRecency, Newer
  <2>4. CASE v \in B
    BY <1>1, <1>2, <2>2, <2>4
  <2>5. QED
    BY <1>3, <2>3, <2>4
<1>7. CASE Cardinality(t) > PerMemLimit
  <2>1. /\ current_table' = {}
        /\ frozen_tables' = <<t>> \o frozen_tables
        /\ frozen_bytes' = frozen_bytes + Cardinality(t)
    BY <1>7 DEF MemInsert
  <2>2. /\ frozen_tables' \in Seq(Tables)
        /\ Len(frozen_tables') = n + 1
        /\ DOMAIN frozen_tables' = 1 .. n + 1
        /\ frozen_tables'[1] = t
        /\ \A i \in 2 .. n + 1 : frozen_tables'[i] = frozen_tables[i - 1]
    BY <1>1, <1>4, <2>1
  <2>3. current_table' \in Tables /\ frozen_bytes' \in Nat
    BY <1>1, <1>4, <2>1, FS_EmptySet DEF Tables
  <2>4. MemRecency'
    <3>1. \A i \in DOMAIN frozen_tables' : Newer(current_table', frozen_tables'[i])
      BY <2>1 DEF Newer
    <3>2. ASSUME NEW i \in DOMAIN frozen_tables', NEW j \in DOMAIN frozen_tables', i < j
          PROVE  Newer(frozen_tables'[i], frozen_tables'[j])
      <4>1. j - 1 \in 1 .. n /\ frozen_tables'[j] = frozen_tables[j - 1]
        BY <1>1, <2>2, <3>2
      <4>2. CASE i = 1
        BY <1>6, <2>2, <4>1, <4>2
      <4>3. CASE i # 1
        <5>1. i - 1 \in 1 .. n /\ frozen_tables'[i] = frozen_tables[i - 1] /\ i - 1 < j - 1
          BY <1>1, <2>2, <3>2, <4>3
        <5>2. QED
          BY <1>1, <1>5, <4>1, <5>1 DEF MemRecency
      <4>4. QED
        BY <4>2, <4>3
    <3>3. QED
      BY <3>1, <3>2 DEF MemRecency
  <2>5. SizesAddUp'
    BY <1>1, <1>4, <2>1, FreezeSizes DEF IInv, Sized
  <2>6. MemVersions' = MemVersions \cup B
    <3>1. UNION {frozen_tables'[i] : i \in DOMAIN frozen_tables'}
            = t \cup UNION {frozen_tables[i] : i \in DOMAIN frozen_tables}
      <4>1. \A v : (\E i \in 1 .. n + 1 : v \in frozen_tables'[i])
                     <=> (v \in t \/ \E i \in 1 .. n : v \in frozen_tables[i])
        <5>1. \A i \in 1 .. n : i + 1 \in 2 .. n + 1 /\ frozen_tables'[i + 1] = frozen_tables[i]
          BY <1>1, <2>2
        <5>2. \A i \in 2 .. n + 1 : i - 1 \in 1 .. n
          BY <1>1
        <5>3. 1 \in 1 .. n + 1 /\ \A i \in 1 .. n + 1 : i = 1 \/ i \in 2 .. n + 1
          BY <1>1
        <5>4. \A i \in 1 .. n : i + 1 \in 1 .. n + 1
          BY <1>1
        <5>5. QED
          BY <2>2, <5>1, <5>2, <5>3, <5>4
      <4> DEFINE old == UNION {frozen_tables[i] : i \in 1 .. n}
                 now == UNION {frozen_tables'[i] : i \in 1 .. n + 1}
      <4>2. \A v : v \in old <=> \E i \in 1 .. n : v \in frozen_tables[i]
        BY InUnion
      <4>3. \A v : v \in now <=> \E i \in 1 .. n + 1 : v \in frozen_tables'[i]
        BY InUnion
      <4> HIDE DEF old, now
      <4>4. now = t \cup old
        BY <4>1, <4>2, <4>3
      <4>5. QED
        BY <1>1, <2>2, <4>4 DEF old, now
    <3>2. QED
      BY <1>3, <2>1, <3>1 DEF MemVersions
  <2>7. QED
    BY <2>2, <2>3, <2>4, <2>5, <2>6
<1>8. CASE ~ (Cardinality(t) > PerMemLimit)
  <2>1. current_table' = t /\ UNCHANGED <<frozen_tables, frozen_bytes>>
    BY <1>8 DEF MemInsert
  <2>2. MemRecency'
    BY <1>1, <1>5, <1>6, <2>1 DEF MemRecency, Newer
  <2>3. SizesAddUp'
    BY <2>1 DEF IInv, SizesAddUp
  <2>4. MemVersions' = MemVersions \cup B
    BY <1>3, <2>1 DEF MemVersions
  <2>5. QED
    BY <1>1, <1>4, <2>1, <2>2, <2>3, <2>4
<1>9. QED
  BY <1>7, <1>8
\* LSMEngine::put and its variants preserve the invariant, and add exactly
\* the batch to the store.
LEMMA WriteStep ==
  ASSUME IInv, NEW B \in Tables, \A v \in B : v.id = next_tranc_id,
         EngineWrite(B), next_tranc_id' = next_tranc_id + 1
  PROVE  IInv' /\ AllVersions' = AllVersions \cup B
<1>1. HasRoom /\ MemInsert(B) /\ UNCHANGED <<levels, cur_max_level, next_sst_id, mode>>
  BY DEF EngineWrite, sstVars
<1>2. TypeOK /\ next_tranc_id \in Nat
  BY DEF IInv, TypeOK
<1>3. /\ current_table' \in Tables
      /\ frozen_tables' \in Seq(Tables)
      /\ frozen_bytes' \in Nat
      /\ MemRecency'
      /\ SizesAddUp'
      /\ MemVersions' = MemVersions \cup B
  BY <1>1, MemInsertOK
<1>4. job' \in Job /\ MergeOK(job', levels, next_sst_id)
  BY <1>1, <1>2, FlushEntryOK, AtPhaseOK DEF EngineWrite, Idle, TypeOK, DiskTyped
<1>5. DiskVersions' = DiskVersions
  BY <1>1 DEF DiskVersions, LevelVersions
<1>6. AllVersions' = AllVersions \cup B
  BY <1>3, <1>5 DEF AllVersions
<1>7. TypeOK'
  BY <1>1, <1>2, <1>3, <1>4 DEF TypeOK
<1>8. VersionIdsBounded'
  <2> SUFFICES ASSUME NEW v \in AllVersions'  PROVE v.id < next_tranc_id'
    BY DEF VersionIdsBounded
  <2>1. CASE v \in B
    BY <1>2, <2>1
  <2>2. CASE v \in AllVersions
    <3>1. v \in Version
      BY <1>2, <2>2, VersionsTyped
    <3>2. QED
      BY <1>2, <2>2, <3>1 DEF IInv, VersionIdsBounded, Version
  <2>3. QED
    BY <1>6, <2>1, <2>2
<1>9. RecencyOrder'
  <2>1. Newer(MemVersions', DiskVersions')
    <3> SUFFICES ASSUME NEW v \in MemVersions', NEW w \in DiskVersions
                 PROVE  v.id > w.id
      BY <1>5 DEF Newer
    <3>1. w \in Version /\ w.id < next_tranc_id
      BY <1>2, VersionsTyped DEF IInv, VersionIdsBounded, AllVersions
    <3>2. CASE v \in B
      BY <1>2, <3>1, <3>2 DEF Version
    <3>3. CASE v \in MemVersions
      BY <3>3 DEF IInv, RecencyOrder, Newer
    <3>4. QED
      BY <1>3, <3>2, <3>3
  <2>2. DiskRecency'
    BY <1>1 DEF IInv, RecencyOrder, DiskRecency, LevelVersions
  <2>3. QED
    BY <1>3, <2>1, <2>2 DEF RecencyOrder, MemRecency, DiskRecency
<1>10. LevelsSorted' /\ SstIdsBounded'
  BY <1>1 DEF IInv, LevelsSorted, SortedSsts, SstIdsBounded
<1>11. MergeOK(job, levels, next_sst_id)'
  BY <1>1, <1>4 DEF MergeOK, Merge, LevelVersions
<1>12. QED
  BY <1>3, <1>6, <1>7, <1>8, <1>9, <1>10, <1>11 DEF IInv

-----------------------------------------------------------------------------
(* Steps that leave every table where it is.                               *)

\* A step that moves no table, and only starts or advances a flush or takes
\* a transaction id, preserves the invariant and the contents of the store.
LEMMA QuietStep ==
  ASSUME IInv, UNCHANGED <<memVars, levels, cur_max_level>>,
         next_sst_id' \in {next_sst_id, next_sst_id + 1},
         next_tranc_id' \in {next_tranc_id, next_tranc_id + 1},
         mode' \in {"open", "draining", "closing"},
         job' \in Job, MergeOK(job', levels, next_sst_id')
  PROVE  IInv' /\ AllVersions' = AllVersions
<1>1. /\ UNCHANGED <<current_table, frozen_tables, frozen_bytes, levels, cur_max_level>>
      /\ next_sst_id \in Nat \ {0} /\ next_tranc_id \in Nat \ {0}
      /\ TypeOK
  BY DEF memVars, IInv, TypeOK
<1>2. TypeOK'
  BY <1>1 DEF TypeOK
<1>3. /\ MemVersions' = MemVersions
      /\ DiskVersions' = DiskVersions
      /\ AllVersions' = AllVersions
  BY <1>1 DEF AllVersions, MemVersions, DiskVersions, LevelVersions
<1>4. RecencyOrder'
  BY <1>1, <1>3 DEF IInv, RecencyOrder, Newer, LevelVersions
<1>5. VersionIdsBounded'
  <2>1. \A v \in AllVersions : v.id \in Nat
    BY <1>1, VersionsTyped DEF Version
  <2>2. QED
    BY <1>1, <1>3, <2>1 DEF IInv, VersionIdsBounded
<1>6. SstIdsBounded'
  <2>1. \A l \in Level : \A k \in DOMAIN levels[l] : levels[l][k].id \in Nat
    BY <1>1, SstsTyped DEF Sst
  <2>2. QED
    BY <1>1, <2>1 DEF IInv, SstIdsBounded
<1>7. LevelsSorted'
  BY <1>1 DEF IInv, LevelsSorted, SortedSsts
<1>8. SizesAddUp'
  BY <1>1 DEF IInv, SizesAddUp
<1>9. MergeOK(job, levels, next_sst_id)'
  BY <1>1 DEF MergeOK, Merge, LevelVersions
<1>10. QED
  BY <1>2, <1>3, <1>4, <1>5, <1>6, <1>7, <1>8, <1>9 DEF IInv
-----------------------------------------------------------------------------
(* Compaction.                                                             *)

\* gen_sst_from_iter: moving the smallest keys of the rest into a new SST
\* keeps the merge in balance.
LEMMA CompactBuildOK ==
  ASSUME DiskTyped, MergeOK(job, levels, next_sst_id), CompactBuild
  PROVE  /\ job' \in Job
         /\ MergeOK(job', levels, next_sst_id')
         /\ job'.phase \in {"build", "delete"}
         /\ job'.level = job.level /\ job'.gone = job.gone
         /\ \A i \in DOMAIN job'.built :
              \/ job'.built[i].id = next_sst_id
              \/ i \in DOMAIN job.built /\ job'.built[i] = job.built[i]
<1>1. /\ next_sst_id \in Nat \ {0} /\ job \in Job
      /\ MergeOK(job, levels, next_sst_id)
  BY DEF DiskTyped
<1>2. PICK cut \in KeysOf(job.rest) :
        LET t == {v \in job.rest : v.key <= cut}
        IN  job' = [job EXCEPT
              !.phase = IF t = job.rest THEN "delete" ELSE "build",
              !.rest  = job.rest \ t,
              !.built = Append(job.built, [id |-> next_sst_id, table |-> t])]
  BY DEF CompactBuild
<1> DEFINE t == {v \in job.rest : v.key <= cut}
           s == [id |-> next_sst_id, table |-> t]
           n == Len(job.built)
<1>3. /\ job.phase = "build"
      /\ next_sst_id' = next_sst_id + 1
      /\ UNCHANGED <<memVars, levels, cur_max_level, next_tranc_id, mode>>
  BY DEF CompactBuild
<1>4. /\ job.level \in Level /\ job.rest \in Tables /\ job.built \in Seq(Sst)
      /\ n \in Nat /\ DOMAIN job.built = 1 .. n
      /\ job.gone \in Nat
  BY <1>1 DEF Job
<1>5. t \in Tables /\ job.rest \ t \in Tables
  BY <1>4, SubTable
<1>6. s \in Sst
  BY <1>1, <1>5 DEF Sst
<1>7. /\ job'.phase = (IF t = job.rest THEN "delete" ELSE "build")
      /\ job'.level = job.level
      /\ job'.rest = job.rest \ t
      /\ job'.built = Append(job.built, s)
      /\ job' = [phase |-> IF t = job.rest THEN "delete" ELSE "build", level |-> job.level,
                 rest |-> job.rest \ t, built |-> Append(job.built, s), gone |-> job.gone]
  BY <1>1, <1>2 DEF Job
<1>8. /\ job'.built \in Seq(Sst)
      /\ DOMAIN job'.built = 1 .. n + 1
      /\ job'.built[n + 1] = s
      /\ \A i \in 1 .. n : job'.built[i] = job.built[i]
  BY <1>4, <1>6, <1>7
<1>9. job' \in Job
  BY <1>4, <1>5, <1>7, <1>8 DEF Job
<1>10. /\ job.level < MaxLevel
       /\ job.rest \cup UNION {job.built[i].table : i \in DOMAIN job.built}
            = LevelVersions(levels, job.level) \cup LevelVersions(levels, job.level + 1)
       /\ SortedSsts(job.built)
       /\ \A i \in 1 .. n :
            /\ job.built[i].id < next_sst_id
            /\ \A v \in job.built[i].table, w \in job.rest : v.key < w.key
  BY <1>1, <1>3, <1>4 DEF MergeOK, Merge
<1>11. job'.rest \cup UNION {job'.built[i].table : i \in DOMAIN job'.built}
         = job.rest \cup UNION {job.built[i].table : i \in DOMAIN job.built}
  <2> DEFINE old == UNION {job.built[i].table : i \in 1 .. n}
             now == UNION {job'.built[i].table : i \in 1 .. n + 1}
  <2>1. \A v : v \in old <=> \E i \in 1 .. n : v \in job.built[i].table
    OBVIOUS
  <2>2. \A v : v \in now <=> \E i \in 1 .. n + 1 : v \in job'.built[i].table
    OBVIOUS
  <2>3. \A i \in 1 .. n + 1 : i \in 1 .. n \/ i = n + 1
    BY <1>4
  <2>4. \A i \in 1 .. n : i \in 1 .. n + 1
    BY <1>4
  <2>5. n + 1 \in 1 .. n + 1 /\ s.table = t
    BY <1>4
  <2> HIDE DEF old, now
  <2>6. now = old \cup t
    BY <1>8, <2>1, <2>2, <2>3, <2>4, <2>5
  <2>7. (job.rest \ t) \cup t = job.rest
    OBVIOUS
  <2>8. QED
    BY <1>4, <1>7, <1>8, <2>6, <2>7 DEF old, now
<1>12. \A v \in t, w \in job.rest \ t : v.key < w.key
  <2>1. \A v \in job.rest : v.key \in Nat
    BY <1>4, KeyIsNat DEF Tables
  <2>2. cut \in Nat
    BY <2>1 DEF KeysOf
  <2>3. QED
    BY <2>1, <2>2
<1>13. SortedSsts(job'.built)
  <2> SUFFICES ASSUME NEW i \in 1 .. n + 1, NEW j \in 1 .. n + 1, i < j
               PROVE  /\ job'.built[i].id < job'.built[j].id
                      /\ \A v \in job'.built[i].table, w \in job'.built[j].table : v.key < w.key
    BY <1>8 DEF SortedSsts
  <2>1. i \in 1 .. n /\ (j \in 1 .. n \/ j = n + 1)
    BY <1>4
  <2>2. CASE j \in 1 .. n
    BY <1>4, <1>8, <1>10, <2>1, <2>2 DEF SortedSsts
  <2>3. CASE j = n + 1
    BY <1>8, <1>10, <2>1, <2>3
  <2>4. QED
    BY <2>1, <2>2, <2>3
<1>14. \A i \in 1 .. n + 1 :
         /\ job'.built[i].id < next_sst_id'
         /\ \A v \in job'.built[i].table, w \in job'.rest : v.key < w.key
  <2> SUFFICES ASSUME NEW i \in 1 .. n + 1
               PROVE  /\ job'.built[i].id < next_sst_id'
                      /\ \A v \in job'.built[i].table, w \in job'.rest : v.key < w.key
    OBVIOUS
  <2>1. CASE i \in 1 .. n
    <3>1. job.built[i] \in Sst
      BY <1>4, <2>1
    <3>2. job.built[i].id \in Nat
      BY <3>1 DEF Sst
    <3>3. QED
      BY <1>1, <1>3, <1>7, <1>8, <1>10, <2>1, <3>2
  <2>2. CASE i = n + 1
    BY <1>1, <1>3, <1>7, <1>8, <1>12, <2>2
  <2>3. QED
    BY <1>4, <2>1, <2>2
<1>15. MergeOK(job', levels, next_sst_id')
  <2>1. job'.phase = "delete" => job'.rest = {}
    BY <1>7
  <2> HIDE DEF t, s, n
  <2>2. QED
    BY <1>7, <1>8, <1>10, <1>11, <1>13, <1>14, <2>1 DEF MergeOK, Merge
<1>16. \A i \in DOMAIN job'.built :
         \/ job'.built[i].id = next_sst_id
         \/ i \in DOMAIN job.built /\ job'.built[i] = job.built[i]
  <2>1. \A i \in 1 .. n + 1 : i \in 1 .. n \/ i = n + 1
    BY <1>4
  <2>2. QED
    BY <1>4, <1>8, <2>1
<1>17. job'.phase \in {"build", "delete"} /\ job'.gone = job.gone
  BY <1>7
<1>18. QED
  BY <1>7, <1>9, <1>15, <1>16, <1>17

\* The memtable and the levels are as before.
LEMMA CompactBuildStep ==
  ASSUME IInv, CompactBuild
  PROVE  IInv' /\ AllVersions' = AllVersions
<1>1. DiskTyped /\ MergeOK(job, levels, next_sst_id) /\ mode \in {"open", "draining", "closing"}
  BY DEF IInv, TypeOK, DiskTyped
<1>2. job' \in Job /\ MergeOK(job', levels, next_sst_id')
  BY <1>1, CompactBuildOK
<1>3. /\ next_sst_id' = next_sst_id + 1
      /\ UNCHANGED <<memVars, levels, cur_max_level, next_tranc_id, mode>>
  BY DEF CompactBuild
<1>4. QED
  BY <1>1, <1>2, <1>3, QuietStep

\* full_compact deletes an input file: nothing in memory changes.
LEMMA CompactDeleteStep ==
  ASSUME IInv, CompactDelete
  PROVE  IInv' /\ AllVersions' = AllVersions
<1>1. /\ TypeOK /\ job \in Job /\ MergeOK(job, levels, next_sst_id)
      /\ mode \in {"open", "draining", "closing"}
  BY DEF IInv, TypeOK
<1>2. /\ job' = [job EXCEPT !.gone = @ + 1]
      /\ UNCHANGED <<memVars, levels, cur_max_level, next_sst_id, next_tranc_id, mode>>
  BY DEF CompactDelete, sstVars
<1>3. job' \in Job
  BY <1>1, <1>2 DEF Job
<1>4. /\ job'.phase = job.phase /\ job'.level = job.level
      /\ job'.rest = job.rest /\ job'.built = job.built
  BY <1>1, <1>2 DEF Job
<1>5. MergeOK(job', levels, next_sst_id')
  BY <1>1, <1>2, <1>4 DEF MergeOK, Merge
<1>6. QED
  BY <1>1, <1>2, <1>3, <1>5, QuietStep
\* The tail of full_compact: the two levels trade places with the built SSTs,
\* which hold what the levels held.
LEMMA InstalledOK ==
  ASSUME DiskTyped, MergeOK(job, levels, next_sst_id), CompactInstall
  PROVE  /\ levels' \in [Level -> Seq(Sst)]
         /\ job.level \in Level /\ job.level + 1 \in Level /\ job.level # job.level + 1
         /\ levels'[job.level] = <<>>
         /\ levels'[job.level + 1] = job.built
         /\ \A m \in Level \ {job.level, job.level + 1} : levels'[m] = levels[m]
         /\ LevelVersions(levels', job.level) = {}
         /\ LevelVersions(levels', job.level + 1)
              = LevelVersions(levels, job.level) \cup LevelVersions(levels, job.level + 1)
         /\ \A m \in Level \ {job.level, job.level + 1} :
              LevelVersions(levels', m) = LevelVersions(levels, m)
         /\ DiskVersions' = DiskVersions
         /\ job' \in Job /\ MergeOK(job', levels', next_sst_id)
<1> DEFINE l  == job.level
           lv == [levels EXCEPT ![job.level] = <<>>, ![job.level + 1] = job.built]
<1>1. /\ job \in Job /\ MergeOK(job, levels, next_sst_id)
      /\ levels \in [Level -> Seq(Sst)] /\ next_sst_id \in Nat
  BY DEF DiskTyped
<1>2. /\ job.phase = "delete"
      /\ levels' = lv
      /\ job' = IF l = 0 THEN AtPhase("flush") ELSE StartCompact(lv, l - 1)
  BY DEF CompactInstall
<1>3. /\ l \in Level /\ job.built \in Seq(Sst)
      /\ l < MaxLevel
      /\ job.rest = {}
      /\ job.rest \cup UNION {job.built[i].table : i \in DOMAIN job.built}
           = LevelVersions(levels, l) \cup LevelVersions(levels, l + 1)
      /\ SortedSsts(job.built)
      /\ \A i \in DOMAIN job.built : job.built[i].id < next_sst_id
  BY <1>1, <1>2 DEF MergeOK, Merge, Job
<1>4. l \in Nat /\ l + 1 \in Level /\ l # l + 1 /\ \A m \in Level : m \in Nat /\ m <= MaxLevel
  BY <1>3, BoundsAssumption DEF Level
<1>5. /\ lv \in [Level -> Seq(Sst)]
      /\ lv[l] = <<>>
      /\ lv[l + 1] = job.built
      /\ \A m \in Level \ {l, l + 1} : lv[m] = levels[m]
  <2>1. <<>> \in Seq(Sst)
    OBVIOUS
  <2>2. lv \in [Level -> Seq(Sst)]
    BY <1>1, <1>3, <2>1
  <2>3. lv[l] = <<>>
    BY <1>1, <1>3, <1>4
  <2>4. lv[l + 1] = job.built
    BY <1>1, <1>4
  <2>5. \A m \in Level \ {l, l + 1} : lv[m] = levels[m]
    BY <1>1
  <2>6. QED
    BY <2>2, <2>3, <2>4, <2>5
<1> HIDE DEF lv
<1>6. /\ LevelVersions(lv, l) = {}
      /\ LevelVersions(lv, l + 1) = LevelVersions(levels, l) \cup LevelVersions(levels, l + 1)
      /\ \A m \in Level \ {l, l + 1} : LevelVersions(lv, m) = LevelVersions(levels, m)
  <2>1. LevelVersions(lv, l) = {}
    BY <1>5 DEF LevelVersions
  <2>2. LevelVersions(lv, l + 1) = UNION {job.built[i].table : i \in DOMAIN job.built}
    BY <1>5 DEF LevelVersions
  <2>3. \A m \in Level \ {l, l + 1} : LevelVersions(lv, m) = LevelVersions(levels, m)
    BY <1>5 DEF LevelVersions
  <2>4. QED
    BY <1>3, <2>1, <2>2, <2>3
<1>7. DiskVersions' = DiskVersions
  <2> DEFINE old == UNION {LevelVersions(levels, m) : m \in Level}
             now == UNION {LevelVersions(lv, m) : m \in Level}
  <2>1. \A v : v \in old <=> \E m \in Level : v \in LevelVersions(levels, m)
    OBVIOUS
  <2>2. \A v : v \in now <=> \E m \in Level : v \in LevelVersions(lv, m)
    OBVIOUS
  <2> HIDE DEF old, now
  <2>3. now = old
    BY <1>3, <1>4, <1>6, <2>1, <2>2
  <2>4. QED
    BY <1>2, <2>3 DEF DiskVersions, old, now
<1>8. job' \in Job /\ MergeOK(job', lv, next_sst_id)
  <2>1. CASE l = 0
    BY <1>2, <2>1, AtPhaseOK
  <2>2. CASE l # 0
    <3>1. l - 1 \in Level /\ l - 1 < MaxLevel
      BY <1>3, <2>2, BoundsAssumption DEF Level
    <3>2. QED
      BY <1>1, <1>2, <1>5, <2>2, <3>1, StartCompactOK
  <2>3. QED
    BY <2>1, <2>2
<1>9. QED
  BY <1>2, <1>3, <1>4, <1>5, <1>6, <1>7, <1>8

\* Nothing is lost, and the levels stay sorted and in the order of recency.
LEMMA CompactInstallStep ==
  ASSUME IInv, CompactInstall
  PROVE  IInv' /\ AllVersions' = AllVersions
<1> DEFINE l  == job.level
           lv == levels'
<1>1. /\ TypeOK /\ DiskTyped /\ job \in Job /\ MergeOK(job, levels, next_sst_id)
      /\ levels \in [Level -> Seq(Sst)]
      /\ cur_max_level \in Level /\ next_sst_id \in Nat
  BY DEF IInv, TypeOK, DiskTyped
<1>2. /\ job.phase = "delete"
      /\ cur_max_level' = Max({cur_max_level, l + 1})
      /\ UNCHANGED <<memVars, next_sst_id, next_tranc_id, mode>>
  BY DEF CompactInstall
<1>3. /\ l \in Level /\ l < MaxLevel
      /\ SortedSsts(job.built)
      /\ \A i \in DOMAIN job.built : job.built[i].id < next_sst_id
  BY <1>1, <1>2 DEF MergeOK, Job
<1>4. l \in Nat /\ l + 1 \in Level /\ l # l + 1 /\ \A m \in Level : m \in Nat /\ m <= MaxLevel
  BY <1>3, BoundsAssumption DEF Level
<1>5. /\ lv \in [Level -> Seq(Sst)]
      /\ lv[l] = <<>>
      /\ lv[l + 1] = job.built
      /\ \A m \in Level \ {l, l + 1} : lv[m] = levels[m]
  BY <1>1, InstalledOK
<1>6. /\ LevelVersions(lv, l) = {}
      /\ LevelVersions(lv, l + 1) = LevelVersions(levels, l) \cup LevelVersions(levels, l + 1)
      /\ \A m \in Level \ {l, l + 1} : LevelVersions(lv, m) = LevelVersions(levels, m)
  BY <1>1, InstalledOK
<1>7. DiskVersions' = DiskVersions
  BY <1>1, InstalledOK
<1>8. MemVersions' = MemVersions /\ AllVersions' = AllVersions
  BY <1>2, <1>7 DEF AllVersions, MemVersions, memVars
<1>9. cur_max_level' \in Level
  <2>1. {cur_max_level, l + 1} \in SUBSET Nat /\ \A x \in {cur_max_level, l + 1} : x <= MaxLevel
    BY <1>1, <1>4
  <2>2. Max({cur_max_level, l + 1}) \in {cur_max_level, l + 1}
    BY <2>1, MaxElement, BoundsAssumption
  <2>3. QED
    BY <1>1, <1>2, <1>4, <2>2
<1>10. job' \in Job /\ MergeOK(job', lv, next_sst_id)
  BY <1>1, InstalledOK
<1>11. TypeOK'
  BY <1>1, <1>2, <1>5, <1>9, <1>10 DEF TypeOK, memVars
<1>12. LevelsSorted'
  <2>1. \A i, j \in DOMAIN lv[0] : i < j => lv[0][i].id > lv[0][j].id
    <3>1. CASE l = 0
      BY <1>5, <3>1
    <3>2. CASE l # 0
      <4>1. 0 \in Level \ {l, l + 1}
        BY <1>4, <3>2, BoundsAssumption DEF Level
      <4>2. QED
        BY <1>5, <4>1 DEF IInv, LevelsSorted
    <3>3. QED
      BY <3>1, <3>2
  <2>2. ASSUME NEW m \in 1 .. MaxLevel  PROVE SortedSsts(lv[m])
    <3>1. m \in Level
      BY BoundsAssumption DEF Level
    <3>2. CASE m = l
      BY <1>5, <3>2 DEF SortedSsts
    <3>3. CASE m = l + 1
      BY <1>3, <1>5, <3>3
    <3>4. CASE m \notin {l, l + 1}
      BY <1>5, <3>1, <3>4 DEF IInv, LevelsSorted
    <3>5. QED
      BY <3>2, <3>3, <3>4
  <2>3. QED
    BY <1>2, <2>1, <2>2 DEF LevelsSorted
<1>13. SstIdsBounded'
  <2> SUFFICES ASSUME NEW m \in Level, NEW i \in DOMAIN lv[m]
               PROVE  lv[m][i].id < next_sst_id
    BY <1>2 DEF SstIdsBounded
  <2>1. CASE m = l
    BY <1>5, <2>1
  <2>2. CASE m = l + 1
    BY <1>3, <1>5, <2>2
  <2>3. CASE m \notin {l, l + 1}
    BY <1>5, <2>3 DEF IInv, SstIdsBounded
  <2>4. QED
    BY <2>1, <2>2, <2>3
<1>14. RecencyOrder'
  <2>1. \A i, j \in DOMAIN lv[0] : i < j => Newer(lv[0][i].table, lv[0][j].table)
    <3>1. CASE l = 0
      BY <1>5, <3>1
    <3>2. CASE l # 0
      <4>1. 0 \in Level \ {l, l + 1}
        BY <1>4, <3>2, BoundsAssumption DEF Level
      <4>2. QED
        BY <1>5, <4>1 DEF IInv, RecencyOrder
    <3>3. QED
      BY <3>1, <3>2
  <2>2. ASSUME NEW a \in Level, NEW b \in Level, a < b
        PROVE  Newer(LevelVersions(lv, a), LevelVersions(lv, b))
    <3>1. \A x, y \in Level : x < y => Newer(LevelVersions(levels, x), LevelVersions(levels, y))
      BY DEF IInv, RecencyOrder
    <3>2. CASE a = l \/ b = l
      BY <1>6, <3>2 DEF Newer
    <3>3. CASE a = l + 1
      <4>1. l < b /\ l + 1 < b /\ b \notin {l, l + 1}
        BY <1>4, <2>2, <3>3
      <4>2. /\ Newer(LevelVersions(levels, l), LevelVersions(levels, b))
            /\ Newer(LevelVersions(levels, l + 1), LevelVersions(levels, b))
        BY <1>3, <1>4, <3>1, <4>1
      <4>3. QED
        BY <1>6, <3>3, <4>1, <4>2 DEF Newer
    <3>4. CASE b = l + 1 /\ a # l
      <4>1. a < l /\ a < l + 1 /\ a \notin {l, l + 1}
        BY <1>4, <2>2, <3>4
      <4>2. /\ Newer(LevelVersions(levels, a), LevelVersions(levels, l))
            /\ Newer(LevelVersions(levels, a), LevelVersions(levels, l + 1))
        BY <1>3, <1>4, <3>1, <4>1
      <4>3. QED
        BY <1>6, <3>4, <4>1, <4>2 DEF Newer
    <3>5. CASE a \notin {l, l + 1} /\ b \notin {l, l + 1}
      BY <1>6, <2>2, <3>1, <3>5
    <3>6. QED
      BY <3>2, <3>3, <3>4, <3>5
  <2>3. Newer(MemVersions', DiskVersions') /\ MemRecency'
    BY <1>2, <1>7, <1>8 DEF IInv, RecencyOrder, Newer, MemRecency, memVars
  <2>4. QED
    BY <1>2, <2>1, <2>2, <2>3 DEF RecencyOrder, MemRecency
<1>15. VersionIdsBounded' /\ SizesAddUp'
  BY <1>2, <1>8 DEF IInv, VersionIdsBounded, SizesAddUp, memVars
<1>16. MergeOK(job, levels, next_sst_id)'
  BY <1>2, <1>10 DEF MergeOK, Merge, LevelVersions
<1>17. QED
  BY <1>8, <1>11, <1>12, <1>13, <1>14, <1>15, <1>16 DEF IInv
-----------------------------------------------------------------------------
(* Flushing a memtable.                                                    *)

\* MemTable::flush_last takes the oldest table away: what stays is newer,
\* in order, and its size is what frozen_bytes says.
LEMMA FlushSourceOK ==
  ASSUME IInv, FlushLast
  PROVE  /\ FlushSource \in Tables
         /\ current_table' \in Tables
         /\ frozen_tables' \in Seq(Tables)
         /\ frozen_bytes' \in Nat
         /\ MemVersions = MemVersions' \cup FlushSource
         /\ Newer(MemVersions', FlushSource)
         /\ MemRecency'
         /\ SizesAddUp'
<1> DEFINE n == Len(frozen_tables)
<1>1. /\ current_table \in Tables
      /\ frozen_tables \in Seq(Tables)
      /\ frozen_bytes \in Nat
      /\ n \in Nat /\ DOMAIN frozen_tables = 1 .. n
  BY DEF IInv, TypeOK
<1>2. MemRecency
  BY DEF IInv, RecencyOrder, MemRecency
<1>3. CASE frozen_tables = <<>>
  <2>1. /\ FlushSource = current_table
        /\ current_table' = {}
        /\ UNCHANGED <<frozen_tables, frozen_bytes>>
    BY <1>3 DEF FlushLast, FlushSource
  <2>2. MemVersions' = {} /\ MemVersions = current_table
    BY <1>3, <2>1 DEF MemVersions
  <2>3. MemRecency' /\ SizesAddUp'
    BY <1>2, <1>3, <2>1 DEF MemRecency, Newer, IInv, SizesAddUp
  <2>4. {} \in Tables
    BY FS_EmptySet DEF Tables
  <2>5. QED
    BY <1>1, <2>1, <2>2, <2>3, <2>4 DEF Newer
<1>4. CASE frozen_tables # <<>>
  <2>1. /\ FlushSource = frozen_tables[n]
        /\ frozen_tables' = SubSeq(frozen_tables, 1, n - 1)
        /\ frozen_bytes' = frozen_bytes - Cardinality(FlushSource)
        /\ current_table' = current_table
    BY <1>4 DEF FlushLast, FlushSource, Front, Last
  <2>2. n \in 1 .. n
    BY <1>1, <1>4
  <2>3. /\ frozen_tables' \in Seq(Tables)
        /\ Len(frozen_tables') = n - 1
        /\ DOMAIN frozen_tables' = 1 .. n - 1
        /\ \A i \in 1 .. n - 1 : frozen_tables'[i] = frozen_tables[i]
    BY <1>1, <2>1, <2>2
  <2>4. FlushSource \in Tables /\ Cardinality(FlushSource) \in Nat
    BY <1>1, <2>1, <2>2, TableSize
  <2>5. \A i \in 1 .. n : i \in 1 .. n - 1 \/ i = n
    <3> HIDE DEF n
    <3>1. QED
      BY <1>1
  <2>6. \A i \in 1 .. n - 1 : i \in 1 .. n /\ i < n
    BY <1>1
  <2>7. /\ \A v : v \in MemVersions
                    <=> v \in current_table \/ \E i \in 1 .. n : v \in frozen_tables[i]
        /\ \A v : v \in MemVersions'
                    <=> v \in current_table \/ \E i \in 1 .. n - 1 : v \in frozen_tables'[i]
    <3> DEFINE old == UNION {frozen_tables[i] : i \in 1 .. n}
               now == UNION {frozen_tables'[i] : i \in 1 .. n - 1}
    <3>1. \A v : v \in old <=> \E i \in 1 .. n : v \in frozen_tables[i]
      BY InUnion
    <3>2. \A v : v \in now <=> \E i \in 1 .. n - 1 : v \in frozen_tables'[i]
      BY InUnion
    <3>3. MemVersions = current_table \cup old /\ MemVersions' = current_table \cup now
      BY <1>1, <2>1, <2>3 DEF MemVersions
    <3> HIDE DEF old, now
    <3>4. QED
      BY <3>1, <3>2, <3>3
  <2>8. MemVersions = MemVersions' \cup FlushSource
    BY <2>1, <2>2, <2>3, <2>5, <2>6, <2>7
  <2>9. Newer(MemVersions', FlushSource)
    <3> SUFFICES ASSUME NEW v \in MemVersions', NEW w \in frozen_tables[n]
                 PROVE  v.id > w.id
      BY <2>1 DEF Newer
    <3>1. CASE v \in current_table
      BY <1>1, <1>2, <2>2, <3>1 DEF MemRecency, Newer
    <3>2. CASE \E i \in 1 .. n - 1 : v \in frozen_tables'[i]
      <4>1. PICK i \in 1 .. n - 1 : v \in frozen_tables[i]
        BY <2>3, <3>2
      <4>2. QED
        BY <1>1, <1>2, <2>2, <2>6, <4>1 DEF MemRecency, Newer
    <3>3. QED
      BY <2>7, <3>1, <3>2
  <2>10. MemRecency'
    BY <1>1, <1>2, <2>1, <2>3, <2>6 DEF MemRecency
  <2>11. SizesAddUp' /\ frozen_bytes' \in Nat
    BY <1>1, <1>4, <2>1, DropSizes DEF IInv, Sized, FlushSource, FlushLast
  <2>12. QED
    BY <1>1, <2>1, <2>3, <2>4, <2>8, <2>9, <2>10, <2>11
<1>5. QED
  BY <1>3, <1>4

\* The rest of LSMEngine::flush: the table becomes the first SST of L0.
LEMMA FlushedOK ==
  ASSUME DiskTyped, FlushSource \in Tables, FlushLast
  PROVE  LET s == [id |-> next_sst_id, table |-> FlushSource]
             n == Len(levels[0])
         IN  /\ s \in Sst
             /\ levels' \in [Level -> Seq(Sst)]
             /\ \A m \in Level \ {0} : levels'[m] = levels[m]
             /\ DOMAIN levels'[0] = 1 .. n + 1
             /\ levels'[0][1] = s
             /\ \A i \in 2 .. n + 1 : i - 1 \in 1 .. n /\ levels'[0][i] = levels[0][i - 1]
             /\ \A i \in 1 .. n + 1 : i = 1 \/ i \in 2 .. n + 1
             /\ LevelVersions(levels', 0) = FlushSource \cup LevelVersions(levels, 0)
             /\ \A m \in Level \ {0} : LevelVersions(levels', m) = LevelVersions(levels, m)
             /\ DiskVersions' = DiskVersions \cup FlushSource
<1> DEFINE F == FlushSource
           s == [id |-> next_sst_id, table |-> F]
           n == Len(levels[0])
<1>1. /\ levels \in [Level -> Seq(Sst)] /\ next_sst_id \in Nat \ {0}
      /\ 0 \in Level
      /\ levels[0] \in Seq(Sst) /\ n \in Nat /\ DOMAIN levels[0] = 1 .. n
  BY BoundsAssumption DEF DiskTyped, Level
<1>2. F \in Tables
  OBVIOUS
<1>3. /\ levels' = [levels EXCEPT ![0] = <<s>> \o @]
      /\ next_sst_id' = next_sst_id + 1
  BY DEF FlushLast
<1>4. s \in Sst /\ s.table = F /\ s.id = next_sst_id
  BY <1>1, <1>2 DEF Sst
<1> HIDE DEF F, s
<1>5. /\ levels' \in [Level -> Seq(Sst)]
      /\ levels'[0] = <<s>> \o levels[0]
      /\ \A m \in Level \ {0} : levels'[m] = levels[m]
  <2>1. <<s>> \o levels[0] \in Seq(Sst)
    BY <1>1, <1>4
  <2>2. QED
    BY <1>1, <1>3, <2>1
<1>6. /\ DOMAIN levels'[0] = 1 .. n + 1
      /\ levels'[0][1] = s
      /\ \A i \in 2 .. n + 1 : i - 1 \in 1 .. n /\ levels'[0][i] = levels[0][i - 1]
      /\ \A i \in 1 .. n + 1 : i = 1 \/ i \in 2 .. n + 1
      /\ \A i \in 1 .. n : i + 1 \in 2 .. n + 1 /\ i + 1 \in 1 .. n + 1 /\ levels'[0][i + 1] = levels[0][i]
      /\ 1 \in 1 .. n + 1
  BY <1>1, <1>4, <1>5
<1>7. /\ LevelVersions(levels', 0) = F \cup LevelVersions(levels, 0)
      /\ \A m \in Level \ {0} : LevelVersions(levels', m) = LevelVersions(levels, m)
  <2> DEFINE old == UNION {levels[0][i].table : i \in 1 .. n}
             now == UNION {levels'[0][i].table : i \in 1 .. n + 1}
  <2>1. \A v : v \in old <=> \E i \in 1 .. n : v \in levels[0][i].table
    OBVIOUS
  <2>2. \A v : v \in now <=> \E i \in 1 .. n + 1 : v \in levels'[0][i].table
    OBVIOUS
  <2> HIDE DEF old, now
  <2>3. now = F \cup old
    <3>1. ASSUME NEW v \in now  PROVE v \in F \cup old
      <4>1. PICK i \in 1 .. n + 1 : v \in levels'[0][i].table
        BY <2>2
      <4>2. CASE i = 1
        BY <1>4, <1>6, <4>1, <4>2
      <4>3. CASE i \in 2 .. n + 1
        BY <1>6, <2>1, <4>1, <4>3
      <4>4. QED
        BY <1>6, <4>2, <4>3
    <3>2. ASSUME NEW v \in F  PROVE v \in now
      BY <1>4, <1>6, <2>2
    <3>3. ASSUME NEW v \in old  PROVE v \in now
      <4>1. PICK i \in 1 .. n : v \in levels[0][i].table
        BY <2>1
      <4>2. QED
        BY <1>6, <2>2, <4>1
    <3>4. QED
      BY <3>1, <3>2, <3>3
  <2>4. LevelVersions(levels', 0) = now /\ LevelVersions(levels, 0) = old
    BY <1>1, <1>6 DEF LevelVersions, old, now
  <2>5. QED
    BY <1>5, <2>3, <2>4 DEF LevelVersions
<1>8. DiskVersions' = DiskVersions \cup F
  <2> DEFINE old == UNION {LevelVersions(levels, m) : m \in Level}
             now == UNION {LevelVersions(levels', m) : m \in Level}
  <2>1. \A v : v \in old <=> \E m \in Level : v \in LevelVersions(levels, m)
    OBVIOUS
  <2>2. \A v : v \in now <=> \E m \in Level : v \in LevelVersions(levels', m)
    OBVIOUS
  <2> HIDE DEF old, now
  <2>3. now = old \cup F
    BY <1>1, <1>7, <2>1, <2>2
  <2>4. QED
    BY <2>3 DEF DiskVersions, old, now
<1>9. QED
  BY <1>4, <1>5, <1>6, <1>7, <1>8 DEF F, s

\* Nothing is lost, and the new SST is the newest on disk.
LEMMA FlushLastStep ==
  ASSUME IInv, FlushLast
  PROVE  IInv' /\ AllVersions' = AllVersions
<1> DEFINE F == FlushSource
           s == [id |-> next_sst_id, table |-> F]
           n == Len(levels[0])
<1>1. /\ TypeOK /\ DiskTyped /\ levels \in [Level -> Seq(Sst)] /\ next_sst_id \in Nat \ {0}
      /\ 0 \in Level
      /\ levels[0] \in Seq(Sst) /\ n \in Nat /\ DOMAIN levels[0] = 1 .. n
  BY BoundsAssumption DEF IInv, TypeOK, DiskTyped, Level
<1>2. /\ F \in Tables
      /\ current_table' \in Tables
      /\ frozen_tables' \in Seq(Tables)
      /\ frozen_bytes' \in Nat
      /\ MemVersions = MemVersions' \cup F
      /\ Newer(MemVersions', F)
      /\ MemRecency'
      /\ SizesAddUp'
  BY FlushSourceOK
<1>3. /\ levels' = [levels EXCEPT ![0] = <<s>> \o @]
      /\ next_sst_id' = next_sst_id + 1
      /\ job' = AtPhase("idle")
      /\ UNCHANGED <<cur_max_level, next_tranc_id, mode>>
  BY DEF FlushLast, Idle
<1>4. s \in Sst /\ s.table = F /\ s.id = next_sst_id
  BY <1>1, <1>2 DEF Sst
<1>5. /\ levels' \in [Level -> Seq(Sst)]
      /\ \A m \in Level \ {0} : levels'[m] = levels[m]
      /\ DOMAIN levels'[0] = 1 .. n + 1
      /\ levels'[0][1] = s
      /\ \A i \in 2 .. n + 1 : i - 1 \in 1 .. n /\ levels'[0][i] = levels[0][i - 1]
      /\ \A i \in 1 .. n + 1 : i = 1 \/ i \in 2 .. n + 1
      /\ LevelVersions(levels', 0) = F \cup LevelVersions(levels, 0)
      /\ \A m \in Level \ {0} : LevelVersions(levels', m) = LevelVersions(levels, m)
      /\ DiskVersions' = DiskVersions \cup F
  BY <1>1, <1>2, FlushedOK
<1>6. /\ DOMAIN levels'[0] = 1 .. n + 1
      /\ levels'[0][1] = s
      /\ \A i \in 2 .. n + 1 : i - 1 \in 1 .. n /\ levels'[0][i] = levels[0][i - 1]
      /\ \A i \in 1 .. n + 1 : i = 1 \/ i \in 2 .. n + 1
  BY <1>5
<1> HIDE DEF F, s
<1>7. /\ LevelVersions(levels', 0) = F \cup LevelVersions(levels, 0)
      /\ \A m \in Level \ {0} : LevelVersions(levels', m) = LevelVersions(levels, m)
  BY <1>5
<1>8. DiskVersions' = DiskVersions \cup F
  BY <1>5
<1>9. AllVersions' = AllVersions
  BY <1>2, <1>8 DEF AllVersions
<1>10. TypeOK'
  <2>1. job' \in Job
    BY <1>3, AtPhaseOK
  <2>2. QED
    BY <1>1, <1>2, <1>3, <1>5, <2>1 DEF TypeOK
<1>11. LevelsSorted'
  <2>1. \A i \in 1 .. n : levels[0][i].id < next_sst_id
    BY <1>1 DEF IInv, SstIdsBounded
  <2>2. \A i, j \in 1 .. n : i < j => levels[0][i].id > levels[0][j].id
    BY <1>1 DEF IInv, LevelsSorted
  <2>3. ASSUME NEW i \in 1 .. n + 1, NEW j \in 1 .. n + 1, i < j
        PROVE  levels'[0][i].id > levels'[0][j].id
    <3>1. j \in 2 .. n + 1
      BY <1>1, <2>3
    <3>2. CASE i = 1
      <4>1. levels[0][j - 1] \in Sst
        BY <1>1, <1>6, <3>1
      <4>2. QED
        BY <1>1, <1>4, <1>6, <2>1, <3>1, <3>2, <4>1 DEF Sst
    <3>3. CASE i \in 2 .. n + 1
      <4>1. i - 1 < j - 1
        BY <2>3
      <4>2. QED
        BY <1>6, <2>2, <3>1, <3>3, <4>1
    <3>4. QED
      BY <1>6, <3>2, <3>3
  <2>4. \A m \in 1 .. MaxLevel : SortedSsts(levels'[m])
    BY <1>5 DEF IInv, LevelsSorted, Level
  <2>5. QED
    BY <1>6, <2>3, <2>4 DEF LevelsSorted
<1>12. SstIdsBounded'
  <2> SUFFICES ASSUME NEW m \in Level, NEW i \in DOMAIN levels'[m]
               PROVE  levels'[m][i].id < next_sst_id + 1
    BY <1>3 DEF SstIdsBounded
  <2>1. \A k \in Level : \A j \in DOMAIN levels[k] :
          levels[k][j].id \in Nat /\ levels[k][j].id < next_sst_id
    BY <1>1, SstsTyped DEF IInv, SstIdsBounded, Sst
  <2>2. CASE m # 0
    BY <1>1, <1>5, <2>1, <2>2
  <2>3. CASE m = 0 /\ i = 1
    BY <1>1, <1>4, <1>6, <2>3
  <2>4. CASE m = 0 /\ i # 1
    <3>1. i \in 2 .. n + 1 /\ i - 1 \in DOMAIN levels[0] /\ levels'[m][i] = levels[0][i - 1]
      BY <1>1, <1>6, <2>4
    <3>2. QED
      BY <1>1, <2>1, <3>1
  <2>5. QED
    BY <2>2, <2>3, <2>4
<1>13. RecencyOrder'
  <2>1. Newer(MemVersions, DiskVersions)
    BY DEF IInv, RecencyOrder
  <2>2. \A m \in Level : Newer(F, LevelVersions(levels, m))
    BY <1>2, <2>1 DEF DiskVersions, Newer
  <2>3. Newer(MemVersions', DiskVersions')
    BY <1>2, <1>8, <2>1 DEF Newer
  <2>4. ASSUME NEW i \in 1 .. n + 1, NEW j \in 1 .. n + 1, i < j
        PROVE  Newer(levels'[0][i].table, levels'[0][j].table)
    <3>1. j \in 2 .. n + 1 /\ levels'[0][j] = levels[0][j - 1]
      BY <1>1, <1>6, <2>4
    <3>2. CASE i = 1
      <4>1. Newer(F, levels[0][j - 1].table)
        BY <1>1, <1>6, <2>2, <3>1 DEF LevelVersions, Newer
      <4>2. QED
        BY <1>4, <1>6, <3>1, <3>2, <4>1
    <3>3. CASE i \in 2 .. n + 1
      <4>1. i - 1 < j - 1
        BY <2>4
      <4>2. i - 1 \in DOMAIN levels[0] /\ j - 1 \in DOMAIN levels[0]
        BY <1>1, <1>6, <3>1, <3>3
      <4>3. Newer(levels[0][i - 1].table, levels[0][j - 1].table)
        BY <4>1, <4>2 DEF IInv, RecencyOrder
      <4>4. QED
        BY <1>6, <3>1, <3>3, <4>3
    <3>4. QED
      BY <1>6, <3>2, <3>3
  <2>5. ASSUME NEW a \in Level, NEW b \in Level, a < b
        PROVE  Newer(LevelVersions(levels', a), LevelVersions(levels', b))
    <3>1. b \in Level \ {0}
      BY <2>5, BoundsAssumption DEF Level
    <3>2. Newer(LevelVersions(levels, a), LevelVersions(levels, b))
      BY <2>5 DEF IInv, RecencyOrder
    <3>3. QED
      BY <1>7, <2>2, <3>1, <3>2 DEF Newer
  <2>6. QED
    BY <1>2, <1>6, <2>3, <2>4, <2>5 DEF RecencyOrder, MemRecency
<1>14. VersionIdsBounded'
  BY <1>3, <1>9 DEF IInv, VersionIdsBounded
<1>15. MergeOK(job, levels, next_sst_id)'
  BY <1>3 DEF MergeOK, Merge, AtPhase
<1>16. QED
  BY <1>2, <1>9, <1>10, <1>11, <1>12, <1>13, <1>14, <1>15 DEF IInv
-----------------------------------------------------------------------------
(* Closing and reopening.                                                  *)

IdsAscend(ssts) == \A i, j \in DOMAIN ssts : i < j => ssts[i].id < ssts[j].id

\* Sorting the SSTs of a level by id yields a sequence of the same SSTs.
LEMMA SortedByIdOK ==
  ASSUME NEW q \in Seq(Sst), IdsAscend(q)
  PROVE  /\ SortedById(ToSet(q)) \in Seq(Sst)
         /\ ToSet(SortedById(ToSet(q))) = ToSet(q)
         /\ IdsAscend(SortedById(ToSet(q)))
<1> DEFINE n == Len(q)
           S == ToSet(q)
           r == SortedById(S)
<1>1. n \in Nat /\ DOMAIN q = 1 .. n /\ \A i \in 1 .. n : q[i] \in Sst
  OBVIOUS
<1>2. S = {q[i] : i \in 1 .. n} /\ S \in SUBSET Sst
  BY <1>1 DEF ToSet
<1>3. q \in Surjection(1 .. n, S)
  BY <1>1, <1>2 DEF Surjection
<1>4. q \in Injection(1 .. n, S)
  <2>1. \A i \in 1 .. n : q[i].id \in Nat
    BY <1>1 DEF Sst
  <2>2. ASSUME NEW i \in 1 .. n, NEW j \in 1 .. n, q[i] = q[j]  PROVE i = j
    <3>1. ~ (i < j) /\ ~ (j < i)
      BY <1>1, <2>1, <2>2 DEF IdsAscend
    <3>2. QED
      BY <3>1
  <2>3. QED
    BY <1>3, <2>2 DEF Injection, Surjection, IsInjective
<1>5. IsFiniteSet(1 .. n) /\ Cardinality(1 .. n) = n
  <2>1. 1 \in Int /\ n \in Int
    BY <1>1
  <2> HIDE DEF n
  <2>2. /\ IsFiniteSet(1 .. n)
        /\ Cardinality(1 .. n) = IF 1 > n THEN 0 ELSE n - 1 + 1
    BY <2>1, FS_Interval
  <2>3. QED
    BY <1>1, <2>2
<1>6. Cardinality(S) = n
  BY <1>3, <1>4, <1>5, FS_Surjection
<1>7. q \in [1 .. Cardinality(S) -> S]
  BY <1>3, <1>6 DEF Surjection
<1> HIDE DEF S
<1>8. /\ r \in [1 .. Cardinality(S) -> S]
      /\ ToSet(r) = S
      /\ \A i, j \in DOMAIN r : i < j => r[i].id < r[j].id
  <2>1. \E x \in [1 .. Cardinality(S) -> S] :
          /\ ToSet(x) = S
          /\ \A i, j \in DOMAIN x : i < j => x[i].id < x[j].id
    BY <1>7 DEF IdsAscend, S
  <2>2. QED
    BY <2>1 DEF SortedById
<1>9. r \in Seq(Sst)
  <2>1. r \in [1 .. n -> Sst]
    BY <1>2, <1>6, <1>8
  <2> HIDE DEF r, n
  <2>2. QED
    BY <1>1, <2>1
<1>10. QED
  BY <1>8, <1>9 DEF IdsAscend, S

\* ... and so does reversing it.
LEMMA ReverseOK ==
  ASSUME NEW q \in Seq(Sst)
  PROVE  /\ Reverse(q) \in Seq(Sst)
         /\ Len(Reverse(q)) = Len(q)
         /\ DOMAIN Reverse(q) = 1 .. Len(q)
         /\ \A i \in 1 .. Len(q) :
              Len(q) - i + 1 \in 1 .. Len(q) /\ Reverse(q)[i] = q[Len(q) - i + 1]
         /\ ToSet(Reverse(q)) = ToSet(q)
<1> DEFINE n == Len(q)
           r == Reverse(q)
<1>1. n \in Nat /\ DOMAIN q = 1 .. n /\ \A i \in 1 .. n : q[i] \in Sst
  OBVIOUS
<1>2. \A i \in 1 .. n : n - i + 1 \in 1 .. n
  <2> HIDE DEF n
  <2>1. QED
    BY <1>1
<1>3. r \in [1 .. n -> Sst] /\ \A i \in 1 .. n : r[i] = q[n - i + 1]
  BY <1>1, <1>2 DEF Reverse
<1>4. r \in Seq(Sst) /\ Len(r) = n /\ DOMAIN r = 1 .. n
  BY <1>1, <1>3
<1> HIDE DEF r
<1>5. ToSet(r) = ToSet(q)
  <2>1. \A x : x \in ToSet(r) <=> \E i \in 1 .. n : x = r[i]
    BY <1>4 DEF ToSet
  <2>2. \A x : x \in ToSet(q) <=> \E i \in 1 .. n : x = q[i]
    BY <1>1 DEF ToSet
  <2>3. \A i \in 1 .. n : q[i] = r[n - i + 1]
    <3> SUFFICES ASSUME NEW i \in 1 .. n  PROVE q[i] = r[n - i + 1]
      OBVIOUS
    <3>1. n - i + 1 \in 1 .. n /\ n - (n - i + 1) + 1 = i
      BY <1>1, <1>2
    <3>2. QED
      BY <1>3, <3>1
  <2>4. QED
    BY <1>2, <1>3, <2>1, <2>2, <2>3
<1>6. QED
  BY <1>2, <1>3, <1>4, <1>5 DEF r

\* When the memtable reports the size 0 it is empty.
LEMMA EmptyMemtable ==
  ASSUME current_table \in Tables, Sized, TotalSize = 0
  PROVE  MemVersions = {}
<1> DEFINE n == Len(frozen_tables)
<1>1. /\ current_table \in Tables /\ frozen_tables \in Seq(Tables)
      /\ frozen_bytes \in Nat /\ n \in Nat /\ DOMAIN frozen_tables = 1 .. n
  BY DEF Sized
<1>2. Cardinality(current_table) = 0 /\ frozen_bytes = 0
  BY <1>1, TableSize DEF TotalSize
<1>3. current_table = {}
  BY <1>1, <1>2, TableSize
<1>4. PICK sums \in [0 .. n -> 0 .. frozen_bytes] :
        \A i \in 1 .. n : sums[i] = sums[i - 1] + Cardinality(frozen_tables[i])
  BY DEF Sized, SizesAddUp
<1>5. ASSUME NEW i \in 1 .. n  PROVE frozen_tables[i] = {}
  <2>1. i \in 0 .. n /\ i - 1 \in 0 .. n
    BY <1>1
  <2>2. sums[i] = 0 /\ sums[i - 1] = 0
    BY <1>2, <1>4, <2>1
  <2>3. frozen_tables[i] \in Tables
    BY <1>1
  <2>4. Cardinality(frozen_tables[i]) = 0
    BY <1>4, <2>2, <2>3, TableSize
  <2>5. QED
    BY <2>3, <2>4, TableSize
<1>6. QED
  BY <1>1, <1>3, <1>5 DEF MemVersions

\* The constructor of LSMEngine after a clean close finds the levels as the
\* destructor left them.
LEMMA ReopenStep ==
  ASSUME IInv, Reopen
  PROVE  IInv' /\ AllVersions' = AllVersions
<1>1. /\ TypeOK /\ levels \in [Level -> Seq(Sst)] /\ next_sst_id \in Nat \ {0}
      /\ 0 \in Level /\ \A m \in Level : m \in Nat /\ m <= MaxLevel
  BY BoundsAssumption DEF IInv, TypeOK, Level
<1>2. \A m \in Level : FilesAt(m) = ToSet(levels[m])
  BY DEF Reopen, FilesAt, Idle, AtPhase
<1> DEFINE files == [m \in Level |-> FilesAt(m)]
<1>3. \A m \in Level : files[m] = ToSet(levels[m])
  BY <1>2
<1>4. /\ levels' = [m \in Level |-> IF m = 0 THEN Reverse(SortedById(files[0]))
                                    ELSE SortedById(files[m])]
      /\ cur_max_level' = Max({0} \cup {m \in Level : files[m] # {}})
      /\ next_sst_id' = Max({0} \cup {x.id : x \in UNION {files[m] : m \in Level}}) + 1
      /\ current_table' = {} /\ frozen_tables' = <<>> /\ frozen_bytes' = 0
      /\ mode' = "open" /\ job' = AtPhase("idle")
      /\ next_tranc_id' = next_tranc_id
  BY DEF Reopen, Load, Idle
<1> HIDE DEF files
<1>5. MemVersions = {} /\ MemVersions' = {}
  <2>1. current_table \in Tables /\ Sized
    BY DEF IInv, TypeOK, Sized
  <2>2. QED
    BY <1>4, <2>1, EmptyMemtable DEF Reopen, MemVersions
<1>6. \A m \in Level : \A i \in DOMAIN levels[m] :
        levels[m][i] \in Sst /\ levels[m][i].id \in Nat /\ levels[m][i].id < next_sst_id
  BY <1>1, SstsTyped DEF IInv, SstIdsBounded, Sst
\* The levels below L0.
<1>7. ASSUME NEW m \in Level, m # 0
      PROVE  /\ levels'[m] \in Seq(Sst)
             /\ ToSet(levels'[m]) = ToSet(levels[m])
             /\ IdsAscend(levels'[m])
  <2>1. m \in 1 .. MaxLevel
    BY <1>7, BoundsAssumption DEF Level
  <2>2. levels[m] \in Seq(Sst) /\ IdsAscend(levels[m])
    BY <1>1, <2>1 DEF IInv, LevelsSorted, SortedSsts, IdsAscend
  <2>3. levels'[m] = SortedById(ToSet(levels[m]))
    BY <1>3, <1>4, <1>7
  <2>4. QED
    BY <2>2, <2>3, SortedByIdOK
\* L0.
<1>8. /\ levels'[0] \in Seq(Sst)
      /\ ToSet(levels'[0]) = ToSet(levels[0])
      /\ \A i, j \in DOMAIN levels'[0] : i < j => levels'[0][i].id > levels'[0][j].id
  <2> DEFINE n == Len(levels[0])
             b == Reverse(levels[0])
             r == SortedById(ToSet(b))
  <2>1. levels[0] \in Seq(Sst) /\ n \in Nat /\ DOMAIN levels[0] = 1 .. n
    BY <1>1
  <2>2. /\ b \in Seq(Sst) /\ DOMAIN b = 1 .. n /\ ToSet(b) = ToSet(levels[0])
        /\ \A i \in 1 .. n : n - i + 1 \in 1 .. n /\ b[i] = levels[0][n - i + 1]
    BY <2>1, ReverseOK
  <2>3. IdsAscend(b)
    <3> SUFFICES ASSUME NEW i \in 1 .. n, NEW j \in 1 .. n, i < j
                 PROVE  b[i].id < b[j].id
      BY <2>2 DEF IdsAscend
    <3> HIDE DEF b
    <3>1. n - j + 1 < n - i + 1
      BY <2>1
    <3>2. levels[0][n - j + 1].id > levels[0][n - i + 1].id
      BY <2>1, <2>2, <3>1 DEF IInv, LevelsSorted
    <3>3. levels[0][n - j + 1].id \in Nat /\ levels[0][n - i + 1].id \in Nat
      BY <1>1, <1>6, <2>1, <2>2
    <3>4. QED
      BY <2>2, <3>2, <3>3
  <2>4. r \in Seq(Sst) /\ ToSet(r) = ToSet(b) /\ IdsAscend(r)
    BY <2>2, <2>3, SortedByIdOK
  <2> DEFINE k == Len(r)
  <2>5. levels'[0] = Reverse(r)
    BY <1>1, <1>3, <1>4, <2>2
  <2> HIDE DEF b, r
  <2>6. /\ levels'[0] \in Seq(Sst) /\ DOMAIN levels'[0] = 1 .. k
        /\ ToSet(levels'[0]) = ToSet(r)
        /\ \A i \in 1 .. k : k - i + 1 \in 1 .. k /\ levels'[0][i] = r[k - i + 1]
    BY <2>4, <2>5, ReverseOK
  <2>7. k \in Nat /\ DOMAIN r = 1 .. k /\ \A i \in 1 .. k : r[i] \in Sst
    BY <2>4
  <2>8. ASSUME NEW i \in 1 .. k, NEW j \in 1 .. k, i < j
        PROVE  levels'[0][i].id > levels'[0][j].id
    <3>1. k - j + 1 < k - i + 1
      BY <2>7, <2>8
    <3>2. r[k - j + 1].id < r[k - i + 1].id
      BY <2>4, <2>6, <2>7, <3>1 DEF IdsAscend
    <3>3. r[k - j + 1].id \in Nat /\ r[k - i + 1].id \in Nat
      BY <2>6, <2>7 DEF Sst
    <3>4. QED
      BY <2>6, <3>2, <3>3
  <2>9. QED
    BY <2>2, <2>4, <2>6, <2>8
<1>9. \A m \in Level : levels'[m] \in Seq(Sst) /\ ToSet(levels'[m]) = ToSet(levels[m])
  BY <1>7, <1>8
\* Every SST of a level was one of that level before.
<1>10. \A m \in Level : \A i \in DOMAIN levels'[m] :
         \E a \in DOMAIN levels[m] : levels'[m][i] = levels[m][a]
  BY <1>9 DEF ToSet
<1>11. \A m \in Level : \A a \in DOMAIN levels[m] :
         \E i \in DOMAIN levels'[m] : levels[m][a] = levels'[m][i]
  BY <1>9 DEF ToSet
<1>12. ASSUME NEW m \in Level
       PROVE  LevelVersions(levels', m) = LevelVersions(levels, m)
  <2> DEFINE was == UNION {levels[m][i].table : i \in DOMAIN levels[m]}
             now == UNION {levels'[m][i].table : i \in DOMAIN levels'[m]}
  <2>1. \A v : v \in was <=> \E i \in DOMAIN levels[m] : v \in levels[m][i].table
    OBVIOUS
  <2>2. \A v : v \in now <=> \E i \in DOMAIN levels'[m] : v \in levels'[m][i].table
    OBVIOUS
  <2> HIDE DEF was, now
  <2>3. \A v \in was : v \in now
    BY <1>11, <2>1, <2>2
  <2>4. \A v \in now : v \in was
    BY <1>10, <2>1, <2>2
  <2>5. was = now
    BY <2>3, <2>4
  <2>6. QED
    BY <2>5 DEF LevelVersions, was, now
<1>13. DiskVersions' = DiskVersions
  BY <1>12 DEF DiskVersions
<1>14. AllVersions' = AllVersions
  BY <1>5, <1>13 DEF AllVersions
<1>15. LevelsSorted'
  <2>1. ASSUME NEW m \in 1 .. MaxLevel  PROVE SortedSsts(levels'[m])
    <3>1. m \in Level /\ m # 0
      BY BoundsAssumption DEF Level
    <3>2. IdsAscend(levels'[m])
      BY <1>7, <3>1
    <3>3. SortedSsts(levels[m])
      BY DEF IInv, LevelsSorted
    <3>4. ASSUME NEW i \in DOMAIN levels'[m], NEW j \in DOMAIN levels'[m], i < j
          PROVE  \A v \in levels'[m][i].table, w \in levels'[m][j].table : v.key < w.key
      <4>1. PICK a \in DOMAIN levels[m] : levels'[m][i] = levels[m][a]
        BY <1>10, <3>1
      <4>2. PICK c \in DOMAIN levels[m] : levels'[m][j] = levels[m][c]
        BY <1>10, <3>1
      <4>3. levels[m][a].id < levels[m][c].id
        BY <3>2, <3>4, <4>1, <4>2 DEF IdsAscend
      <4>4. a \in Int /\ c \in Int
        BY <1>1, <3>1
      <4>5. a < c
        <5>1. levels[m][a].id \in Nat /\ levels[m][c].id \in Nat
          BY <1>6, <3>1
        <5>2. ~ (c < a) /\ c # a
          BY <3>3, <4>3, <5>1 DEF SortedSsts
        <5>3. QED
          BY <4>4, <5>2
      <4>6. QED
        BY <3>3, <4>1, <4>2, <4>5 DEF SortedSsts
    <3>5. QED
      BY <3>2, <3>4 DEF SortedSsts, IdsAscend
  <2>2. QED
    BY <1>8, <2>1 DEF LevelsSorted
<1>16. RecencyOrder'
  <2>1. ASSUME NEW i \in DOMAIN levels'[0], NEW j \in DOMAIN levels'[0], i < j
        PROVE  Newer(levels'[0][i].table, levels'[0][j].table)
    <3>1. PICK a \in DOMAIN levels[0] : levels'[0][i] = levels[0][a]
      BY <1>1, <1>10
    <3>2. PICK c \in DOMAIN levels[0] : levels'[0][j] = levels[0][c]
      BY <1>1, <1>10
    <3>3. levels[0][a].id > levels[0][c].id
      BY <1>8, <2>1, <3>1, <3>2
    <3>4. a \in Int /\ c \in Int
      BY <1>1
    <3>5. a < c
      <4>1. levels[0][a].id \in Nat /\ levels[0][c].id \in Nat
        BY <1>1, <1>6
      <4>2. ~ (c < a) /\ c # a
        BY <3>3, <4>1 DEF IInv, LevelsSorted
      <4>3. QED
        BY <3>4, <4>2
    <3>6. QED
      BY <3>1, <3>2, <3>5 DEF IInv, RecencyOrder
  <2>2. \A x, y \in Level :
          x < y => Newer(LevelVersions(levels', x), LevelVersions(levels', y))
    BY <1>12 DEF IInv, RecencyOrder
  <2>3. Newer(MemVersions', DiskVersions') /\ MemRecency'
    BY <1>4, <1>5 DEF Newer, MemRecency
  <2>4. QED
    BY <2>1, <2>2, <2>3 DEF RecencyOrder, MemRecency
\* The next SST id is above every SST loaded.
<1>17. next_sst_id' \in Nat \ {0} /\ SstIdsBounded'
  <2> DEFINE I == {0} \cup {x.id : x \in UNION {files[m] : m \in Level}}
  <2>1. \A x \in I : x \in Nat /\ x <= next_sst_id
    <3>1. ASSUME NEW x \in UNION {files[m] : m \in Level}
          PROVE  x.id \in Nat /\ x.id <= next_sst_id
      <4>1. PICK m \in Level : x \in ToSet(levels[m])
        BY <1>3
      <4>2. PICK i \in DOMAIN levels[m] : x = levels[m][i]
        BY <4>1 DEF ToSet
      <4>3. QED
        BY <1>1, <1>6, <4>2
    <3>2. QED
      BY <1>1, <3>1
  <2>2. I \in SUBSET Nat /\ I # {} /\ next_sst_id \in Nat
    BY <1>1, <2>1
  <2>3. \A m \in Level : \A i \in DOMAIN levels'[m] : levels'[m][i].id \in I
    <3> SUFFICES ASSUME NEW m \in Level, NEW i \in DOMAIN levels'[m]
                 PROVE  levels'[m][i].id \in I
      OBVIOUS
    <3>1. levels'[m][i] \in ToSet(levels'[m])
      BY DEF ToSet
    <3>2. levels'[m][i] \in files[m]
      BY <1>3, <1>9, <3>1
    <3>3. levels'[m][i] \in UNION {files[x] : x \in Level}
      BY <3>2
    <3>4. QED
      BY <3>3
  <2> HIDE DEF I
  <2>4. Max(I) \in I /\ \A x \in I : x <= Max(I)
    BY <2>1, <2>2, MaxElement
  <2>5. next_sst_id' = Max(I) + 1
    BY <1>4 DEF I
  <2>6. Max(I) \in Nat
    BY <2>1, <2>4
  <2>7. \A m \in Level : \A i \in DOMAIN levels'[m] : levels'[m][i].id < Max(I) + 1
    BY <2>1, <2>3, <2>4, <2>6
  <2>8. QED
    BY <2>5, <2>6, <2>7 DEF SstIdsBounded
<1>18. cur_max_level' \in Level
  <2> DEFINE M == {0} \cup {m \in Level : files[m] # {}}
  <2>1. M \in SUBSET Level
    BY <1>1
  <2>2. M \in SUBSET Nat /\ M # {} /\ \A x \in M : x <= MaxLevel
    BY <1>1, <2>1
  <2> HIDE DEF M
  <2>3. Max(M) \in M
    BY <2>2, MaxElement, BoundsAssumption
  <2>4. QED
    BY <1>4, <2>1, <2>3 DEF M
<1>19. TypeOK'
  <2>1. {} \in Tables /\ <<>> \in Seq(Tables)
    BY FS_EmptySet DEF Tables
  <2>2. levels' \in [Level -> Seq(Sst)]
    BY <1>4, <1>9
  <2>3. job' \in Job
    BY <1>4, AtPhaseOK
  <2>4. QED
    BY <1>1, <1>4, <1>17, <1>18, <2>1, <2>2, <2>3 DEF TypeOK
<1>20. VersionIdsBounded'
  BY <1>4, <1>14 DEF IInv, VersionIdsBounded
<1>21. MergeOK(job, levels, next_sst_id)'
  BY <1>4 DEF MergeOK, Merge, AtPhase
<1>22. SizesAddUp'
  BY <1>4, EmptySizes DEF Sized
<1>23. QED
  BY <1>14, <1>15, <1>16, <1>17, <1>19, <1>20, <1>21, <1>22 DEF IInv
-----------------------------------------------------------------------------
(* The theorems.                                                           *)

\* A new store satisfies the invariant.
LEMMA InitOK == Init => IInv
<1> SUFFICES ASSUME Init  PROVE IInv
  OBVIOUS
<1>1. 0 \in Level /\ {} \in Tables /\ <<>> \in Seq(Tables) /\ <<>> \in Seq(Sst)
  BY BoundsAssumption, FS_EmptySet DEF Level, Tables
<1>2. job = AtPhase("idle") /\ job \in Job
  BY AtPhaseOK DEF Init, Idle
<1>3. TypeOK
  BY <1>1, <1>2 DEF Init, TypeOK
<1>4. \A l \in Level : levels[l] = <<>> /\ LevelVersions(levels, l) = {}
  BY DEF Init, LevelVersions
<1>5. MemVersions = {} /\ DiskVersions = {} /\ AllVersions = {}
  BY <1>4 DEF Init, MemVersions, DiskVersions, AllVersions
<1>6. LevelsSorted /\ SstIdsBounded
  BY <1>1, <1>4, BoundsAssumption DEF LevelsSorted, SortedSsts, SstIdsBounded, Level
<1>7. RecencyOrder /\ VersionIdsBounded
  BY <1>1, <1>4, <1>5 DEF Init, RecencyOrder, Newer, VersionIdsBounded
<1>8. MergeOK(job, levels, next_sst_id)
  BY <1>2, AtPhaseOK
<1>9. SizesAddUp
  <2> DEFINE zero == [i \in 0 .. 0 |-> 0]
  <2>1. zero \in [0 .. 0 -> 0 .. 0] /\ zero[0] = 0
    OBVIOUS
  <2>2. Len(frozen_tables) = 0 /\ frozen_bytes = 0
    BY DEF Init
  <2> HIDE DEF zero
  <2>3. \A i \in 0 .. 0 : i = 0
    OBVIOUS
  <2>4. QED
    BY <2>1, <2>2, <2>3 DEF SizesAddUp
<1>10. QED
  BY <1>3, <1>6, <1>7, <1>8, <1>9 DEF IInv

\* What one step may do to the contents of the store.
StoreStep ==
  \/ AllVersions' = AllVersions /\ next_tranc_id' = next_tranc_id
  \/ /\ next_tranc_id' = next_tranc_id + 1
     /\ \E B \in Tables : /\ AllVersions' = AllVersions \cup B
                          /\ \A v \in B : v.id = next_tranc_id

\* A write of the batch f with a fresh id.
LEMMA BatchStep ==
  ASSUME IInv, NEW ks \in SUBSET Keys, NEW f \in [ks -> Values \cup {Tombstone}],
         NewTrancId, EngineWrite(Batch(f, next_tranc_id))
  PROVE  IInv' /\ StoreStep
<1>1. next_tranc_id \in Nat /\ next_tranc_id' = next_tranc_id + 1
  BY DEF IInv, TypeOK, NewTrancId
<1> DEFINE B == Batch(f, next_tranc_id)
<1>2. B \in Tables
  BY <1>1, BatchIsTable
<1>3. \A v \in B : v.id = next_tranc_id
  BY DEF Batch
<1> HIDE DEF B
<1>4. IInv' /\ AllVersions' = AllVersions \cup B
  BY <1>1, <1>2, <1>3, WriteStep DEF B
<1>5. QED
  BY <1>1, <1>2, <1>3, <1>4 DEF StoreStep

\* Every operation and every step of a flush preserves the invariant, and
\* changes the contents of the store by one write at most.
LEMMA NextOK ==
  ASSUME IInv, [Next]_lsmVars
  PROVE  IInv' /\ StoreStep
<1>1. /\ TypeOK /\ job \in Job /\ MergeOK(job, levels, next_sst_id)
      /\ mode \in {"open", "draining", "closing"}
  BY DEF IInv, TypeOK
<1>2. CASE UNCHANGED lsmVars
  <2>1. /\ UNCHANGED <<memVars, levels, cur_max_level, next_sst_id, next_tranc_id, mode, job>>
    BY <1>2 DEF lsmVars, sstVars
  <2>2. QED
    BY <1>1, <2>1, QuietStep DEF StoreStep
<1>3. ASSUME NEW ks \in SUBSET Keys \ {{}}, NEW f \in [ks -> Values], Put(f)
      PROVE  IInv' /\ StoreStep
  <2>1. f \in [ks -> Values \cup {Tombstone}] /\ ks \in SUBSET Keys
    OBVIOUS
  <2>2. QED
    BY <1>3, <2>1, BatchStep DEF Put
<1>4. ASSUME NEW ks \in SUBSET Keys \ {{}}, RemoveKeys(ks)
      PROVE  IInv' /\ StoreStep
  <2>1. [k \in ks |-> Tombstone] \in [ks -> Values \cup {Tombstone}] /\ ks \in SUBSET Keys
    OBVIOUS
  <2>2. QED
    BY <1>4, <2>1, BatchStep DEF RemoveKeys
<1>5. CASE Read
  <2>1. /\ UNCHANGED <<memVars, levels, cur_max_level, next_sst_id, mode, job>>
        /\ next_tranc_id' = next_tranc_id + 1
    BY <1>5 DEF Read, NewTrancId, sstVars
  <2>2. IInv' /\ AllVersions' = AllVersions
    BY <1>1, <2>1, QuietStep
  <2>3. {} \in Tables
    BY FS_EmptySet DEF Tables
  <2>4. QED
    BY <2>1, <2>2, <2>3 DEF StoreStep
<1>6. CASE Flush \/ Drain
  <2>1. /\ HasRoom /\ job' = FlushEntry
        /\ UNCHANGED <<memVars, levels, cur_max_level, next_sst_id, next_tranc_id, mode>>
    BY <1>6 DEF Flush, Drain, sstVars
  <2>2. job' \in Job /\ MergeOK(job', levels, next_sst_id')
    BY <1>1, <2>1, FlushEntryOK DEF TypeOK, DiskTyped, IInv
  <2>3. QED
    BY <1>1, <2>1, <2>2, QuietStep DEF StoreStep
<1>7. CASE FlushAll("draining") \/ FlushAll("closing") \/ Drained
  <2>1. /\ mode' \in {"open", "draining", "closing"}
        /\ UNCHANGED <<memVars, levels, cur_max_level, next_sst_id, next_tranc_id, job>>
    BY <1>7 DEF FlushAll, Drained, sstVars
  <2>2. QED
    BY <1>1, <2>1, QuietStep DEF StoreStep
<1>8. CASE CompactBuild
  BY <1>8, CompactBuildStep DEF StoreStep, CompactBuild
<1>9. CASE CompactDelete
  BY <1>9, CompactDeleteStep DEF StoreStep, CompactDelete
<1>10. CASE CompactInstall
  BY <1>10, CompactInstallStep DEF StoreStep, CompactInstall
<1>11. CASE FlushLast
  BY <1>11, FlushLastStep DEF StoreStep, FlushLast
<1>12. CASE Reopen
  BY <1>12, ReopenStep DEF StoreStep, Reopen
<1>13. QED
  BY <1>2, <1>3, <1>4, <1>5, <1>6, <1>7, <1>8, <1>9, <1>10, <1>11, <1>12
     DEF Next, Operate, Request

\* The invariant holds in every state of every behaviour of the engine, for
\* any keys, values and sizes.
THEOREM Invariance == Spec => []IInv
<1>1. Init => IInv
  BY InitOK
<1>2. IInv /\ [Next]_lsmVars => IInv'
  BY NextOK
<1>3. QED
  BY <1>1, <1>2, PTL DEF Spec

\* The engine's state always has its type.
THEOREM TypeCorrect == Spec => []TypeOK
<1>1. IInv => TypeOK
  BY DEF IInv
<1>2. QED
  BY <1>1, Invariance, PTL

\* The SSTs of every level below L0 are always disjoint and in order, so that
\* LSMEngine::get may search a level by bisection.
THEOREM LevelsStaySorted == Spec => []LevelsSorted
<1>1. IInv => LevelsSorted
  BY DEF IInv
<1>2. QED
  BY <1>1, Invariance, PTL

\* Newer versions are always nearer the front of the read path, so that
\* LSMEngine::get may stop at the first table that holds its key.
THEOREM RecencyOrdered == Spec => []RecencyOrder
<1>1. IInv => RecencyOrder
  BY DEF IInv
<1>2. QED
  BY <1>1, Invariance, PTL

\* The engine implements the multi-version map: freezing, flushing, compacting
\* and reopening neither lose nor invent a version, in stores of any size.
THEOREM Refinement == Spec => ImplementsMvccStore
<1>1. Init => Mvcc!MvccInit
  <2> SUFFICES ASSUME Init  PROVE AllVersions = {} /\ next_tranc_id = 1
    BY DEF Mvcc!MvccInit
  <2>1. \A l \in Level : LevelVersions(levels, l) = {}
    BY DEF Init, LevelVersions
  <2>2. QED
    BY <2>1 DEF Init, AllVersions, MemVersions, DiskVersions
<1>2. IInv /\ IInv' /\ [Next]_lsmVars => [Mvcc!MvccNext]_(Mvcc!mvccVars)
  <2> SUFFICES ASSUME IInv, [Next]_lsmVars
               PROVE  [Mvcc!MvccNext]_(Mvcc!mvccVars)
    OBVIOUS
  <2>1. StoreStep
    BY NextOK
  <2>2. CASE AllVersions' = AllVersions /\ next_tranc_id' = next_tranc_id
    BY <2>2 DEF Mvcc!mvccVars
  <2>3. CASE /\ next_tranc_id' = next_tranc_id + 1
             /\ \E B \in Tables : /\ AllVersions' = AllVersions \cup B
                                  /\ \A v \in B : v.id = next_tranc_id
    <3>1. PICK B \in Tables : /\ AllVersions' = AllVersions \cup B
                              /\ \A v \in B : v.id = next_tranc_id
      BY <2>3
    <3>2. \A v \in B : v \in Version
      BY DEF Tables
    <3>3. Mvcc!MvccNext
      BY <2>3, <3>1, <3>2 DEF Mvcc!MvccNext, Mvcc!Version, Version, Mvcc!AllKeys, AllKeys, Mvcc!Marker, Marker
    <3>4. QED
      BY <3>3
  <2>4. QED
    BY <2>1, <2>2, <2>3 DEF StoreStep
<1>3. QED
  BY <1>1, <1>2, Invariance, PTL DEF Spec, ImplementsMvccStore, Mvcc!MvccSpec
=============================================================================
