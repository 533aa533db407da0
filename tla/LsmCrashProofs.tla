--------------------------- MODULE LsmCrashProofs ---------------------------
(***************************************************************************)
(* Proofs about the storage engine that may stop at any step.  The order   *)
(* of recency and the sorted levels do not survive a crash in the middle   *)
(* of a compaction, which leaves inputs and outputs side by side.  What    *)
(* does survive is DiskInv: every SST id is used once, and a compaction    *)
(* has written all of its outputs before it deletes an input.              *)
(***************************************************************************)
EXTENDS LsmCrash, LsmTreeProofs

\* No SST is listed twice and no two SSTs of the levels share an id.
ListedOnce(lv) ==
  \A l, m \in Level : \A i \in DOMAIN lv[l], k \in DOMAIN lv[m] :
    lv[l][i].id = lv[m][k].id => l = m /\ i = k

\* The outputs of a compaction j of the levels lv have ids of their own, and
\* only input files are deleted, none of them before the last output is
\* written.
CompactSafe(j, lv) ==
  j.phase \in {"build", "delete"} =>
    /\ \A b \in DOMAIN j.built, l \in Level : \A i \in DOMAIN lv[l] :
         j.built[b].id # lv[l][i].id
    /\ j.phase = "build" => j.gone = 0
    /\ j.phase = "delete" => j.gone <= Len(lv[j.level] \o lv[j.level + 1])

MemTyped == /\ current_table \in Tables /\ frozen_tables \in Seq(Tables)
            /\ next_tranc_id \in Nat

DiskInv ==
  /\ MemTyped
  /\ tranc_id_file \in Nat
  /\ DiskTyped
  /\ SstIdsBounded
  /\ ListedOnce(levels)
  /\ MergeOK(job, levels, next_sst_id)
  /\ CompactSafe(job, levels)

-----------------------------------------------------------------------------
(* Sorting files by id.                                                    *)

IdsDiffer(S) == \A s, t \in S : s.id = t.id => s = t

Sorts(q, S) == q \in [1 .. Cardinality(S) -> S] /\ ToSet(q) = S /\ IdsAscend(q)

\* Every finite set of SSTs with different ids can be listed by id: take the
\* SST with the largest id away and put it at the end.
LEMMA SortExists ==
  ASSUME NEW S \in SUBSET Sst, IsFiniteSet(S), IdsDiffer(S)
  PROVE  \E q : Sorts(q, S)
<1> DEFINE P == {n \in Nat : \A T \in SUBSET Sst :
                   IsFiniteSet(T) /\ IdsDiffer(T) /\ Cardinality(T) = n
                     => \E q : Sorts(q, T)}
<1>1. 0 \in P
  <2> SUFFICES ASSUME NEW T \in SUBSET Sst, IsFiniteSet(T), Cardinality(T) = 0
               PROVE  \E q : Sorts(q, T)
    OBVIOUS
  <2>1. T = {}
    BY FS_EmptySet
  <2>2. <<>> \in [1 .. 0 -> {}] /\ ToSet(<<>>) = {} /\ IdsAscend(<<>>)
    BY DEF ToSet, IdsAscend
  <2>3. QED
    BY <2>1, <2>2 DEF Sorts
<1>2. ASSUME NEW n \in P  PROVE n + 1 \in P
  <2> SUFFICES ASSUME NEW T \in SUBSET Sst, IsFiniteSet(T), IdsDiffer(T),
                      Cardinality(T) = n + 1
               PROVE  \E q : Sorts(q, T)
    OBVIOUS
  <2> DEFINE I == {s.id : s \in T}
  <2>1. n \in Nat /\ T # {}
    BY FS_EmptySet
  <2>2. \A s \in T : s.id \in Nat
    BY DEF Sst
  <2>3. IsFiniteSet(I)
    <3> DEFINE f == [s \in T |-> s.id]
    <3>1. f \in Surjection(T, I)
      BY DEF Surjection
    <3>2. QED
      BY <3>1, FS_Surjection
  <2>4. I \in SUBSET Nat /\ I # {}
    BY <2>1, <2>2
  <2>5. PICK m \in I : \A x \in I : x <= m
    BY <2>3, <2>4, FiniteMax
  <2>6. PICK s \in T : s.id = m
    BY <2>5
  <2> DEFINE R == T \ {s}
  <2>7. IsFiniteSet(R) /\ Cardinality(R) = n
    <3>1. IsFiniteSet(R) /\ Cardinality(R) = Cardinality(T) - 1
      BY FS_RemoveElement
    <3>2. QED
      BY <2>1, <3>1
  <2>8. R \in SUBSET Sst /\ IdsDiffer(R)
    BY DEF IdsDiffer
  <2>9. PICK r : Sorts(r, R)
    BY <2>7, <2>8
  <2>10. /\ r \in [1 .. n -> R] /\ IdsAscend(r)
         /\ \A x \in R : \E i \in 1 .. n : x = r[i]
    BY <2>7, <2>9 DEF Sorts, ToSet
  <2> DEFINE q == [i \in 1 .. n + 1 |-> IF i = n + 1 THEN s ELSE r[i]]
  <2>11. /\ \A i \in 1 .. n + 1 : i # n + 1 => i \in 1 .. n
         /\ \A i \in 1 .. n : i \in 1 .. n + 1 /\ i # n + 1
         /\ n + 1 \in 1 .. n + 1
    BY <2>1
  <2>12. q \in [1 .. n + 1 -> T]
    BY <2>10, <2>11
  <2>13. DOMAIN q = 1 .. n + 1 /\ q[n + 1] = s /\ \A i \in 1 .. n : q[i] = r[i]
    BY <2>11
  <2> HIDE DEF q
  <2>14. ToSet(q) = T
    <3>1. \A x : x \in ToSet(q) <=> \E i \in 1 .. n + 1 : x = q[i]
      BY <2>13 DEF ToSet
    <3>2. ASSUME NEW x \in T  PROVE x \in ToSet(q)
      <4>1. CASE x = s
        BY <2>11, <2>13, <3>1, <4>1
      <4>2. CASE x # s
        BY <2>10, <2>11, <2>13, <3>1, <4>2
      <4>3. QED
        BY <4>1, <4>2
    <3>3. ASSUME NEW x \in ToSet(q)  PROVE x \in T
      BY <2>12, <3>1
    <3>4. QED
      BY <3>2, <3>3
  <2>15. IdsAscend(q)
    <3> SUFFICES ASSUME NEW i \in 1 .. n + 1, NEW j \in 1 .. n + 1, i < j
                 PROVE  q[i].id < q[j].id
      BY <2>13 DEF IdsAscend
    <3>1. i \in 1 .. n
      BY <2>1
    <3>2. CASE j = n + 1
      <4>1. q[i] = r[i] /\ r[i] \in R /\ q[j] = s
        BY <2>10, <2>13, <3>1, <3>2
      <4>2. r[i].id \in Nat /\ m \in Nat /\ r[i].id <= m
        BY <2>2, <2>4, <2>5, <4>1
      <4>3. r[i].id # m
        BY <2>6, <4>1 DEF IdsDiffer
      <4>4. QED
        BY <2>6, <4>1, <4>2, <4>3
    <3>3. CASE j # n + 1
      BY <2>10, <2>11, <2>13, <3>1, <3>3 DEF IdsAscend
    <3>4. QED
      BY <3>2, <3>3
  <2>16. QED
    BY <2>12, <2>14, <2>15 DEF Sorts
<1> HIDE DEF P
<1>3. P = Nat
  <2>1. P \in SUBSET Nat
    BY DEF P
  <2>2. QED
    BY <1>1, <1>2, <2>1, NatInductionSet
<1>4. Cardinality(S) \in P
  BY <1>3, FS_CardinalityType
<1>5. QED
  BY <1>4 DEF P

\* std::sort by id yields that list.
LEMMA SortOK ==
  ASSUME NEW S \in SUBSET Sst, IsFiniteSet(S), IdsDiffer(S)
  PROVE  /\ SortedById(S) \in Seq(Sst)
         /\ ToSet(SortedById(S)) = S
         /\ IdsAscend(SortedById(S))
<1> DEFINE r == SortedById(S)
           n == Cardinality(S)
<1>1. \E x \in [1 .. Cardinality(S) -> S] :
        /\ ToSet(x) = S
        /\ \A i, j \in DOMAIN x : i < j => x[i].id < x[j].id
  BY SortExists DEF Sorts, IdsAscend
<1>2. /\ r \in [1 .. n -> S]
      /\ ToSet(r) = S
      /\ \A i, j \in DOMAIN r : i < j => r[i].id < r[j].id
  BY <1>1 DEF SortedById
<1> HIDE DEF r
<1>3. n \in Nat
  BY FS_CardinalityType
<1> HIDE DEF n
<1>4. r \in Seq(Sst)
  BY <1>2, <1>3
<1>5. QED
  BY <1>2, <1>4 DEF IdsAscend, r

-----------------------------------------------------------------------------
(* The files in the directory.                                             *)

Busy == job.phase \in {"build", "delete"}

\* A file is an SST of its level or, while a compaction runs, an output of it.
LEMMA FileIs ==
  ASSUME DiskInv, NEW l \in Level, NEW s \in FilesAt(l)
  PROVE  \/ \E i \in DOMAIN levels[l] : s = levels[l][i]
         \/ Busy /\ l = job.level + 1 /\ \E b \in DOMAIN job.built : s = job.built[b]
<1>1. \A q : \A x \in ToSet(q) : \E i \in DOMAIN q : x = q[i]
  BY DEF ToSet
<1>2. s \in ToSet(levels[l]) \/ (Busy /\ l = job.level + 1 /\ s \in ToSet(job.built))
  BY DEF FilesAt, Busy
<1>3. QED
  BY <1>1, <1>2

\* The deleted files are SSTs of the two levels that are merged.
LEMMA DeletedAre ==
  ASSUME DiskInv, Busy, NEW g \in 1 .. job.gone
  PROVE  /\ job.phase = "delete"
         /\ \E l \in {job.level, job.level + 1} :
              l \in Level /\ \E i \in DOMAIN levels[l] : Doomed[g] = levels[l][i]
<1> DEFINE a == levels[job.level]
           c == levels[job.level + 1]
<1>1. /\ job \in Job /\ job.level \in Level /\ job.gone \in Nat /\ job.level < MaxLevel
      /\ levels \in [Level -> Seq(Sst)]
  BY DEF DiskInv, DiskTyped, MergeOK, Busy, Job
<1>2. job.level + 1 \in Level
  BY <1>1, BoundsAssumption DEF Level
<1>3. a \in Seq(Sst) /\ c \in Seq(Sst) /\ Doomed = a \o c
  BY <1>1, <1>2 DEF Doomed
<1>4. job.phase = "delete" /\ job.gone <= Len(a \o c)
  <2>1. job.gone # 0
    BY <1>1
  <2>2. /\ job.phase \in {"build", "delete"}
        /\ job.phase = "build" => job.gone = 0
        /\ job.phase = "delete" => job.gone <= Len(a \o c)
    BY DEF DiskInv, CompactSafe, Busy
  <2>3. QED
    BY <2>1, <2>2
<1> HIDE DEF a, c
<1>5. g \in 1 .. Len(a) + Len(c)
  BY <1>1, <1>3, <1>4
<1>6. \/ g \in DOMAIN a /\ Doomed[g] = a[g]
      \/ g - Len(a) \in DOMAIN c /\ Doomed[g] = c[g - Len(a)]
  BY <1>3, <1>5
<1>7. QED
  BY <1>1, <1>2, <1>4, <1>6 DEF a, c

\* The SSTs of a level that is not being merged are files, and so are the inputs
\* as long as outputs are written, and the outputs.
LEMMA AreFiles ==
  ASSUME DiskInv
  PROVE  /\ \A l \in Level : \A i \in DOMAIN levels[l] :
              \/ levels[l][i] \in FilesAt(l)
              \/ job.phase = "delete" /\ l \in {job.level, job.level + 1}
         /\ Busy => \A b \in DOMAIN job.built : job.built[b] \in FilesAt(job.level + 1)
<1>1. \A q : \A i \in DOMAIN q : q[i] \in ToSet(q)
  BY DEF ToSet
<1>2. Busy => \A b \in DOMAIN job.built : job.built[b] \in FilesAt(job.level + 1)
  BY <1>1 DEF FilesAt, Busy
<1>3. ASSUME NEW l \in Level, NEW i \in DOMAIN levels[l],
             ~ (job.phase = "delete" /\ l \in {job.level, job.level + 1})
      PROVE  levels[l][i] \in FilesAt(l)
  <2>1. CASE ~ Busy
    BY <1>1, <2>1 DEF FilesAt, Busy
  <2>2. CASE Busy
    <3>1. levels[l][i] \notin {Doomed[g] : g \in 1 .. job.gone}
      <4> SUFFICES ASSUME NEW g \in 1 .. job.gone, levels[l][i] = Doomed[g]  PROVE FALSE
        OBVIOUS
      <4>1. PICK m \in {job.level, job.level + 1} :
              /\ job.phase = "delete" /\ m \in Level
              /\ \E k \in DOMAIN levels[m] : Doomed[g] = levels[m][k]
        BY <2>2, DeletedAre
      <4>2. l = m
        BY <4>1 DEF DiskInv, ListedOnce
      <4>3. QED
        BY <1>3, <4>1, <4>2
    <3>2. QED
      BY <1>1, <2>2, <3>1 DEF FilesAt, Busy
  <2>3. QED
    BY <2>1, <2>2
<1>4. QED
  BY <1>2, <1>3

\* The list of a sequence is a finite set.
LEMMA ToSetFinite ==
  ASSUME NEW q \in Seq(Sst)
  PROVE  ToSet(q) \in SUBSET Sst /\ IsFiniteSet(ToSet(q))
<1>1. Len(q) \in Int /\ 1 \in Int /\ DOMAIN q = 1 .. Len(q) /\ \A i \in DOMAIN q : q[i] \in Sst
  OBVIOUS
<1>2. IsFiniteSet(DOMAIN q)
  BY <1>1, FS_Interval
<1>3. q \in Surjection(DOMAIN q, ToSet(q))
  BY <1>1 DEF Surjection, ToSet
<1>4. IsFiniteSet(ToSet(q))
  BY <1>2, <1>3, FS_Surjection
<1>5. QED
  BY <1>1, <1>4 DEF ToSet

\* Every file is an SST and every level has finitely many.
LEMMA FilesTyped ==
  ASSUME DiskInv, NEW l \in Level
  PROVE  FilesAt(l) \in SUBSET Sst /\ IsFiniteSet(FilesAt(l))
<1>1. levels[l] \in Seq(Sst) /\ job.built \in Seq(Sst)
  BY DEF DiskInv, DiskTyped, Job
<1> DEFINE U == ToSet(levels[l]) \cup ToSet(job.built)
<1>2. /\ ToSet(levels[l]) \in SUBSET Sst /\ ToSet(job.built) \in SUBSET Sst
      /\ IsFiniteSet(ToSet(levels[l])) /\ IsFiniteSet(ToSet(job.built))
  BY <1>1, ToSetFinite
<1>3. IsFiniteSet(U)
  BY <1>2, FS_Union
<1>4. FilesAt(l) \in SUBSET U
  BY DEF FilesAt
<1>5. QED
  BY <1>2, <1>3, <1>4, FS_Subset

\* No two files share an id, and the next id is above them all.
LEMMA FileIdsOnce ==
  ASSUME DiskInv
  PROVE  /\ \A l, m \in Level : \A s \in FilesAt(l), t \in FilesAt(m) :
              s.id = t.id => l = m /\ s = t
         /\ \A l \in Level : \A s \in FilesAt(l) : s.id \in Nat /\ s.id < next_sst_id
<1>1. /\ ListedOnce(levels) /\ SstIdsBounded
      /\ Busy => /\ \A b \in DOMAIN job.built, l \in Level : \A i \in DOMAIN levels[l] :
                      job.built[b].id # levels[l][i].id
                 /\ SortedSsts(job.built)
                 /\ \A b \in DOMAIN job.built : job.built[b].id < next_sst_id
  BY DEF DiskInv, CompactSafe, MergeOK, Busy
<1>2. job.built \in Seq(Sst) /\ \A b \in DOMAIN job.built : job.built[b] \in Sst
  <2>1. job.built \in Seq(Sst)
    BY DEF DiskInv, DiskTyped, Job
  <2>2. QED
    BY <2>1
<1>3. ASSUME NEW l \in Level, NEW m \in Level, NEW s \in FilesAt(l), NEW t \in FilesAt(m),
             s.id = t.id
      PROVE  l = m /\ s = t
  <2>1. CASE (\E i \in DOMAIN levels[l] : s = levels[l][i])
             /\ \E k \in DOMAIN levels[m] : t = levels[m][k]
    BY <1>1, <1>3, <2>1 DEF ListedOnce
  <2>2. CASE ~ (\E i \in DOMAIN levels[l] : s = levels[l][i])
             /\ \E k \in DOMAIN levels[m] : t = levels[m][k]
    BY <1>1, <1>3, <2>2, FileIs
  <2>3. CASE (\E i \in DOMAIN levels[l] : s = levels[l][i])
             /\ ~ \E k \in DOMAIN levels[m] : t = levels[m][k]
    BY <1>1, <1>3, <2>3, FileIs
  <2>4. CASE ~ (\E i \in DOMAIN levels[l] : s = levels[l][i])
             /\ ~ \E k \in DOMAIN levels[m] : t = levels[m][k]
    <3>1. Busy /\ l = job.level + 1 /\ \E b \in DOMAIN job.built : s = job.built[b]
      BY <2>4, FileIs
    <3>2. m = job.level + 1 /\ \E b \in DOMAIN job.built : t = job.built[b]
      BY <2>4, FileIs
    <3>3. PICK b \in DOMAIN job.built, d \in DOMAIN job.built : s = job.built[b] /\ t = job.built[d]
      BY <3>1, <3>2
    <3>4. job.built[b].id \in Nat /\ b \in Int /\ d \in Int
      BY <1>2 DEF Sst
    <3>5. ~ (b < d) /\ ~ (d < b)
      BY <1>1, <1>3, <3>1, <3>3, <3>4 DEF SortedSsts
    <3>6. b = d
      BY <3>4, <3>5
    <3>7. QED
      BY <3>1, <3>2, <3>3, <3>6
  <2>5. QED
    BY <2>1, <2>2, <2>3, <2>4
<1>4. ASSUME NEW l \in Level, NEW s \in FilesAt(l)
      PROVE  s.id \in Nat /\ s.id < next_sst_id
  <2>1. s.id \in Nat
    BY FilesTyped DEF Sst
  <2>2. s.id < next_sst_id
    BY <1>1, FileIs DEF SstIdsBounded
  <2>3. QED
    BY <2>1, <2>2
<1>5. QED
  BY <1>3, <1>4

\* The files hold what the levels hold, also when some of the inputs of a
\* compaction are deleted: the outputs hold all of theirs.
LEMMA FilesHoldAll ==
  ASSUME DiskInv
  PROVE  FileVersions = DiskVersions
<1> DEFINE L == job.level
           built == UNION {job.built[b].table : b \in DOMAIN job.built}
<1>1. \A v : v \in built <=> \E b \in DOMAIN job.built : v \in job.built[b].table
  OBVIOUS
<1>2. \A l \in Level : \A v : v \in LevelVersions(levels, l)
                                <=> \E i \in DOMAIN levels[l] : v \in levels[l][i].table
  BY DEF LevelVersions
<1>3. \A v : v \in DiskVersions <=> \E l \in Level : \E i \in DOMAIN levels[l] : v \in levels[l][i].table
  BY <1>2 DEF DiskVersions
<1>4. \A v : v \in FileVersions <=> \E l \in Level : \E s \in FilesAt(l) : v \in s.table
  BY DEF FileVersions
<1>5. Busy => /\ L \in Level /\ L + 1 \in Level
              /\ job.rest \cup built = LevelVersions(levels, L) \cup LevelVersions(levels, L + 1)
              /\ job.phase = "delete" => job.rest = {}
  <2>1. Busy => /\ L \in Level /\ L < MaxLevel
                /\ job.rest \cup built = LevelVersions(levels, L) \cup LevelVersions(levels, L + 1)
                /\ job.phase = "delete" => job.rest = {}
    BY DEF DiskInv, DiskTyped, Job, MergeOK, Merge, Busy
  <2>2. QED
    BY <2>1, BoundsAssumption DEF Level
<1> HIDE DEF built
<1>6. ASSUME NEW v \in FileVersions  PROVE v \in DiskVersions
  <2>0. PICK l \in Level : \E s \in FilesAt(l) : v \in s.table
    BY <1>4
  <2>1. PICK s \in FilesAt(l) : v \in s.table
    BY <2>0
  <2>2. CASE \E i \in DOMAIN levels[l] : s = levels[l][i]
    BY <1>3, <2>1, <2>2
  <2>3. CASE Busy /\ \E b \in DOMAIN job.built : s = job.built[b]
    <3>1. v \in built
      BY <1>1, <2>1, <2>3
    <3>2. v \in LevelVersions(levels, L) \/ v \in LevelVersions(levels, L + 1)
      BY <1>5, <2>3, <3>1
    <3>3. QED
      BY <1>2, <1>3, <1>5, <2>3, <3>2
  <2>4. QED
    BY <2>2, <2>3, FileIs
<1>7. ASSUME NEW v \in DiskVersions  PROVE v \in FileVersions
  <2>0. PICK l \in Level : \E i \in DOMAIN levels[l] : v \in levels[l][i].table
    BY <1>3
  <2>1. PICK i \in DOMAIN levels[l] : v \in levels[l][i].table
    BY <2>0
  <2>2. CASE levels[l][i] \in FilesAt(l)
    BY <1>4, <2>1, <2>2
  <2>3. CASE job.phase = "delete" /\ l \in {L, L + 1}
    <3>1. Busy
      BY <2>3 DEF Busy
    <3>2. v \in LevelVersions(levels, l)
      BY <1>2, <2>1
    <3>3. v \in built
      BY <1>5, <2>3, <3>1, <3>2
    <3>4. PICK b \in DOMAIN job.built : v \in job.built[b].table
      BY <1>1, <3>3
    <3>5. job.built[b] \in FilesAt(L + 1)
      BY <3>1, AreFiles
    <3>6. QED
      BY <1>4, <1>5, <3>1, <3>4, <3>5
  <2>4. QED
    BY <2>2, <2>3, AreFiles
<1>8. QED
  BY <1>6, <1>7

-----------------------------------------------------------------------------
(* The steps.  All but a flush leave the set of versions in the SSTs alone, *)
(* and a flush adds those of one table.                                    *)

DiskKept == DiskVersions' = DiskVersions

OnDisk == DiskVersions \subseteq DiskVersions'

\* A step that leaves the levels alone and at most starts or stops a flush.
LEMMA LevelsKept ==
  ASSUME DiskInv, MemTyped', tranc_id_file' \in Nat, UNCHANGED <<levels, next_sst_id>>,
         job' \in Job, MergeOK(job', levels, next_sst_id), CompactSafe(job', levels)
  PROVE  DiskInv' /\ DiskKept
<1>1. DiskTyped'
  BY DEF DiskInv, DiskTyped
<1>2. SstIdsBounded' /\ ListedOnce(levels')
  BY DEF DiskInv, SstIdsBounded, ListedOnce
<1>3. MergeOK(job', levels', next_sst_id') /\ CompactSafe(job', levels')
  OBVIOUS
<1>4. DiskKept
  BY DEF DiskKept, DiskVersions, LevelVersions
<1>5. QED
  BY <1>1, <1>2, <1>3, <1>4 DEF DiskInv, MergeOK, CompactSafe, Merge, LevelVersions

\* A compaction that has not begun is safe.
LEMMA StartSafe ==
  ASSUME NEW lv, NEW l
  PROVE  CompactSafe(StartCompact(lv, l), lv) /\ CompactSafe(AtPhase("flush"), lv)
         /\ CompactSafe(AtPhase("idle"), lv)
BY DEF CompactSafe, StartCompact, AtPhase

\* LSMEngine::flush begins safely.
LEMMA FlushBegins ==
  ASSUME DiskInv, HasRoom
  PROVE  /\ FlushEntry \in Job /\ MergeOK(FlushEntry, levels, next_sst_id)
         /\ CompactSafe(FlushEntry, levels)
<1>1. FlushEntry \in Job /\ MergeOK(FlushEntry, levels, next_sst_id)
  BY FlushEntryOK DEF DiskInv
<1>2. CompactSafe(FlushEntry, levels)
  BY StartSafe DEF FlushEntry
<1>3. QED
  BY <1>1, <1>2

\* LSMEngine::put and its variants change the memtable only.
LEMMA WriteSafe ==
  ASSUME DiskInv, NEW B \in Tables, EngineWrite(B), next_tranc_id' \in Nat,
         UNCHANGED tranc_id_file
  PROVE  DiskInv' /\ DiskKept
<1> DEFINE t == TablePut(current_table, B)
<1>1. MemTyped /\ tranc_id_file \in Nat
  BY DEF DiskInv
<1>2. t \in Tables
  BY <1>1, TablePutIsTable DEF MemTyped
<1>3. \/ current_table' = {} /\ frozen_tables' = <<t>> \o frozen_tables
      \/ current_table' = t /\ frozen_tables' = frozen_tables
  BY DEF EngineWrite, MemInsert
<1> HIDE DEF t
<1>4. {} \in Tables
  BY FS_EmptySet DEF Tables
<1>5. MemTyped'
  <2>1. <<t>> \o frozen_tables \in Seq(Tables)
    BY <1>1, <1>2 DEF MemTyped
  <2>2. QED
    BY <1>1, <1>2, <1>3, <1>4, <2>1 DEF MemTyped
<1>6. UNCHANGED <<levels, next_sst_id>> /\ HasRoom /\ (job' = FlushEntry \/ job' = AtPhase("idle"))
  BY DEF EngineWrite, sstVars, Idle
<1>7. job' \in Job /\ MergeOK(job', levels, next_sst_id) /\ CompactSafe(job', levels)
  BY <1>6, FlushBegins, AtPhaseOK, StartSafe
<1>8. QED
  BY <1>1, <1>5, <1>6, <1>7, LevelsKept

\* gen_sst_from_iter takes a fresh id for every output.
LEMMA BuildSafe ==
  ASSUME DiskInv, CompactBuild, UNCHANGED tranc_id_file
  PROVE  DiskInv' /\ DiskKept
<1>1. DiskTyped /\ MergeOK(job, levels, next_sst_id) /\ MemTyped /\ tranc_id_file \in Nat
  BY DEF DiskInv
<1>2. /\ job' \in Job
      /\ MergeOK(job', levels, next_sst_id')
      /\ job'.phase \in {"build", "delete"}
      /\ job'.level = job.level /\ job'.gone = job.gone
      /\ \A i \in DOMAIN job'.built :
           \/ job'.built[i].id = next_sst_id
           \/ i \in DOMAIN job.built /\ job'.built[i] = job.built[i]
  BY <1>1, CompactBuildOK
<1>3. /\ job.phase = "build" /\ next_sst_id' = next_sst_id + 1
      /\ UNCHANGED <<current_table, frozen_tables, levels, next_tranc_id>>
  BY DEF CompactBuild, memVars
<1>4. \A l \in Level : \A i \in DOMAIN levels[l] :
        levels[l][i].id \in Nat /\ levels[l][i].id < next_sst_id
  <2>1. \A l \in Level : levels[l] \in Seq(Sst)
    BY <1>1 DEF DiskTyped
  <2>2. \A l \in Level : \A i \in DOMAIN levels[l] : levels[l][i] \in Sst
    BY <2>1
  <2>3. QED
    BY <2>2 DEF DiskInv, SstIdsBounded, Sst
<1>5. next_sst_id \in Nat \ {0}
  BY <1>1 DEF DiskTyped
<1>6. CompactSafe(job', levels)
  <2>1. job.gone = 0 /\ \A b \in DOMAIN job.built, l \in Level : \A i \in DOMAIN levels[l] :
          job.built[b].id # levels[l][i].id
    BY <1>3 DEF DiskInv, CompactSafe
  <2>2. \A b \in DOMAIN job'.built, l \in Level : \A i \in DOMAIN levels[l] :
          job'.built[b].id # levels[l][i].id
    BY <1>2, <1>4, <1>5, <2>1
  <2>3. job.level \in Level /\ job.level + 1 \in Level
    BY <1>1, <1>3, BoundsAssumption DEF MergeOK, DiskTyped, Job, Level
  <2> DEFINE q == levels[job.level] \o levels[job.level + 1]
  <2>4. q \in Seq(Sst)
    BY <1>1, <2>3 DEF DiskTyped
  <2> HIDE DEF q
  <2>5. Len(q) \in Nat
    BY <2>4
  <2>6. 0 <= Len(q)
    BY <2>5
  <2>7. QED
    BY <1>2, <2>1, <2>2, <2>6 DEF CompactSafe, q
<1>7. SstIdsBounded'
  BY <1>3, <1>4, <1>5 DEF SstIdsBounded
<1>8. DiskKept /\ ListedOnce(levels') /\ DiskTyped' /\ MemTyped'
  BY <1>1, <1>2, <1>3, <1>5 DEF DiskKept, DiskVersions, LevelVersions, DiskInv, ListedOnce, DiskTyped, MemTyped
<1>9. MergeOK(job', levels', next_sst_id') /\ CompactSafe(job', levels')
  BY <1>2, <1>3, <1>6
<1>10. QED
  BY <1>1, <1>7, <1>8, <1>9 DEF DiskInv, MergeOK, CompactSafe, Merge, LevelVersions

\* full_compact deletes its inputs one by one.
LEMMA DeleteSafe ==
  ASSUME DiskInv, CompactDelete, UNCHANGED tranc_id_file
  PROVE  DiskInv' /\ DiskKept
<1>1. /\ job \in Job /\ MergeOK(job, levels, next_sst_id) /\ CompactSafe(job, levels)
      /\ MemTyped /\ tranc_id_file \in Nat /\ job.gone \in Nat
  BY DEF DiskInv, DiskTyped, Job
<1>2. /\ job.phase = "delete" /\ job' = [job EXCEPT !.gone = @ + 1]
      /\ job.gone < Len(levels[job.level] \o levels[job.level + 1])
      /\ UNCHANGED <<current_table, frozen_tables, levels, next_sst_id, next_tranc_id>>
  BY DEF CompactDelete, Doomed, memVars, sstVars
<1>3. job' \in Job
  BY <1>1, <1>2 DEF Job
<1>4. /\ job'.phase = job.phase /\ job'.level = job.level /\ job'.gone = job.gone + 1
      /\ job'.rest = job.rest /\ job'.built = job.built
  BY <1>1, <1>2 DEF Job
<1>5. MergeOK(job', levels, next_sst_id)
  BY <1>1, <1>2, <1>4 DEF MergeOK, Merge
<1>6. CompactSafe(job', levels)
  <2> DEFINE q == levels[job.level] \o levels[job.level + 1]
  <2>1. job.level \in Level /\ job.level + 1 \in Level
    BY <1>1, <1>2, BoundsAssumption DEF MergeOK, Job, Level
  <2>2. q \in Seq(Sst)
    BY <2>1 DEF DiskInv, DiskTyped
  <2>3. job.gone < Len(q)
    BY <1>2
  <2> HIDE DEF q
  <2>4. job.gone + 1 <= Len(q)
    BY <1>1, <2>2, <2>3
  <2>5. \A b \in DOMAIN job.built, l \in Level : \A i \in DOMAIN levels[l] :
          job.built[b].id # levels[l][i].id
    BY <1>1, <1>2 DEF CompactSafe
  <2>6. job.gone + 1 <= Len(levels[job.level] \o levels[job.level + 1])
    BY <2>4 DEF q
  <2>7. QED
    BY <1>2, <1>4, <2>5, <2>6 DEF CompactSafe
<1>7. MemTyped'
  BY <1>1, <1>2 DEF MemTyped
<1>8. QED
  BY <1>1, <1>2, <1>3, <1>5, <1>6, <1>7, LevelsKept

\* The tail of full_compact: the outputs take the place of the inputs.
LEMMA InstallSafe ==
  ASSUME DiskInv, CompactInstall, UNCHANGED tranc_id_file
  PROVE  DiskInv' /\ DiskKept
<1> DEFINE L == job.level
<1>1. /\ DiskTyped /\ MergeOK(job, levels, next_sst_id) /\ MemTyped /\ tranc_id_file \in Nat
      /\ CompactSafe(job, levels) /\ SstIdsBounded /\ ListedOnce(levels)
  BY DEF DiskInv
<1>2. /\ levels' \in [Level -> Seq(Sst)]
      /\ L \in Level /\ L + 1 \in Level /\ L # L + 1
      /\ levels'[L] = <<>> /\ levels'[L + 1] = job.built
      /\ \A m \in Level \ {L, L + 1} : levels'[m] = levels[m]
      /\ DiskVersions' = DiskVersions
      /\ job' \in Job /\ MergeOK(job', levels', next_sst_id)
  BY <1>1, InstalledOK
<1>3. /\ job.phase = "delete"
      /\ UNCHANGED <<current_table, frozen_tables, next_sst_id, next_tranc_id>>
      /\ \/ job' = AtPhase("flush")
         \/ job' = StartCompact(levels', L - 1)
  BY DEF CompactInstall, memVars
<1>4. /\ \A b \in DOMAIN job.built, l \in Level : \A i \in DOMAIN levels[l] :
           job.built[b].id # levels[l][i].id
      /\ SortedSsts(job.built)
      /\ \A b \in DOMAIN job.built : job.built[b].id < next_sst_id
  BY <1>1, <1>3 DEF CompactSafe, MergeOK
<1>5. \A m \in Level : \A i \in DOMAIN levels'[m] :
        \/ m = L + 1 /\ i \in DOMAIN job.built /\ levels'[m][i] = job.built[i]
        \/ m \notin {L, L + 1} /\ i \in DOMAIN levels[m] /\ levels'[m][i] = levels[m][i]
  <2>1. DOMAIN <<>> = {}
    OBVIOUS
  <2>2. QED
    BY <1>2, <2>1
<1>6. \A b, d \in DOMAIN job.built : job.built[b].id = job.built[d].id => b = d
  <2> SUFFICES ASSUME NEW b \in DOMAIN job.built, NEW d \in DOMAIN job.built,
                      job.built[b].id = job.built[d].id
               PROVE  b = d
    OBVIOUS
  <2>1. job.built \in Seq(Sst)
    BY <1>1 DEF DiskTyped, Job
  <2>2. job.built[b] \in Sst /\ b \in Int /\ d \in Int
    BY <2>1
  <2>3. job.built[b].id \in Nat
    BY <2>2 DEF Sst
  <2>4. ~ (b < d) /\ ~ (d < b)
    BY <1>4, <2>3 DEF SortedSsts
  <2>5. QED
    BY <2>2, <2>4
<1>7. ListedOnce(levels')
  <2> SUFFICES ASSUME NEW l \in Level, NEW m \in Level,
                      NEW i \in DOMAIN levels'[l], NEW k \in DOMAIN levels'[m],
                      levels'[l][i].id = levels'[m][k].id
               PROVE  l = m /\ i = k
    BY DEF ListedOnce
  <2>1. CASE l = L + 1 /\ m = L + 1
    BY <1>2, <1>5, <1>6, <2>1
  <2>2. CASE l = L + 1 /\ m # L + 1
    BY <1>4, <1>5, <2>2
  <2>3. CASE l # L + 1 /\ m = L + 1
    BY <1>4, <1>5, <2>3
  <2>4. CASE l # L + 1 /\ m # L + 1
    BY <1>1, <1>5, <2>4 DEF ListedOnce
  <2>5. QED
    BY <2>1, <2>2, <2>3, <2>4
<1>8. SstIdsBounded'
  BY <1>1, <1>3, <1>4, <1>5 DEF SstIdsBounded
<1>9. CompactSafe(job', levels')
  BY <1>3, StartSafe
<1>10. MergeOK(job', levels', next_sst_id')
  BY <1>2, <1>3
<1>11. DiskTyped' /\ MemTyped' /\ DiskKept
  BY <1>1, <1>2, <1>3 DEF DiskTyped, MemTyped, DiskKept
<1>12. QED
  BY <1>1, <1>7, <1>8, <1>9, <1>10, <1>11
     DEF DiskInv, MergeOK, CompactSafe, Merge, LevelVersions, ListedOnce

\* LSMEngine::flush writes the memtable to a file with a fresh id.
LEMMA FlushSafe ==
  ASSUME DiskInv, FlushLast, UNCHANGED tranc_id_file
  PROVE  /\ DiskInv' /\ FlushSource \in Tables
         /\ DiskVersions' = DiskVersions \cup FlushSource
<1> DEFINE n == Len(levels[0])
           s == [id |-> next_sst_id, table |-> FlushSource]
<1>1. /\ DiskTyped /\ MemTyped /\ tranc_id_file \in Nat /\ SstIdsBounded /\ ListedOnce(levels)
      /\ current_table \in Tables /\ frozen_tables \in Seq(Tables)
      /\ next_sst_id \in Nat \ {0} /\ 0 \in Level /\ levels[0] \in Seq(Sst)
      /\ n \in Nat /\ DOMAIN levels[0] = 1 .. n
  BY BoundsAssumption DEF DiskInv, MemTyped, DiskTyped, Level
<1>2. FlushSource \in Tables /\ MemTyped'
  <2>1. CASE frozen_tables = <<>>
    <3>1. {} \in Tables
      BY FS_EmptySet DEF Tables
    <3>2. QED
      BY <1>1, <2>1, <3>1 DEF FlushLast, FlushSource, MemTyped
  <2>2. CASE frozen_tables # <<>>
    <3>1. /\ FlushSource = frozen_tables[Len(frozen_tables)]
          /\ frozen_tables' = SubSeq(frozen_tables, 1, Len(frozen_tables) - 1)
          /\ UNCHANGED <<current_table, next_tranc_id>>
      BY <2>2 DEF FlushLast, FlushSource, Front, Last
    <3>2. Len(frozen_tables) \in 1 .. Len(frozen_tables)
      BY <1>1, <2>2
    <3>3. frozen_tables' \in Seq(Tables) /\ FlushSource \in Tables
      BY <1>1, <3>1, <3>2
    <3>4. QED
      BY <1>1, <3>1, <3>3 DEF MemTyped
  <2>3. QED
    BY <2>1, <2>2
<1>3. /\ s \in Sst
      /\ levels' \in [Level -> Seq(Sst)]
      /\ \A m \in Level \ {0} : levels'[m] = levels[m]
      /\ DOMAIN levels'[0] = 1 .. n + 1
      /\ levels'[0][1] = s
      /\ \A i \in 2 .. n + 1 : i - 1 \in 1 .. n /\ levels'[0][i] = levels[0][i - 1]
      /\ \A i \in 1 .. n + 1 : i = 1 \/ i \in 2 .. n + 1
      /\ DiskVersions' = DiskVersions \cup FlushSource
  BY <1>1, <1>2, FlushedOK
<1>4. next_sst_id' = next_sst_id + 1 /\ job' = AtPhase("idle") /\ s.id = next_sst_id
  BY DEF FlushLast, Idle
<1> HIDE DEF s
\* An SST after the step is the new one or has its place in the old list.
<1>5. \A m \in Level : \A i \in DOMAIN levels'[m] :
        \/ m = 0 /\ i = 1 /\ levels'[m][i].id = next_sst_id
        \/ m = 0 /\ i \in Int /\ i - 1 \in DOMAIN levels[m] /\ levels'[m][i] = levels[m][i - 1]
        \/ m # 0 /\ i \in DOMAIN levels[m] /\ levels'[m][i] = levels[m][i]
  <2>1. \A i \in 1 .. n + 1 :
          \/ i = 1 /\ levels'[0][i].id = next_sst_id
          \/ i \in Int /\ i - 1 \in 1 .. n /\ levels'[0][i] = levels[0][i - 1]
    BY <1>3, <1>4
  <2>2. QED
    BY <1>1, <1>3, <2>1
<1>6. \A m \in Level : \A i \in DOMAIN levels[m] :
        levels[m][i].id \in Nat /\ levels[m][i].id < next_sst_id
  <2>1. \A m \in Level : levels[m] \in Seq(Sst)
    BY <1>1 DEF DiskTyped
  <2>2. \A m \in Level : \A i \in DOMAIN levels[m] : levels[m][i] \in Sst
    BY <2>1
  <2>3. QED
    BY <1>1, <2>2 DEF SstIdsBounded, Sst
<1>7. SstIdsBounded'
  <2> SUFFICES ASSUME NEW m \in Level, NEW i \in DOMAIN levels'[m]
               PROVE  levels'[m][i].id < next_sst_id + 1
    BY <1>4 DEF SstIdsBounded
  <2>1. levels'[m][i].id \in Nat /\ levels'[m][i].id <= next_sst_id
    BY <1>1, <1>5, <1>6
  <2>2. QED
    BY <1>1, <2>1
<1>8. ListedOnce(levels')
  <2> SUFFICES ASSUME NEW l \in Level, NEW m \in Level,
                      NEW i \in DOMAIN levels'[l], NEW k \in DOMAIN levels'[m],
                      levels'[l][i].id = levels'[m][k].id
               PROVE  l = m /\ i = k
    BY DEF ListedOnce
  <2>1. CASE l = 0 /\ i = 1
    <3>1. levels'[m][k].id = next_sst_id
      BY <1>3, <1>4, <2>1
    <3>2. m = 0 /\ k = 1
      BY <1>1, <1>5, <1>6, <3>1
    <3>3. QED
      BY <2>1, <3>2
  <2>2. CASE m = 0 /\ k = 1
    <3>1. levels'[l][i].id = next_sst_id
      BY <1>3, <1>4, <2>2
    <3>2. l = 0 /\ i = 1
      BY <1>1, <1>5, <1>6, <3>1
    <3>3. QED
      BY <2>2, <3>2
  <2>3. CASE ~ (l = 0 /\ i = 1) /\ ~ (m = 0 /\ k = 1)
    <3>1. CASE l = 0 /\ m = 0
      <4>1. i \in Int /\ k \in Int /\ i - 1 = k - 1
        BY <1>1, <1>5, <2>3, <3>1 DEF ListedOnce
      <4>2. QED
        BY <3>1, <4>1
    <3>2. CASE l # 0 \/ m # 0
      BY <1>1, <1>5, <2>3, <3>2 DEF ListedOnce
    <3>3. QED
      BY <3>1, <3>2
  <2>4. QED
    BY <2>1, <2>2, <2>3
<1>9. job' \in Job /\ MergeOK(job', levels', next_sst_id') /\ CompactSafe(job', levels')
  BY <1>4, AtPhaseOK, StartSafe
<1>10. DiskTyped'
  BY <1>1, <1>3, <1>4, <1>9 DEF DiskTyped
<1>11. QED
  BY <1>1, <1>2, <1>3, <1>7, <1>8, <1>9, <1>10
     DEF DiskInv, MergeOK, CompactSafe, Merge, LevelVersions, ListedOnce

\* The constructor of LSMEngine lists every file once, in any directory that a
\* crash or a close leaves.
LEMMA LoadSafe ==
  ASSUME DiskInv, Load([l \in Level |-> FilesAt(l)]),
         next_tranc_id' \in Nat, tranc_id_file' \in Nat
  PROVE  DiskInv' /\ DiskKept
<1> DEFINE files == [m \in Level |-> FilesAt(m)]
           I == {0} \cup {x.id : x \in UNION {files[m] : m \in Level}}
<1>1. /\ levels' = [m \in Level |-> IF m = 0 THEN Reverse(SortedById(files[0]))
                                    ELSE SortedById(files[m])]
      /\ next_sst_id' = Max(I) + 1
      /\ current_table' = {} /\ frozen_tables' = <<>> /\ job' = AtPhase("idle")
  BY DEF Load, Idle
<1>2. \A m \in Level : files[m] = FilesAt(m)
  OBVIOUS
<1>3. next_sst_id \in Nat /\ 0 \in Level
  BY BoundsAssumption DEF DiskInv, DiskTyped, Level
<1>4. /\ \A l, m \in Level : \A s \in FilesAt(l), t \in FilesAt(m) :
           s.id = t.id => l = m /\ s = t
      /\ \A l \in Level : \A s \in FilesAt(l) : s.id \in Nat /\ s.id < next_sst_id
  BY FileIdsOnce
<1>5. \A x : x \in I <=> x = 0 \/ \E m \in Level : \E s \in files[m] : x = s.id
  OBVIOUS
<1> HIDE DEF files, I
<1>6. Max(I) \in I /\ \A x \in I : x <= Max(I)
  <2>1. \A x \in I : x \in Nat /\ x <= next_sst_id
    BY <1>2, <1>3, <1>4, <1>5
  <2>2. I \in SUBSET Nat /\ I # {}
    BY <1>5, <2>1
  <2>3. QED
    BY <1>3, <2>1, <2>2, MaxElement
<1>7. Max(I) \in Nat
  BY <1>2, <1>4, <1>5, <1>6
\* Every level lists its files, and lists none twice.
<1>8. ASSUME NEW m \in Level
      PROVE  /\ levels'[m] \in Seq(Sst) /\ ToSet(levels'[m]) = FilesAt(m)
             /\ \A i, k \in DOMAIN levels'[m] : levels'[m][i].id = levels'[m][k].id => i = k
  <2> DEFINE r == SortedById(FilesAt(m))
             z == Len(r)
  <2>1. FilesAt(m) \in SUBSET Sst /\ IsFiniteSet(FilesAt(m)) /\ IdsDiffer(FilesAt(m))
    BY <1>4, FilesTyped DEF IdsDiffer
  <2>2. r \in Seq(Sst) /\ ToSet(r) = FilesAt(m) /\ IdsAscend(r)
    BY <2>1, SortOK
  <2>3. levels'[m] = IF m = 0 THEN Reverse(r) ELSE r
    BY <1>1, <1>2, <1>3
  <2> HIDE DEF r
  <2>4. z \in Nat /\ DOMAIN r = 1 .. z /\ \A i \in 1 .. z : r[i] \in Sst
    BY <2>2
  <2>5. \A i, k \in 1 .. z : r[i].id = r[k].id => i = k
    <3> SUFFICES ASSUME NEW i \in 1 .. z, NEW k \in 1 .. z, r[i].id = r[k].id  PROVE i = k
      OBVIOUS
    <3>1. r[i].id \in Nat
      BY <2>4 DEF Sst
    <3>2. ~ (i < k) /\ ~ (k < i)
      BY <2>2, <2>4, <3>1 DEF IdsAscend
    <3>3. QED
      BY <3>2
  <2>6. CASE m # 0
    BY <2>2, <2>3, <2>4, <2>5, <2>6
  <2>7. CASE m = 0
    <3>1. /\ levels'[m] \in Seq(Sst) /\ DOMAIN levels'[m] = 1 .. z
          /\ ToSet(levels'[m]) = FilesAt(m)
          /\ \A i \in 1 .. z : z - i + 1 \in 1 .. z /\ levels'[m][i] = r[z - i + 1]
      BY <2>2, <2>3, <2>7, ReverseOK
    <3>2. ASSUME NEW i \in 1 .. z, NEW k \in 1 .. z, levels'[m][i].id = levels'[m][k].id
          PROVE  i = k
      <4>1. z - i + 1 = z - k + 1
        BY <2>5, <3>1, <3>2
      <4>2. QED
        BY <2>4, <4>1
    <3>3. QED
      BY <3>1, <3>2
  <2>8. QED
    BY <2>6, <2>7
<1>9. \A m \in Level : \A i \in DOMAIN levels'[m] : levels'[m][i] \in FilesAt(m)
  BY <1>8 DEF ToSet
<1>10. \A m \in Level : \A s \in FilesAt(m) : \E i \in DOMAIN levels'[m] : s = levels'[m][i]
  <2>1. \A q : \A x \in ToSet(q) : \E i \in DOMAIN q : x = q[i]
    BY DEF ToSet
  <2>2. QED
    BY <1>8, <2>1
<1>11. ListedOnce(levels')
  <2> SUFFICES ASSUME NEW l \in Level, NEW m \in Level,
                      NEW i \in DOMAIN levels'[l], NEW k \in DOMAIN levels'[m],
                      levels'[l][i].id = levels'[m][k].id
               PROVE  l = m /\ i = k
    BY DEF ListedOnce
  <2>1. l = m
    BY <1>4, <1>9
  <2>2. QED
    BY <1>8, <2>1
<1>12. SstIdsBounded' /\ next_sst_id' \in Nat \ {0}
  <2>1. ASSUME NEW m \in Level, NEW i \in DOMAIN levels'[m]
        PROVE  levels'[m][i].id < Max(I) + 1
    <3>1. levels'[m][i].id \in I /\ levels'[m][i].id \in Nat
      BY <1>2, <1>4, <1>5, <1>9
    <3>2. QED
      BY <1>6, <1>7, <3>1
  <2>2. QED
    BY <1>1, <1>7, <2>1 DEF SstIdsBounded
<1>13. DiskKept
  <2>1. DiskVersions = FileVersions
    BY FilesHoldAll
  <2>2. ASSUME NEW v \in FileVersions  PROVE v \in DiskVersions'
    <3>1. PICK m \in Level : \E s \in FilesAt(m) : v \in s.table
      BY DEF FileVersions
    <3>2. PICK i \in DOMAIN levels'[m] : v \in levels'[m][i].table
      BY <1>10, <3>1
    <3>3. v \in LevelVersions(levels', m)
      BY <3>2 DEF LevelVersions
    <3>4. QED
      BY <3>3 DEF DiskVersions
  <2>3. ASSUME NEW v \in DiskVersions'  PROVE v \in FileVersions
    <3>1. PICK m \in Level : v \in LevelVersions(levels', m)
      BY DEF DiskVersions
    <3>2. PICK i \in DOMAIN levels'[m] : v \in levels'[m][i].table
      BY <3>1 DEF LevelVersions
    <3>3. levels'[m][i] \in FilesAt(m)
      BY <1>9
    <3>4. QED
      BY <3>2, <3>3 DEF FileVersions
  <2>4. QED
    BY <2>1, <2>2, <2>3 DEF DiskKept
<1>14. job' \in Job /\ MergeOK(job', levels', next_sst_id') /\ CompactSafe(job', levels')
  BY <1>1, AtPhaseOK, StartSafe
<1>15. DiskTyped'
  <2>1. levels' \in [Level -> Seq(Sst)]
    BY <1>1, <1>8
  <2>2. QED
    BY <1>12, <1>14, <2>1 DEF DiskTyped
<1>16. MemTyped'
  BY <1>1, FS_EmptySet DEF MemTyped, Tables
<1>17. QED
  BY <1>11, <1>12, <1>13, <1>14, <1>15, <1>16
     DEF DiskInv, MergeOK, CompactSafe, Merge, LevelVersions, ListedOnce

-----------------------------------------------------------------------------
(* The theorems.                                                           *)

\* Every step, a crash included, preserves the invariant and loses no SST.
LEMMA CrashStepOK ==
  ASSUME DiskInv, [CrashNext]_crashVars
  PROVE  DiskInv' /\ OnDisk
<1>1. /\ MemTyped /\ tranc_id_file \in Nat /\ next_tranc_id \in Nat
      /\ job \in Job /\ MergeOK(job, levels, next_sst_id) /\ CompactSafe(job, levels)
  BY DEF DiskInv, DiskTyped, MemTyped
<1>2. DiskKept => OnDisk
  BY DEF DiskKept, OnDisk
<1>3. ASSUME UNCHANGED <<current_table, frozen_tables, levels, next_sst_id, tranc_id_file>>,
             next_tranc_id' \in {next_tranc_id, next_tranc_id + 1},
             job' = job \/ (HasRoom /\ job' = FlushEntry)
      PROVE  DiskInv' /\ OnDisk
  <2>1. MemTyped'
    BY <1>1, <1>3 DEF MemTyped
  <2>2. job' \in Job /\ MergeOK(job', levels, next_sst_id) /\ CompactSafe(job', levels)
    BY <1>1, <1>3, FlushBegins
  <2>3. QED
    BY <1>1, <1>2, <1>3, <2>1, <2>2, LevelsKept
<1>4. CASE UNCHANGED crashVars
  BY <1>3, <1>4 DEF crashVars, lsmVars, memVars, sstVars
<1>5. CASE Operate /\ UNCHANGED <<tranc_id_file, crashes>>
  <2>1. ASSUME NEW ks \in SUBSET Keys, NEW f \in [ks -> Values \cup {Tombstone}],
               NewTrancId, EngineWrite(Batch(f, next_tranc_id))
        PROVE  DiskInv' /\ OnDisk
    <3>1. Batch(f, next_tranc_id) \in Tables /\ next_tranc_id' \in Nat
      BY <1>1, <2>1, BatchIsTable DEF NewTrancId
    <3>2. QED
      BY <1>2, <1>5, <2>1, <3>1, WriteSafe
  <2>2. ASSUME NEW ks \in SUBSET Keys \ {{}}, NEW f \in [ks -> Values], Put(f)
        PROVE  DiskInv' /\ OnDisk
    <3>1. f \in [ks -> Values \cup {Tombstone}] /\ ks \in SUBSET Keys
      OBVIOUS
    <3>2. QED
      BY <2>1, <2>2, <3>1 DEF Put
  <2>3. ASSUME NEW ks \in SUBSET Keys \ {{}}, RemoveKeys(ks)
        PROVE  DiskInv' /\ OnDisk
    <3>1. [k \in ks |-> Tombstone] \in [ks -> Values \cup {Tombstone}] /\ ks \in SUBSET Keys
      OBVIOUS
    <3>2. QED
      BY <2>1, <2>3, <3>1 DEF RemoveKeys
  <2>4. CASE Read
    BY <1>3, <1>5, <2>4 DEF Read, NewTrancId, memVars, sstVars
  <2>5. CASE Flush \/ Drain
    BY <1>3, <1>5, <2>5 DEF Flush, Drain, memVars, sstVars
  <2>6. CASE FlushAll("draining") \/ FlushAll("closing") \/ Drained
    BY <1>3, <1>5, <2>6 DEF FlushAll, Drained, memVars, sstVars
  <2>7. CASE CompactBuild \/ CompactDelete \/ CompactInstall
    BY <1>2, <1>5, <2>7, BuildSafe, DeleteSafe, InstallSafe
  <2>8. CASE FlushLast
    BY <1>5, <2>8, FlushSafe DEF OnDisk
  <2>9. QED
    BY <1>5, <2>2, <2>3, <2>4, <2>5, <2>6, <2>7, <2>8 DEF Operate, Request
<1>6. CASE Reopen /\ tranc_id_file' = next_tranc_id
  BY <1>1, <1>2, <1>6, LoadSafe DEF Reopen
<1>7. CASE Crash
  BY <1>1, <1>2, <1>7, LoadSafe DEF Crash
<1>8. QED
  BY <1>4, <1>5, <1>6, <1>7 DEF CrashNext

\* A new store satisfies the invariant.
LEMMA CrashInitOK == CrashInit => DiskInv
<1> SUFFICES ASSUME CrashInit  PROVE DiskInv
  OBVIOUS
<1>1. /\ current_table = {} /\ frozen_tables = <<>> /\ levels = [l \in Level |-> <<>>]
      /\ next_sst_id = 1 /\ next_tranc_id = 1 /\ job = AtPhase("idle") /\ tranc_id_file = 0
  BY DEF CrashInit, Init, Idle
<1>2. MemTyped
  BY <1>1, FS_EmptySet DEF MemTyped, Tables
<1>3. job \in Job /\ MergeOK(job, levels, next_sst_id) /\ CompactSafe(job, levels)
  BY <1>1, AtPhaseOK, StartSafe
<1>4. DiskTyped
  <2>1. <<>> \in Seq(Sst)
    OBVIOUS
  <2>2. QED
    BY <1>1, <1>3, <2>1 DEF DiskTyped
<1>5. SstIdsBounded /\ ListedOnce(levels)
  <2>1. DOMAIN <<>> = {}
    OBVIOUS
  <2>2. QED
    BY <1>1, <2>1 DEF SstIdsBounded, ListedOnce
<1>6. QED
  BY <1>1, <1>2, <1>3, <1>4, <1>5 DEF DiskInv

\* The invariant of the directory holds in every state of an engine that may crash at
\* any step.
THEOREM CrashInvariance == CrashSpec => []DiskInv
<1>1. DiskInv /\ [CrashNext]_crashVars => DiskInv'
  BY CrashStepOK
<1>2. QED
  BY <1>1, CrashInitOK, PTL DEF CrashSpec

\* Whatever a crash leaves behind, no two SST files share an id and the next id is
\* above them all, so that LSMEngine::ssts never hides one file behind another.
THEOREM SstIdsStayUnique == CrashSpec => []SstIdsUnique
<1>1. DiskInv => SstIdsUnique
  <2> SUFFICES ASSUME DiskInv  PROVE SstIdsUnique
    OBVIOUS
  <2>1. \A f : f \in Files <=> \E l \in Level : \E s \in FilesAt(l) : f = <<l, s>>
    BY DEF Files
  <2>2. /\ \A l, m \in Level : \A s \in FilesAt(l), t \in FilesAt(m) :
             s.id = t.id => l = m /\ s = t
        /\ \A l \in Level : \A s \in FilesAt(l) : s.id \in Nat /\ s.id < next_sst_id
    BY FileIdsOnce
  <2>3. QED
    BY <2>1, <2>2 DEF SstIdsUnique
<1>2. QED
  BY <1>1, CrashInvariance, PTL

\* No step of the engine, crash and restart included, takes a version out of the SST
\* files: full_compact deletes its inputs after it has written all of its outputs.
THEOREM FlushedDataStays == CrashSpec => FlushedStaysOnDisk
<1>1. DiskInv /\ DiskInv' /\ [CrashNext]_crashVars => [FileVersions \subseteq FileVersions']_crashVars
  <2> SUFFICES ASSUME DiskInv, DiskInv', [CrashNext]_crashVars
               PROVE  FileVersions \subseteq FileVersions'
    OBVIOUS
  <2>1. FileVersions = DiskVersions
    BY FilesHoldAll
  <2>2. (FileVersions = DiskVersions)'
    BY FilesHoldAll, PTL
  <2>3. OnDisk
    BY CrashStepOK
  <2>4. QED
    BY <2>1, <2>2, <2>3 DEF OnDisk
<1>2. QED
  BY <1>1, CrashInvariance, PTL DEF CrashSpec, FlushedStaysOnDisk
=============================================================================
