------------------------- MODULE TransactionsProofs -------------------------
(***************************************************************************)
(* Proofs about transactions, the log and recovery.                        *)
(*                                                                         *)
(* The memtable is seen as a row of slots: slot 0 is the current table and *)
(* slot i the i-th frozen one, so that a larger slot is flushed earlier.   *)
(* Three parts of the invariant hold whatever happens, however often the   *)
(* process dies: Manager, Contexts and LogOK.  Durable holds up to the     *)
(* second crash, Fresh and Whole up to the first, and Recent up to the     *)
(* first where every transaction checks for conflicts.                     *)
(***************************************************************************)
EXTENDS Transactions, LsmCrashProofs, ReadPathProofs

Slots   == 0 .. Len(frozen_tables)
Slot(i) == IF i = 0 THEN current_table ELSE frozen_tables[i]

\* The commit marker of t is in the memtable.
Marked(t) == \E i \in Slots : t \in MarkerIds(Slot(i))

\* What recovery skips.
Covered(n, F) == n \in F \/ n <= Min(F)

\* TranManager: an id that has not been flushed is not covered, and a marker in
\* the memtable is that of a committed transaction.
Manager ==
  /\ IsFiniteSet(flushed) /\ IsFiniteSet(DOMAIN ready)
  /\ tranc_id_file <= next_tranc_id
  /\ \A n \in flushed : n < next_tranc_id
  /\ \A n \in flushed_file : n < tranc_id_file
  /\ IsFiniteSet(flushed_file)
  /\ tranc_id_file # 0 => flushed_file # {}
  /\ \A t \in DOMAIN ready :
       /\ t \in DOMAIN trans
       /\ trans[t].state = IF ready[t] = "ABORTED" THEN "aborted" ELSE "committed"
  /\ \A t \in DOMAIN trans :
       t \in DOMAIN ready \/ trans[t].state \in {"active", "aborting"}
         => ~ Covered(t, flushed)
  /\ \A i \in Slots : \A t \in MarkerIds(Slot(i)) :
       t \in DOMAIN trans /\ trans[t].state = "committed"
  /\ opening => /\ DOMAIN trans = {} /\ mode = "open"
                /\ next_tranc_id = tranc_id_file

\* The context c of transaction t: its id was handed out after the tranc_id file was
\* last written, all it writes carries that id, and a read-uncommitted one has
\* written already what it will have committed.
ContextOK(t, c, file, next, all) ==
  /\ DOMAIN c = {"level", "state", "operations", "temp_map", "rollback_map"}
  /\ file <= t /\ 0 < t /\ t < next
  /\ \A i \in DOMAIN c.operations :
       c.operations[i].key \in Keys /\ c.operations[i].id = t
  /\ \A v \in c.temp_map : v.key \in Keys /\ v.id = t
  /\ \A k \in DOMAIN c.rollback_map :
       c.rollback_map[k] \in Tables /\ \A v \in c.rollback_map[k] : v.key = k
  /\ c.level # "READ_UNCOMMITTED" =>
       /\ c.state # "aborting" /\ DOMAIN c.rollback_map = {}
       /\ \A i \in DOMAIN c.operations : Present(c.operations[i], c.temp_map)
  /\ c.level = "READ_UNCOMMITTED" /\ c.state = "active" =>
       \A i \in DOMAIN c.operations : Present(c.operations[i], all)

Contexts == \A t \in DOMAIN trans :
              ContextOK(t, trans[t], tranc_id_file, next_tranc_id, AllVersions)

\* Every transaction in the log counts as flushed or has its marker in the memtable.
LogOK ==
  /\ \A i \in DOMAIN wal : wal[i].key \in Keys
  /\ \A i \in DOMAIN replay : replay[i].key \in Keys
  /\ ~ opening => \A i \in DOMAIN wal :
       Covered(wal[i].id, flushed) \/ (wal[i].id \in DOMAIN ready /\ Marked(wal[i].id))

Logged(v, log) == \E i \in DOMAIN log : log[i].key = v.key /\ log[i].id = v.id

\* No flush of the tables before slot i makes the id n count as flushed.
NotAhead(n, i) ==
  \A j \in Slots : j > i =>
    \/ MarkerIds(Slot(j)) = {}
    \/ n \notin MarkerIds(Slot(j)) /\ n \in DOMAIN ready /\ ready[n] = "OP_COMMITTED"

\* A committed write is on disk, or it is not covered and is in the memtable or among
\* the records to be replayed.
Kept(v) ==
  \/ Present(v, DiskVersions)
  \/ /\ tranc_id_file <= v.id /\ ~ Covered(v.id, flushed)
     /\ crashes = 0 => ~ opening /\ Logged(v, wal)
     /\ \/ opening /\ Logged(v, replay)
        \/ \E i \in Slots : Present(v, Slot(i)) /\ NotAhead(v.id, i)

Durable ==
  /\ committed \subseteq Version
  /\ crashes = 0 => replay = <<>>
  /\ crashes <= 1 => \A v \in committed : Kept(v)

\* The transaction n writes at commit and has not committed.
Hidden(n) == /\ n \in DOMAIN trans /\ trans[n].level # "READ_UNCOMMITTED"
             /\ trans[n].state # "committed"

Shown(n) == n \in Nat /\ n < next_tranc_id /\ ~ Hidden(n)

\* No such transaction has a version in the store, or among those that an abort would
\* bring back.
Fresh ==
  crashes = 0 =>
    /\ \A v \in AllVersions : Shown(v.id)
    /\ \A t \in DOMAIN trans : \A k \in DOMAIN trans[t].rollback_map :
         \A v \in trans[t].rollback_map[k] : Shown(v.id)

\* The writes W are all on disk, or none is and one slot has them all, behind which
\* there are none.
Untorn(W) ==
  \/ \A v \in W : Present(v, DiskVersions)
  \/ /\ \A v \in W : ~ Present(v, DiskVersions)
     /\ \E i \in Slots : /\ \A v \in W : Present(v, Slot(i))
                         /\ \A j \in Slots : j > i => \A v \in W : ~ Present(v, Slot(j))

Writes(t) == trans[t].temp_map \cup {CommitMarker(t)}

Whole ==
  crashes = 0 => \A t \in In("committed") :
    trans[t].level # "READ_UNCOMMITTED" => Untorn(Writes(t))

\* A table nearer the front of the memtable has the newer versions.
Recent ==
  crashes = 0 => \A i, j \in Slots : i < j => \A v \in Slot(i), w \in Slot(j) :
    v.key = w.key => w.id <= v.id \/ v.key = Marker

-----------------------------------------------------------------------------
(* The ids that count as flushed.                                          *)

\* compressSet keeps what recovery skips.
LEMMA CompressOK ==
  ASSUME NEW F \in SUBSET Nat, F # {}, IsFiniteSet(F)
  PROVE  /\ Compress(F) \subseteq F /\ Compress(F) # {}
         /\ \A n \in Nat : Covered(n, Compress(F)) <=> Covered(n, F)
<1> DEFINE run  == {n \in F : Min(F) .. n \subseteq F}
           last == Max(run)
<1>1. Min(F) \in F /\ Min(F) \in Nat /\ \A n \in F : Min(F) <= n
  BY MinElement
<1>2. Min(F) \in run
  BY <1>1
<1>3. run \in SUBSET Nat /\ IsFiniteSet(run)
  BY FS_Subset
<1>4. last \in run
  BY <1>2, <1>3, FiniteMax
<1>5. last \in F /\ last \in Nat /\ Min(F) .. last \subseteq F
  BY <1>4
<1>6. Compress(F) = {n \in F : n >= last}
  BY DEF Compress
<1> HIDE DEF last, run
<1>7. last \in Compress(F) /\ Compress(F) \in SUBSET Nat
  <2>1. last >= last
    BY <1>5
  <2>2. \A n \in Compress(F) : n \in F
    BY <1>6
  <2>3. QED
    BY <1>5, <1>6, <2>1, <2>2
<1>8. Min(Compress(F)) \in Compress(F) /\ \A n \in Compress(F) : Min(Compress(F)) <= n
  BY <1>7, MinElement
<1>9. Min(Compress(F)) = last
  BY <1>5, <1>6, <1>7, <1>8
<1>10. ASSUME NEW n \in Nat  PROVE Covered(n, Compress(F)) <=> Covered(n, F)
  BY <1>1, <1>5, <1>6, <1>9 DEF Covered
<1>11. QED
  BY <1>6, <1>7, <1>10

\* Ids that are not covered yet are covered once they are added, and no others.
LEMMA AddedCovered ==
  ASSUME NEW F \in SUBSET Nat, F # {}, NEW D \in SUBSET Nat, \A d \in D : ~ Covered(d, F)
  PROVE  \A n \in Nat : Covered(n, F \cup D) <=> Covered(n, F) \/ n \in D
<1>1. /\ Min(F) \in F /\ Min(F) \in Nat /\ \A n \in F : Min(F) <= n
      /\ Min(F \cup D) \in F \cup D /\ \A n \in F \cup D : Min(F \cup D) <= n
  BY MinElement
<1>2. \A d \in D : d > Min(F)
  BY <1>1 DEF Covered
<1>3. Min(F \cup D) = Min(F)
  <2>1. Min(F \cup D) \in Nat /\ Min(F \cup D) <= Min(F)
    BY <1>1
  <2>2. Min(F) <= Min(F \cup D)
    BY <1>1, <1>2, <2>1
  <2>3. QED
    BY <1>1, <2>1, <2>2
<1>4. QED
  BY <1>3 DEF Covered

\* From the finished transactions R and the flushed ids F the markers S have made r.
Advanced(R, F, S, r) ==
  /\ r.flushed \subseteq F \cup DOMAIN R /\ r.flushed # {}
  /\ DOMAIN r.ready \subseteq DOMAIN R /\ \A n \in DOMAIN r.ready : r.ready[n] = R[n]
  /\ \A n \in Nat : Covered(n, r.flushed)
                      <=> Covered(n, F) \/ n \in DOMAIN R \ DOMAIN r.ready
  /\ \A n \in DOMAIN R \ DOMAIN r.ready : n \in S \/ R[n] = "ABORTED"
  /\ \A n \in S : n \notin DOMAIN r.ready
  /\ S = {} => r = [ready |-> R, flushed |-> F]

\* add_flushed_tranc_id for one more marker.
LEMMA AddFlushedOK ==
  ASSUME NEW F \in SUBSET Nat, IsFiniteSet(F),
         NEW R, DOMAIN R \subseteq Nat, IsFiniteSet(DOMAIN R),
         NEW S, NEW r, Advanced(R, F, S, r), NEW id \in Nat, \A d \in DOMAIN R : ~ Covered(d, F)
  PROVE  Advanced(R, F, S \cup {id}, AddFlushed(r, id))
<1> DEFINE done == {n \in DOMAIN r.ready : n = id \/ (n < id /\ r.ready[n] = "ABORTED")}
           U == r.flushed \cup done
           a == AddFlushed(r, id)
<1>1. a.ready = [n \in DOMAIN r.ready \ done |-> r.ready[n]] /\ a.flushed = Compress(U)
  BY DEF AddFlushed
<1>2. /\ DOMAIN r.ready \subseteq DOMAIN R /\ r.flushed \subseteq F \cup DOMAIN R /\ r.flushed # {}
      /\ \A n \in DOMAIN r.ready : r.ready[n] = R[n]
      /\ \A n \in DOMAIN R \ DOMAIN r.ready : n \in S \/ R[n] = "ABORTED"
      /\ \A n \in S : n \notin DOMAIN r.ready
      /\ \A n \in Nat : Covered(n, r.flushed)
                          <=> Covered(n, F) \/ n \in DOMAIN R \ DOMAIN r.ready
  BY DEF Advanced
<1>3. IsFiniteSet(F \cup DOMAIN R)
  BY FS_Union
<1>4. U \subseteq F \cup DOMAIN R /\ U \in SUBSET Nat /\ U # {} /\ r.flushed \in SUBSET Nat
  BY <1>2
<1>5. IsFiniteSet(U)
  BY <1>3, <1>4, FS_Subset
<1>6. /\ a.flushed \subseteq U /\ a.flushed # {}
      /\ \A n \in Nat : Covered(n, a.flushed) <=> Covered(n, U)
  <2> HIDE DEF U, a
  <2>1. /\ Compress(U) \subseteq U /\ Compress(U) # {}
        /\ \A n \in Nat : Covered(n, Compress(U)) <=> Covered(n, U)
    BY <1>4, <1>5, CompressOK
  <2>2. QED
    BY <1>1, <2>1
<1>7. done \in SUBSET Nat /\ \A d \in done : ~ Covered(d, r.flushed)
  BY <1>2
<1>8. \A n \in Nat : Covered(n, U) <=> Covered(n, r.flushed) \/ n \in done
  <2> HIDE DEF done
  <2>1. r.flushed # {}
    BY <1>2
  <2>2. QED
    BY <1>4, <1>7, <2>1, AddedCovered
<1>9. DOMAIN a.ready = DOMAIN r.ready \ done /\ \A n \in DOMAIN a.ready : a.ready[n] = r.ready[n]
  BY <1>1
<1>10. \A n \in done : n = id \/ R[n] = "ABORTED"
  BY <1>2
<1>11. id \in DOMAIN r.ready => id \in done
  OBVIOUS
<1> HIDE DEF U, done, a
<1>12. \A n \in Nat : Covered(n, a.flushed) <=> Covered(n, F) \/ n \in DOMAIN R \ DOMAIN a.ready
  <2>1. \A n : n \in DOMAIN R \ DOMAIN a.ready <=> n \in DOMAIN R \ DOMAIN r.ready \/ n \in done
    BY <1>2, <1>9 DEF done
  <2>2. QED
    BY <1>2, <1>6, <1>8, <2>1
<1>13. \A n \in DOMAIN R \ DOMAIN a.ready : n \in S \cup {id} \/ R[n] = "ABORTED"
  BY <1>2, <1>9, <1>10
<1>14. \A n \in S \cup {id} : n \notin DOMAIN a.ready
  BY <1>2, <1>9, <1>11
<1>15. Advanced(R, F, S \cup {id}, a)
  BY <1>2, <1>4, <1>6, <1>9, <1>12, <1>13, <1>14 DEF Advanced
<1>16. QED
  BY <1>15 DEF a

\* The body of the recursion in AddAllFlushed, with f for the recursive call.
AddNext(r, f, S) == IF S = {} THEN r ELSE AddFlushed(f[S \ {Min(S)}], Min(S))

\* The sets of at most m of the ids.
UpTo(ids, m) == {S \in SUBSET ids : Cardinality(S) <= m}

\* A set without its least element is smaller.
LEMMA WithoutMin ==
  ASSUME NEW ids \in SUBSET Nat, IsFiniteSet(ids), NEW m \in Nat,
         NEW S \in UpTo(ids, m + 1), S # {}
  PROVE  Min(S) \in S /\ Min(S) \in Nat /\ S \ {Min(S)} \in UpTo(ids, m)
<1>1. S \in SUBSET ids /\ S \in SUBSET Nat /\ IsFiniteSet(S) /\ Cardinality(S) <= m + 1
  BY FS_Subset DEF UpTo
<1>2. Min(S) \in S
  BY <1>1, MinElement
<1>3. Cardinality(S \ {Min(S)}) = Cardinality(S) - 1 /\ Cardinality(S) \in Nat
  BY <1>1, <1>2, FS_RemoveElement, FS_CardinalityType
<1>4. Cardinality(S \ {Min(S)}) <= m
  BY <1>1, <1>3
<1>5. QED
  BY <1>1, <1>2, <1>4 DEF UpTo

LEMMA NoneUpToZero ==
  ASSUME NEW ids, IsFiniteSet(ids), NEW S \in UpTo(ids, 0)
  PROVE  S = {}
<1>1. S \in SUBSET ids /\ IsFiniteSet(S) /\ Cardinality(S) <= 0
  BY FS_Subset DEF UpTo
<1>2. Cardinality(S) = 0
  BY <1>1, FS_CardinalityType
<1>3. QED
  BY <1>1, <1>2, FS_EmptySet

\* The recursion is well-founded.
LEMMA AddAllExists ==
  ASSUME NEW ids \in SUBSET Nat, IsFiniteSet(ids), NEW r
  PROVE  \E f : f = [S \in SUBSET ids |-> AddNext(r, f, S)]
<1> DEFINE Solves(f, m) == f = [S \in UpTo(ids, m) |-> AddNext(r, f, S)]
           P == {m \in Nat : \E f : Solves(f, m)}
<1>1. 0 \in P
  <2> DEFINE f == [S \in UpTo(ids, 0) |-> r]
  <2>1. \A S \in UpTo(ids, 0) : S = {}
    BY NoneUpToZero
  <2>2. Solves(f, 0)
    BY <2>1 DEF AddNext
  <2>3. QED
    BY <2>2
<1>2. ASSUME NEW m \in P  PROVE m + 1 \in P
  <2>1. PICK g : Solves(g, m)
    BY <1>2
  <2> DEFINE f == [S \in UpTo(ids, m + 1) |-> AddNext(r, g, S)]
  <2>2. m \in Nat
    OBVIOUS
  <2>3. UpTo(ids, m) \subseteq UpTo(ids, m + 1)
    <3>1. ASSUME NEW S \in UpTo(ids, m)  PROVE S \in UpTo(ids, m + 1)
      <4>1. S \in SUBSET ids /\ IsFiniteSet(S) /\ Cardinality(S) <= m
        BY FS_Subset DEF UpTo
      <4>2. Cardinality(S) <= m + 1
        BY <2>2, <4>1, FS_CardinalityType
      <4>3. QED
        BY <4>1, <4>2 DEF UpTo
    <3>2. QED
      BY <3>1
  <2>4. \A S \in UpTo(ids, m) : f[S] = g[S]
    BY <2>1, <2>3
  <2>5. ASSUME NEW S \in UpTo(ids, m + 1)  PROVE AddNext(r, f, S) = AddNext(r, g, S)
    <3> HIDE DEF f
    <3>1. CASE S = {}
      BY <3>1 DEF AddNext
    <3>2. CASE S # {}
      <4>1. S \ {Min(S)} \in UpTo(ids, m)
        BY <2>2, <3>2, WithoutMin
      <4>2. QED
        BY <2>4, <4>1 DEF AddNext
    <3>3. QED
      BY <3>1, <3>2
  <2>6. Solves(f, m + 1)
    BY <2>5
  <2> HIDE DEF f, Solves
  <2>7. m + 1 \in Nat /\ \E h : Solves(h, m + 1)
    BY <2>2, <2>6
  <2>8. QED
    BY <2>7
<1>3. P = Nat
  <2> HIDE DEF Solves
  <2>1. P \in SUBSET Nat
    OBVIOUS
  <2>2. QED
    BY <1>1, <1>2, <2>1, NatInductionSet
<1> DEFINE c == Cardinality(ids)
<1>4. c \in Nat /\ UpTo(ids, c) = SUBSET ids
  <2>1. c \in Nat /\ \A S \in SUBSET ids : Cardinality(S) <= c
    BY FS_Subset, FS_CardinalityType
  <2>2. QED
    BY <2>1 DEF UpTo
<1> HIDE DEF c
<1>5. PICK f : Solves(f, c)
  BY <1>3, <1>4
<1>6. QED
  BY <1>4, <1>5

\* The loop of flush over the markers of a table.
LEMMA AddAllOK ==
  ASSUME NEW F \in SUBSET Nat, IsFiniteSet(F), F # {},
         NEW R, DOMAIN R \subseteq Nat, IsFiniteSet(DOMAIN R),
         \A d \in DOMAIN R : ~ Covered(d, F),
         NEW ids \in SUBSET Nat, IsFiniteSet(ids)
  PROVE  Advanced(R, F, ids, AddAllFlushed([ready |-> R, flushed |-> F], ids))
<1> DEFINE r == [ready |-> R, flushed |-> F]
           f == CHOOSE f : f = [S \in SUBSET ids |-> AddNext(r, f, S)]
           P == {m \in Nat : \A S \in UpTo(ids, m) : Advanced(R, F, S, f[S])}
<1>1. AddAllFlushed(r, ids) = f[ids]
  BY DEF AddAllFlushed, AddNext
<1>2. f = [S \in SUBSET ids |-> AddNext(r, f, S)]
  BY AddAllExists
<1>3. Advanced(R, F, {}, r)
  BY DEF Advanced
<1> HIDE DEF r, f
<1>4. \A S \in SUBSET ids : f[S] = AddNext(r, f, S)
  BY <1>2
<1>5. f[{}] = r
  BY <1>4 DEF AddNext
<1>6. 0 \in P
  BY <1>3, <1>5, NoneUpToZero
<1>7. ASSUME NEW m \in P  PROVE m + 1 \in P
  <2>1. m \in Nat /\ m + 1 \in Nat
    OBVIOUS
  <2>2. ASSUME NEW S \in UpTo(ids, m + 1)  PROVE Advanced(R, F, S, f[S])
    <3>1. CASE S = {}
      BY <1>3, <1>5, <3>1
    <3>2. CASE S # {}
      <4> DEFINE T == S \ {Min(S)}
                 x == Min(S)
      <4>1. x \in S /\ x \in Nat /\ T \in UpTo(ids, m)
        BY <2>1, <3>2, WithoutMin
      <4>2. f[S] = AddFlushed(f[T], x)
        BY <1>4, <3>2 DEF AddNext, UpTo
      <4>3. Advanced(R, F, T, f[T])
        BY <4>1
      <4>4. T \cup {x} = S
        BY <4>1
      <4> HIDE DEF T, x
      <4>5. Advanced(R, F, T \cup {x}, AddFlushed(f[T], x))
        BY <4>1, <4>3, AddFlushedOK
      <4>6. QED
        BY <4>2, <4>4, <4>5
    <3>3. QED
      BY <3>1, <3>2
  <2>3. QED
    BY <2>1, <2>2
<1>8. P = Nat
  BY <1>6, <1>7, NatInductionSet
<1>9. ids \in UpTo(ids, Cardinality(ids)) /\ Cardinality(ids) \in Nat
  BY FS_CardinalityType DEF UpTo
<1>10. Advanced(R, F, ids, f[ids])
  BY <1>8, <1>9
<1>11. QED
  BY <1>1, <1>10 DEF r

-----------------------------------------------------------------------------
(* What recovery replays.                                                  *)

Before(log, i, j) == log[i].id < log[j].id \/ (log[i].id = log[j].id /\ i < j)

\* q lists the positions S of the log in the order of the replay.
InOrder(log, q, S) ==
  /\ q \in [1 .. Cardinality(S) -> S] /\ ToSet(q) = S
  /\ \A m, n \in DOMAIN q : m < n => Before(log, q[m], q[n])

LEMMA LogTyped ==
  ASSUME NEW log \in Seq(Version)
  PROVE  /\ Len(log) \in Nat /\ DOMAIN log = 1 .. Len(log) /\ DOMAIN log \subseteq Nat
         /\ \A i \in DOMAIN log : log[i] \in Version /\ log[i].id \in Nat
<1>1. /\ Len(log) \in Nat /\ DOMAIN log = 1 .. Len(log) /\ DOMAIN log \subseteq Nat
      /\ \A i \in DOMAIN log : log[i] \in Version
  OBVIOUS
<1>2. \A v \in Version : v.id \in Nat
  BY DEF Version
<1>3. QED
  BY <1>1, <1>2

\* One of finitely many records is replayed last.
LEMMA LastReplayed ==
  ASSUME NEW log \in Seq(Version), NEW S \in SUBSET DOMAIN log, IsFiniteSet(S), S # {}
  PROVE  \E x \in S : \A y \in S : y # x => Before(log, y, x)
<1> DEFINE I == {log[i].id : i \in S}
<1>1. DOMAIN log \subseteq Nat /\ \A i \in DOMAIN log : log[i].id \in Nat
  BY LogTyped
<1>2. I \in SUBSET Nat /\ I # {}
  BY <1>1
<1>3. IsFiniteSet(I)
  <2> DEFINE f == [i \in S |-> log[i].id]
  <2>1. f \in Surjection(S, I)
    BY DEF Surjection
  <2>2. QED
    BY <2>1, FS_Surjection
<1>4. PICK m \in I : \A x \in I : x <= m
  BY <1>2, <1>3, FiniteMax
<1> DEFINE E == {i \in S : log[i].id = m}
<1>5. E \in SUBSET Nat /\ E # {} /\ IsFiniteSet(E)
  <2>1. E \in SUBSET S
    OBVIOUS
  <2>2. E # {} /\ E \in SUBSET Nat
    BY <1>1, <1>4
  <2>3. QED
    BY <2>1, <2>2, FS_Subset
<1>6. PICK x \in E : \A y \in E : y <= x
  BY <1>5, FiniteMax
<1>7. ASSUME NEW y \in S, y # x  PROVE Before(log, y, x)
  <2>1. log[y].id \in Nat /\ log[y].id <= m /\ m \in Nat /\ log[x].id = m /\ x \in Nat /\ y \in Nat
    BY <1>1, <1>2, <1>4, <1>5, <1>6
  <2>2. CASE log[y].id = m
    BY <1>6, <1>7, <2>1, <2>2 DEF Before
  <2>3. CASE log[y].id # m
    BY <2>1, <2>3 DEF Before
  <2>4. QED
    BY <2>2, <2>3
<1>8. QED
  BY <1>6, <1>7

\* The records to replay can be put in order.
LEMMA OrderExists ==
  ASSUME NEW log \in Seq(Version), NEW S \in SUBSET DOMAIN log, IsFiniteSet(S)
  PROVE  \E q : InOrder(log, q, S)
<1> DEFINE P == {n \in Nat : \A T \in SUBSET DOMAIN log :
                   IsFiniteSet(T) /\ Cardinality(T) = n => \E q : InOrder(log, q, T)}
<1>1. 0 \in P
  <2> SUFFICES ASSUME NEW T \in SUBSET DOMAIN log, IsFiniteSet(T), Cardinality(T) = 0
               PROVE  \E q : InOrder(log, q, T)
    OBVIOUS
  <2>1. T = {}
    BY FS_EmptySet
  <2>2. <<>> \in [1 .. 0 -> {}] /\ ToSet(<<>>) = {} /\ DOMAIN <<>> = {}
    BY DEF ToSet
  <2>3. QED
    BY <2>1, <2>2 DEF InOrder
<1>2. ASSUME NEW n \in P  PROVE n + 1 \in P
  <2> SUFFICES ASSUME NEW T \in SUBSET DOMAIN log, IsFiniteSet(T), Cardinality(T) = n + 1
               PROVE  \E q : InOrder(log, q, T)
    OBVIOUS
  <2>1. n \in Nat /\ T # {}
    BY FS_EmptySet
  <2>2. PICK x \in T : \A y \in T : y # x => Before(log, y, x)
    BY <2>1, LastReplayed
  <2> DEFINE R == T \ {x}
  <2>3. IsFiniteSet(R) /\ Cardinality(R) = n
    <3>1. IsFiniteSet(R) /\ Cardinality(R) = Cardinality(T) - 1
      BY FS_RemoveElement
    <3>2. QED
      BY <2>1, <3>1
  <2>4. R \in SUBSET DOMAIN log
    OBVIOUS
  <2>5. PICK r : InOrder(log, r, R)
    BY <2>3, <2>4
  <2>6. /\ r \in [1 .. n -> R] /\ \A y \in R : \E i \in 1 .. n : y = r[i]
        /\ \A i, j \in 1 .. n : i < j => Before(log, r[i], r[j])
    BY <2>3, <2>5 DEF InOrder, ToSet
  <2> DEFINE q == [i \in 1 .. n + 1 |-> IF i = n + 1 THEN x ELSE r[i]]
  <2>7. /\ \A i \in 1 .. n + 1 : i # n + 1 => i \in 1 .. n
        /\ \A i \in 1 .. n : i \in 1 .. n + 1 /\ i # n + 1
        /\ n + 1 \in 1 .. n + 1
    BY <2>1
  <2>8. q \in [1 .. n + 1 -> T]
    BY <2>6, <2>7
  <2>9. DOMAIN q = 1 .. n + 1 /\ q[n + 1] = x /\ \A i \in 1 .. n : q[i] = r[i]
    BY <2>7
  <2> HIDE DEF q
  <2>10. ToSet(q) = T
    <3>1. \A y : y \in ToSet(q) <=> \E i \in 1 .. n + 1 : y = q[i]
      BY <2>9 DEF ToSet
    <3>2. ASSUME NEW y \in T  PROVE y \in ToSet(q)
      <4>1. CASE y = x
        BY <2>7, <2>9, <3>1, <4>1
      <4>2. CASE y # x
        BY <2>6, <2>7, <2>9, <3>1, <4>2
      <4>3. QED
        BY <4>1, <4>2
    <3>3. ASSUME NEW y \in ToSet(q)  PROVE y \in T
      BY <2>8, <3>1
    <3>4. QED
      BY <3>2, <3>3
  <2>11. ASSUME NEW i \in 1 .. n + 1, NEW j \in 1 .. n + 1, i < j
         PROVE  Before(log, q[i], q[j])
    <3>1. i \in 1 .. n /\ q[i] = r[i] /\ r[i] \in R
      <4>1. i \in 1 .. n
        BY <2>1, <2>11
      <4>2. QED
        BY <2>6, <2>9, <4>1
    <3>2. CASE j = n + 1
      BY <2>2, <2>9, <3>1, <3>2
    <3>3. CASE j # n + 1
      BY <2>6, <2>7, <2>9, <2>11, <3>1, <3>3
    <3>4. QED
      BY <3>2, <3>3
  <2>12. QED
    BY <2>8, <2>9, <2>10, <2>11 DEF InOrder
<1> HIDE DEF P
<1>3. P = Nat
  <2>1. P \in SUBSET Nat
    BY DEF P
  <2>2. QED
    BY <1>1, <1>2, <2>1, NatInductionSet
<1>4. Cardinality(S) \in P
  BY <1>3, FS_CardinalityType
<1>5. QED
  BY <1>4 DEF P

\* Recovery replays the records of the log whose ids are not covered, and only those.
LEMMA ReplayedOK ==
  ASSUME NEW log \in Seq(Version), NEW F \in SUBSET Nat, F # {}
  PROVE  /\ Replayed(log, F) \in Seq(Version)
         /\ \A n \in DOMAIN Replayed(log, F) : \E i \in DOMAIN log :
              Replayed(log, F)[n] = log[i]
         /\ \A i \in DOMAIN log : ~ Covered(log[i].id, F) =>
              \E n \in DOMAIN Replayed(log, F) : Replayed(log, F)[n] = log[i]
         /\ (\A i \in DOMAIN log : Covered(log[i].id, F)) => Replayed(log, F) = <<>>
<1> DEFINE todo == {i \in DOMAIN log : log[i].id > Min(F) /\ log[i].id \notin F}
           c == Cardinality(todo)
           order == CHOOSE s \in [1 .. c -> todo] :
             ToSet(s) = todo /\ \A m, n \in DOMAIN s : m < n => Before(log, s[m], s[n])
           res == [n \in DOMAIN order |-> log[order[n]]]
<1>1. Replayed(log, F) = res
  BY DEF Replayed, Before
<1>2. /\ Min(F) \in Nat /\ DOMAIN log = 1 .. Len(log) /\ Len(log) \in Nat
      /\ \A i \in DOMAIN log : log[i] \in Version /\ log[i].id \in Nat
  BY LogTyped, MinElement
<1>3. \A i \in DOMAIN log : i \in todo <=> ~ Covered(log[i].id, F)
  BY <1>2 DEF Covered
<1>4. todo \in SUBSET DOMAIN log /\ IsFiniteSet(todo)
  <2>1. IsFiniteSet(DOMAIN log)
    BY <1>2, FS_Interval
  <2>2. QED
    BY <2>1, FS_Subset
<1> HIDE DEF todo
<1>5. \E s \in [1 .. c -> todo] :
        ToSet(s) = todo /\ \A m, n \in DOMAIN s : m < n => Before(log, s[m], s[n])
  BY <1>4, OrderExists DEF InOrder
<1>6. order \in [1 .. c -> todo] /\ ToSet(order) = todo
  BY <1>5
<1>7. c \in Nat
  BY <1>4, FS_CardinalityType
<1>8. todo = {} => c = 0
  BY FS_EmptySet
<1> HIDE DEF order, c
<1>9. DOMAIN res = 1 .. c /\ \A n \in 1 .. c : order[n] \in todo /\ res[n] = log[order[n]]
  BY <1>6
<1>10. \A i \in todo : \E n \in 1 .. c : i = order[n]
  BY <1>6 DEF ToSet
<1>11. res \in Seq(Version)
  <2>1. res \in [1 .. c -> Version]
    BY <1>2, <1>4, <1>6
  <2>2. QED
    BY <1>7, <2>1
<1>12. todo = {} => res = <<>>
  <2> SUFFICES ASSUME todo = {}  PROVE res = <<>>
    OBVIOUS
  <2>1. c = 0 /\ DOMAIN res = 1 .. 0
    BY <1>8, <1>9
  <2> HIDE DEF res
  <2>2. Len(res) = 0
    BY <1>11, <2>1
  <2>3. QED
    BY <1>11, <2>2
<1> HIDE DEF res
<1>13. QED
  BY <1>1, <1>3, <1>4, <1>9, <1>10, <1>11, <1>12

-----------------------------------------------------------------------------
(* The slots of the memtable, and where the searches end.                  *)

\* The invariant of the store below.
StoreInv == DiskInv /\ Sized /\ cur_max_level \in Level /\ crashes \in Nat

LEMMA SlotsAre ==
  ASSUME DiskInv
  PROVE  /\ Len(frozen_tables) \in Nat /\ DOMAIN frozen_tables = 1 .. Len(frozen_tables)
         /\ 0 \in Slots /\ Len(frozen_tables) \in Slots /\ Slot(0) = current_table
         /\ \A i \in Slots : i \in Nat /\ i <= Len(frozen_tables) /\ Slot(i) \in Tables
         /\ \A i \in DOMAIN frozen_tables : i \in Slots /\ i # 0 /\ Slot(i) = frozen_tables[i]
         /\ \A v : v \in MemVersions <=> \E i \in Slots : v \in Slot(i)
<1> DEFINE n == Len(frozen_tables)
<1>1. /\ n \in Nat /\ DOMAIN frozen_tables = 1 .. n /\ current_table \in Tables
      /\ \A i \in 1 .. n : frozen_tables[i] \in Tables
  BY DEF DiskInv, MemTyped
<1>2. \A v : v \in MemVersions <=> v \in current_table \/ \E i \in 1 .. n : v \in frozen_tables[i]
  BY <1>1 DEF MemVersions
<1>3. Slots = 0 .. n
  BY DEF Slots
<1> HIDE DEF n
<1>4. /\ 0 \in Slots /\ n \in Slots /\ \A i \in Slots : i \in Nat /\ i <= n
      /\ \A i \in Slots : i = 0 \/ i \in 1 .. n
      /\ \A i \in 1 .. n : i \in Slots /\ i # 0
  BY <1>1, <1>3
<1>5. Slot(0) = current_table /\ \A i \in 1 .. n : Slot(i) = frozen_tables[i]
  BY <1>4 DEF Slot
<1>6. \A i \in Slots : Slot(i) \in Tables
  BY <1>1, <1>4, <1>5
<1>7. \A v : v \in MemVersions <=> \E i \in Slots : v \in Slot(i)
  BY <1>2, <1>4, <1>5
<1>8. QED
  BY <1>1, <1>4, <1>5, <1>6, <1>7 DEF n

LEMMA SlotsHold ==
  ASSUME DiskInv
  PROVE  \A v : v \in MemVersions <=> \E i \in Slots : v \in Slot(i)
BY SlotsAre

LEMMA SlotsHoldNext ==
  ASSUME DiskInv'
  PROVE  \A v : v \in MemVersions' <=> \E i \in Slots' : v \in Slot(i)'
<1>1. (\A v : v \in MemVersions <=> \E i \in Slots : v \in Slot(i))'
  BY SlotsHold, PTL
<1>2. QED
  BY <1>1

\* A search of places in order gives what it finds at one of them.
LEMMA FirstHitFrom ==
  ASSUME NEW r, NEW a \in Int, DOMAIN r \subseteq Int, \A i \in DOMAIN r : a <= i
  PROVE  \/ FirstHit(r) = {} /\ \A i \in DOMAIN r : r[i] = {}
         \/ \E i \in DOMAIN r : /\ FirstHit(r) = r[i] /\ r[i] # {}
                                /\ \A j \in DOMAIN r : j < i => r[j] = {}
<1>1. CASE \A i \in DOMAIN r : r[i] = {}
  BY <1>1, NoHit
<1>2. CASE \E i \in DOMAIN r : r[i] # {}
  <2>1. PICK i \in DOMAIN r : r[i] # {} /\ \A m \in DOMAIN r : m < i => r[m] = {}
    BY <1>2, SomeFirst
  <2>2. FirstHit(r) = r[i]
    BY <2>1, FirstHitIs
  <2>3. QED
    BY <2>1, <2>2
<1>3. QED
  BY <1>1, <1>2

\* MemTable::get gives what it finds in the first slot that has something.
LEMMA MemGetFrom ==
  ASSUME DiskInv, NEW k, NEW q
  PROVE  \/ MemGet(k, q) = {} /\ \A i \in Slots : TableGet(Slot(i), k, q) = {}
         \/ \E i \in Slots : /\ MemGet(k, q) = TableGet(Slot(i), k, q) /\ MemGet(k, q) # {}
                             /\ \A j \in Slots : j < i => TableGet(Slot(j), k, q) = {}
<1> DEFINE n == Len(frozen_tables)
           c == <<current_table>> \o frozen_tables
           r == [i \in 1 .. n + 1 |-> TableGet(c[i], k, q)]
<1>1. n \in Nat /\ frozen_tables \in Seq(Tables) /\ current_table \in Tables
  BY DEF DiskInv, MemTyped
<1>2. /\ \A i \in 1 .. n + 1 : c[i] = Slot(i - 1)
      /\ \A i \in 0 .. n : c[i + 1] = Slot(i)
  BY <1>1 DEF Slot
<1>3. MemGet(k, q) = FirstHit(r)
  BY DEF MemGet
<1>4. Slots = 0 .. n
  BY DEF Slots
<1> HIDE DEF n, c
<1>5. /\ \A i \in 1 .. n + 1 : i - 1 \in Slots
      /\ \A i \in Slots : i + 1 \in 1 .. n + 1 /\ i + 1 - 1 = i
  BY <1>1, <1>4
<1>6. /\ DOMAIN r = 1 .. n + 1 /\ \A i \in 1 .. n + 1 : r[i] = TableGet(Slot(i - 1), k, q)
      /\ \A i \in Slots : r[i + 1] = TableGet(Slot(i), k, q)
  BY <1>2, <1>4, <1>5
<1>7. 1 \in Int /\ DOMAIN r \subseteq Int /\ \A i \in DOMAIN r : 1 <= i
  BY <1>1, <1>6
<1> HIDE DEF r
<1>8. CASE FirstHit(r) = {} /\ \A i \in DOMAIN r : r[i] = {}
  BY <1>3, <1>5, <1>6, <1>8
<1>9. CASE \E i \in DOMAIN r : /\ FirstHit(r) = r[i] /\ r[i] # {}
                               /\ \A j \in DOMAIN r : j < i => r[j] = {}
  <2>1. PICK i \in DOMAIN r : /\ FirstHit(r) = r[i] /\ r[i] # {}
                              /\ \A j \in DOMAIN r : j < i => r[j] = {}
    BY <1>9
  <2>2. i - 1 \in Slots /\ MemGet(k, q) = TableGet(Slot(i - 1), k, q) /\ MemGet(k, q) # {}
    BY <1>3, <1>5, <1>6, <2>1
  <2>3. ASSUME NEW j \in Slots, j < i - 1  PROVE TableGet(Slot(j), k, q) = {}
    <3>1. j + 1 \in DOMAIN r /\ j + 1 < i
      BY <1>4, <1>5, <1>6, <1>7, <2>1, <2>3
    <3>2. r[j + 1] = TableGet(Slot(j), k, q)
      BY <1>6
    <3>3. QED
      BY <2>1, <3>1, <3>2
  <2>4. QED
    BY <2>2, <2>3
<1>10. QED
  BY <1>7, <1>8, <1>9, FirstHitFrom

\* A search of a level gives versions of the key from one of its SSTs.
LEMMA SstsGetFrom ==
  ASSUME StoreInv, NEW l \in Level, NEW k \in Keys, NEW q
  PROVE  SstsGet(l, k, q) \in Tables /\ SstsGet(l, k, q) \subseteq {v \in DiskVersions : v.key = k}
<1> DEFINE ssts == levels[l]
           g == SstsGet(l, k, q)
<1>1. ssts \in Seq(Sst) /\ Len(ssts) \in Nat /\ DOMAIN ssts = 1 .. Len(ssts)
  BY DEF StoreInv, DiskInv, DiskTyped
<1>2. \A i \in DOMAIN ssts : ssts[i].table \in Tables
  <2>1. \A i \in DOMAIN ssts : ssts[i] \in Sst
    BY <1>1
  <2>2. QED
    BY <2>1 DEF Sst
<1>3. {} \in Tables
  BY FS_EmptySet DEF Tables
<1>4. g = {} \/ \E i \in DOMAIN ssts : g = SstGet(ssts[i].table, k, q)
  <2>1. CASE l = 0
    <3> DEFINE r == [i \in DOMAIN ssts |-> SstGet(ssts[i].table, k, q)]
    <3>1. g = FirstHit(r)
      BY <2>1 DEF SstsGet, L0Get
    <3>2. DOMAIN r = DOMAIN ssts /\ \A i \in DOMAIN r : r[i] = SstGet(ssts[i].table, k, q)
      OBVIOUS
    <3> HIDE DEF r
    <3>3. 1 \in Int /\ DOMAIN r \subseteq Int /\ \A i \in DOMAIN r : 1 <= i
      BY <1>1, <3>2
    <3>4. FirstHit(r) = {} \/ \E i \in DOMAIN r : FirstHit(r) = r[i]
      BY <3>3, FirstHitFrom
    <3>5. QED
      BY <3>1, <3>2, <3>4
  <2>2. CASE l # 0
    <3> DEFINE i == BinarySearch(ssts, k)
    <3>1. i \in 0 .. Len(ssts)
      BY <1>1, BisectionFinds
    <3>2. g = IF i = 0 THEN {} ELSE SstGet(ssts[i].table, k, q)
      BY <2>2 DEF SstsGet, LevelGet
    <3> HIDE DEF i
    <3>3. QED
      BY <1>1, <3>1, <3>2
  <2>3. QED
    BY <2>1, <2>2
<1> HIDE DEF g
<1>5. CASE g = {}
  BY <1>3, <1>5 DEF g
<1>6. ASSUME NEW i \in DOMAIN ssts, g = SstGet(ssts[i].table, k, q)
      PROVE  g \in Tables /\ g \subseteq {v \in DiskVersions : v.key = k}
  <2>1. \A v \in g : v \in ssts[i].table /\ v.key = k
    BY <1>6 DEF SstGet, TableGet, VisibleTo
  <2>2. g \in Tables
    BY <1>2, <2>1, FS_Subset DEF Tables
  <2>3. \A v \in ssts[i].table : v \in DiskVersions
    BY DEF DiskVersions, LevelVersions
  <2>4. QED
    BY <2>1, <2>2, <2>3
<1>7. QED
  BY <1>4, <1>5, <1>6 DEF g

\* Whatever LSMEngine::get finds is in the store.
LEMMA FindFrom ==
  ASSUME StoreInv, NEW k \in Keys, NEW q
  PROVE  Find(k, q) \subseteq AllVersions
<1> DEFINE r == [l \in -1 .. cur_max_level |-> IF l = -1 THEN MemGet(k, q) ELSE SstsGet(l, k, q)]
<1>1. cur_max_level \in Level /\ Level = 0 .. MaxLevel /\ MaxLevel \in Nat /\ DiskInv
  BY BoundsAssumption DEF StoreInv, Level
<1>2. Find(k, q) = FirstHit(r)
  BY DEF Find
<1>3. \A l \in DOMAIN r : l \in Int /\ -1 <= l /\ (l # -1 => l \in Level)
  BY <1>1
<1>4. /\ \A l \in DOMAIN r : l # -1 => r[l] = SstsGet(l, k, q)
      /\ -1 \in DOMAIN r => r[-1] = MemGet(k, q)
  OBVIOUS
<1> HIDE DEF r
<1>5. MemGet(k, q) \subseteq MemVersions
  <2>1. \A t : TableGet(t, k, q) \subseteq t
    BY DEF TableGet, VisibleTo
  <2>2. QED
    BY <1>1, <2>1, MemGetFrom, SlotsAre
<1>6. \A l \in DOMAIN r : r[l] \subseteq AllVersions
  <2>1. ASSUME NEW l \in DOMAIN r, l # -1  PROVE r[l] \subseteq DiskVersions
    BY <1>3, <1>4, <2>1, SstsGetFrom
  <2>2. QED
    BY <1>4, <1>5, <2>1 DEF AllVersions
<1>7. FirstHit(r) = {} \/ \E l \in DOMAIN r : FirstHit(r) = r[l]
  <2>1. -1 \in Int /\ DOMAIN r \subseteq Int
    BY <1>3
  <2>2. QED
    BY <1>3, <2>1, FirstHitFrom
<1>8. QED
  BY <1>2, <1>6, <1>7

\* The value a read-uncommitted write notes is a version of its key: one of the memtable,
\* or one of an SST, whose id is then given as 0.
LEMMA EngineGetFrom ==
  ASSUME StoreInv, NEW k \in Keys
  PROVE  /\ EngineGet(k, 0) \in Tables
         /\ \A v \in EngineGet(k, 0) : v.key = k /\ (v.id = 0 \/ v \in MemVersions)
<1> DEFINE m == MemGet(k, 0)
           r == [l \in 0 .. cur_max_level |-> SstsGet(l, k, 0)]
           h == FirstHit(r)
<1>1. cur_max_level \in Level /\ Level = 0 .. MaxLevel /\ MaxLevel \in Nat /\ DiskInv
  BY BoundsAssumption DEF StoreInv, Level
<1>2. {} \in Tables
  BY FS_EmptySet DEF Tables
<1>3. m \in Tables /\ \A v \in m : v.key = k /\ v \in MemVersions
  <2>1. \A t : TableGet(t, k, 0) \subseteq t /\ \A v \in TableGet(t, k, 0) : v.key = k
    BY DEF TableGet, VisibleTo
  <2>2. m = {} \/ \E i \in Slots : m = TableGet(Slot(i), k, 0)
    BY <1>1, MemGetFrom
  <2> HIDE DEF m
  <2>3. CASE m = {}
    BY <1>2, <2>3
  <2>4. ASSUME NEW i \in Slots, m = TableGet(Slot(i), k, 0)
        PROVE  m \in Tables /\ \A v \in m : v.key = k /\ v \in MemVersions
    <3>1. Slot(i) \in Tables /\ Slot(i) \subseteq MemVersions
      BY <1>1, SlotsAre
    <3>2. m \subseteq Slot(i) /\ \A v \in m : v.key = k
      BY <2>1, <2>4
    <3>3. QED
      BY <3>1, <3>2, SubTable
  <2>5. QED
    BY <2>2, <2>3, <2>4
<1>4. h \in Tables /\ \A v \in h : v.key = k
  <2>1. DOMAIN r = 0 .. cur_max_level /\ \A l \in DOMAIN r : r[l] = SstsGet(l, k, 0) /\ l \in Level
    BY <1>1
  <2>2. 0 \in Int /\ DOMAIN r \subseteq Int /\ \A l \in DOMAIN r : 0 <= l
    BY <1>1, <2>1
  <2> HIDE DEF r
  <2>3. h = {} \/ \E l \in DOMAIN r : h = r[l]
    BY <2>2, FirstHitFrom
  <2>4. \A l \in DOMAIN r : r[l] \in Tables /\ \A v \in r[l] : v.key = k
    BY <2>1, SstsGetFrom
  <2> HIDE DEF h
  <2>5. QED
    BY <1>2, <2>3, <2>4
<1> DEFINE g == {w \in h : w.val # Tombstone}
           s == {[v EXCEPT !.id = 0] : v \in g}
<1>5. sst_get_(k, 0) = s
  BY DEF sst_get_
<1> HIDE DEF h
<1>6. s \in Tables /\ \A v \in s : v.key = k /\ v.id = 0
  <2>1. g \subseteq Version /\ IsFiniteSet(g) /\ \A v \in g : v.key = k
    BY <1>4, FS_Subset DEF Tables
  <2>2. \A v \in Version : [v EXCEPT !.id = 0] \in Version
    BY DEF Version
  <2>3. \A v \in Version : [v EXCEPT !.id = 0].key = v.key /\ [v EXCEPT !.id = 0].id = 0
    BY DEF Version
  <2> HIDE DEF g
  <2> DEFINE f == [v \in g |-> [v EXCEPT !.id = 0]]
  <2>4. f \in Surjection(g, s)
    BY DEF Surjection
  <2>5. IsFiniteSet(s)
    BY <2>1, <2>4, FS_Surjection
  <2>6. QED
    BY <2>1, <2>2, <2>3, <2>5 DEF Tables
<1> HIDE DEF s, m
<1>7. EngineGet(k, 0) = IF m # {} THEN {v \in m : v.val # Tombstone} ELSE s
  BY <1>5 DEF EngineGet, m
<1>8. {v \in m : v.val # Tombstone} \in Tables
  BY <1>3, SubTable
<1>9. QED
  BY <1>3, <1>6, <1>7, <1>8

-----------------------------------------------------------------------------
(* What the engine's steps do to the slots.                                *)

\* The writes B have gone to the current table, which has become slot s: 1 if it has
\* been frozen.
Shifted(s, B) ==
  /\ s \in {0, 1}
  /\ \A i \in Slots : /\ i + s \in Slots'
                      /\ \A v : Present(v, Slot(i)) => Present(v, Slot(i + s)')
  /\ \A v : Present(v, B) => Present(v, Slot(s)')
  /\ \A j \in Slots' :
       \/ Slot(j)' = {}
       \/ \E i \in Slots :
            /\ j = i + s
            /\ i # 0 => Slot(j)' = Slot(i)
            /\ i = 0 => /\ Slot(j)' \subseteq Slot(0) \cup B
                        /\ MarkerIds(Slot(j)') \subseteq MarkerIds(Slot(0)) \cup MarkerIds(B)

Wrote(B) == DiskVersions' = DiskVersions /\ \E s : Shifted(s, B)

\* The oldest slot has gone to an SST.
Dropped ==
  /\ FlushSource = Slot(Len(frozen_tables))
  /\ DiskVersions' = DiskVersions \cup FlushSource
  /\ \A i \in Slots : i < Len(frozen_tables) => i \in Slots' /\ Slot(i)' = Slot(i)
  /\ \A j \in Slots' : \/ Slot(j)' = {}
                       \/ j \in Slots /\ j < Len(frozen_tables) /\ Slot(j)' = Slot(j)

\* The memtable is empty and the SSTs have what they had.
Emptied == DiskVersions' = DiskVersions /\ \A j \in Slots' : Slot(j)' = {}

LEMMA PutKeeps ==
  ASSUME NEW t, NEW B
  PROVE  /\ \A v : Present(v, t) => Present(v, TablePut(t, B))
         /\ \A v : Present(v, B) => Present(v, TablePut(t, B))
         /\ TablePut(t, B) \subseteq t \cup B
         /\ MarkerIds(TablePut(t, B)) = MarkerIds(t) \cup MarkerIds(B)
         /\ TablePut(t, {}) = t
<1>1. \A v : v \in TablePut(t, B)
               <=> v \in B \/ (v \in t /\ \A w \in B : w.key # v.key \/ w.id # v.id)
  BY DEF TablePut
<1>2. \A S, n : n \in MarkerIds(S) <=> \E w \in S : w.key = Marker /\ w.id = n
  BY DEF MarkerIds
<1>3. \A v : Present(v, t) => Present(v, TablePut(t, B))
  <2> SUFFICES ASSUME NEW v, NEW w \in t, w.key = v.key, w.id = v.id
               PROVE  Present(v, TablePut(t, B))
    BY DEF Present
  <2>1. CASE w \in TablePut(t, B)
    BY <2>1 DEF Present
  <2>2. CASE w \notin TablePut(t, B)
    BY <1>1, <2>2 DEF Present
  <2>3. QED
    BY <2>1, <2>2
<1>4. \A v : Present(v, B) => Present(v, TablePut(t, B))
  BY <1>1 DEF Present
<1>5. MarkerIds(TablePut(t, B)) \subseteq MarkerIds(t) \cup MarkerIds(B)
  BY <1>1, <1>2
<1>6. ASSUME NEW n \in MarkerIds(t) \cup MarkerIds(B)
      PROVE  n \in MarkerIds(TablePut(t, B))
  <2>1. PICK w \in t \cup B : w.key = Marker /\ w.id = n
    BY <1>2
  <2>2. Present(w, t) \/ Present(w, B)
    BY DEF Present
  <2>3. Present(w, TablePut(t, B))
    BY <1>3, <1>4, <2>2
  <2>4. QED
    BY <1>2, <2>1, <2>3 DEF Present
<1>7. TablePut(t, B) \subseteq t \cup B
  BY <1>1
<1>8. TablePut(t, {}) = t
  BY DEF TablePut
<1>9. QED
  BY <1>3, <1>4, <1>5, <1>6, <1>7, <1>8

\* A write that leaves the table as the current one.
LEMMA PutShift ==
  ASSUME DiskInv, NEW B, current_table' = TablePut(current_table, B), UNCHANGED frozen_tables
  PROVE  Shifted(0, B)
<1>1. Slots' = Slots /\ \A i \in Slots : i \in Nat /\ i + 0 = i
  BY SlotsAre DEF Slots
<1>2. Slot(0)' = TablePut(Slot(0), B) /\ \A i \in Slots \ {0} : Slot(i)' = Slot(i)
  BY DEF Slot
<1>3. 0 \in Slots
  BY SlotsAre
<1>4. ASSUME NEW i \in Slots, NEW v, Present(v, Slot(i))
      PROVE  Present(v, Slot(i)')
  <2>1. CASE i = 0
    BY <1>2, <1>4, <2>1, PutKeeps
  <2>2. CASE i # 0
    BY <1>2, <1>4, <2>2
  <2>3. QED
    BY <2>1, <2>2
<1>5. ASSUME NEW i \in Slots  PROVE i + 0 \in Slots' /\ Slot(i + 0)' = Slot(i)'
  BY <1>1
<1>6. \A v : Present(v, B) => Present(v, Slot(0)')
  BY <1>2, PutKeeps
<1>7. /\ Slot(0)' \subseteq Slot(0) \cup B
      /\ MarkerIds(Slot(0)') \subseteq MarkerIds(Slot(0)) \cup MarkerIds(B)
  BY <1>2, PutKeeps
<1>8. QED
  BY <1>1, <1>2, <1>3, <1>4, <1>5, <1>6, <1>7 DEF Shifted

\* A write after which the table is frozen.
LEMMA FreezeShift ==
  ASSUME DiskInv, NEW B, current_table' = {},
         frozen_tables' = <<TablePut(current_table, B)>> \o frozen_tables
  PROVE  Shifted(1, B)
<1> DEFINE n == Len(frozen_tables)
           t == TablePut(current_table, B)
<1>1. n \in Nat /\ frozen_tables \in Seq(Tables) /\ Slots = 0 .. n
  BY DEF DiskInv, MemTyped, Slots
<1>2. /\ Len(frozen_tables') = n + 1 /\ frozen_tables'[1] = t
      /\ \A i \in 1 .. n : frozen_tables'[i + 1] = frozen_tables[i]
  <2> HIDE DEF t
  <2>1. frozen_tables' = <<t>> \o frozen_tables
    BY DEF t
  <2>2. QED
    BY <1>1, <2>1
<1>3. Slots' = 0 .. n + 1
  BY <1>2 DEF Slots
<1> HIDE DEF n
<1>4. /\ \A i \in Slots : i + 1 \in Slots' /\ i + 1 # 0 /\ (i # 0 => i \in 1 .. n)
      /\ \A j \in Slots' : j = 0 \/ \E i \in Slots : j = i + 1
  <2>1. \A j \in Slots' : j # 0 => j - 1 \in Slots /\ j = j - 1 + 1
    BY <1>1, <1>3
  <2>2. QED
    BY <1>1, <1>3, <2>1
<1>5. /\ Slot(0)' = {} /\ Slot(1)' = t /\ Slot(0) = current_table
      /\ \A i \in Slots \ {0} : Slot(i + 1)' = Slot(i)
  <2>1. Slot(0)' = {} /\ Slot(1)' = frozen_tables'[1] /\ Slot(0) = current_table
    BY DEF Slot
  <2>2. ASSUME NEW i \in Slots \ {0}  PROVE Slot(i + 1)' = Slot(i)
    <3>1. i \in 1 .. n /\ i + 1 # 0
      BY <1>4
    <3>2. Slot(i + 1)' = frozen_tables'[i + 1] /\ Slot(i) = frozen_tables[i]
      BY <3>1 DEF Slot
    <3>3. QED
      BY <1>2, <3>1, <3>2
  <2>3. QED
    BY <1>2, <2>1, <2>2
<1>6. ASSUME NEW i \in Slots, NEW v, Present(v, Slot(i))
      PROVE  Present(v, Slot(i + 1)')
  <2>1. CASE i = 0
    <3>1. i + 1 = 1
      BY <2>1
    <3>2. Present(v, t)
      BY <1>5, <1>6, <2>1, PutKeeps
    <3>3. QED
      BY <1>5, <3>1, <3>2
  <2>2. CASE i # 0
    BY <1>5, <1>6, <2>2
  <2>3. QED
    BY <2>1, <2>2
<1>7. \A v : Present(v, B) => Present(v, Slot(1)')
  BY <1>5, PutKeeps
<1>8. /\ Slot(1)' \subseteq Slot(0) \cup B
      /\ MarkerIds(Slot(1)') \subseteq MarkerIds(Slot(0)) \cup MarkerIds(B)
  BY <1>5, PutKeeps
<1> HIDE DEF t
<1>9. ASSUME NEW i \in Slots, NEW j \in Slots', j = i + 1
      PROVE  /\ i # 0 => Slot(j)' = Slot(i)
             /\ i = 0 => /\ Slot(j)' \subseteq Slot(0) \cup B
                         /\ MarkerIds(Slot(j)') \subseteq MarkerIds(Slot(0)) \cup MarkerIds(B)
  <2>1. i = 0 => j = 1
    BY <1>9
  <2>2. QED
    BY <1>5, <1>8, <1>9, <2>1
<1>10. QED
  BY <1>4, <1>5, <1>6, <1>7, <1>9 DEF Shifted

\* A step that leaves the store as it is, or begins a flush.
LEMMA StoreQuiet ==
  ASSUME StoreInv, UNCHANGED <<current_table, frozen_tables, frozen_bytes, levels,
                               cur_max_level, next_sst_id, crashes>>,
         next_tranc_id' \in Nat, tranc_id_file' \in Nat,
         job' = job \/ (HasRoom /\ job' = FlushEntry)
  PROVE  StoreInv' /\ Wrote({})
<1>1. DiskInv /\ job \in Job /\ MergeOK(job, levels, next_sst_id) /\ CompactSafe(job, levels)
  BY DEF StoreInv, DiskInv, DiskTyped
<1>2. job' \in Job /\ MergeOK(job', levels, next_sst_id) /\ CompactSafe(job', levels)
  BY <1>1, FlushBegins
<1>3. MemTyped'
  BY <1>1 DEF DiskInv, MemTyped
<1>4. DiskInv' /\ DiskKept
  BY <1>1, <1>2, <1>3, LevelsKept
<1>5. Sized'
  BY DEF StoreInv, Sized, SizesAddUp
<1>6. current_table' = TablePut(current_table, {})
  BY PutKeeps
<1>7. Shifted(0, {})
  BY <1>1, <1>6, PutShift
<1>8. QED
  BY <1>4, <1>5, <1>7 DEF StoreInv, Wrote, DiskKept

\* Writes to the engine.
LEMMA StoreWrite ==
  ASSUME StoreInv, NEW B \in Tables, EngineWrite(B), next_tranc_id' \in Nat,
         UNCHANGED <<tranc_id_file, crashes>>
  PROVE  StoreInv' /\ Wrote(B)
<1> DEFINE t == TablePut(current_table, B)
<1>1. DiskInv /\ Sized /\ current_table \in Tables
  BY DEF StoreInv, DiskInv, MemTyped
<1>2. DiskInv' /\ DiskKept
  BY <1>1, WriteSafe
<1>3. UNCHANGED <<cur_max_level, crashes>>
  BY DEF EngineWrite, sstVars
<1>4. t \in Tables
  BY <1>1, TablePutIsTable
<1>5. CASE /\ current_table' = {} /\ frozen_tables' = <<t>> \o frozen_tables
           /\ frozen_bytes' = frozen_bytes + Cardinality(t)
  <2>1. Sized'
    BY <1>1, <1>4, <1>5, FreezeSizes
  <2>2. Shifted(1, B)
    BY <1>1, <1>5, FreezeShift
  <2>3. QED
    BY <1>2, <1>3, <2>1, <2>2 DEF StoreInv, Wrote, DiskKept
<1>6. CASE current_table' = t /\ UNCHANGED <<frozen_tables, frozen_bytes>>
  <2>1. Sized'
    BY <1>1, <1>6 DEF Sized, SizesAddUp
  <2>2. Shifted(0, B)
    BY <1>1, <1>6, PutShift
  <2>3. QED
    BY <1>2, <1>3, <2>1, <2>2 DEF StoreInv, Wrote, DiskKept
<1>7. QED
  BY <1>5, <1>6 DEF EngineWrite, MemInsert

\* The writes of a commit, after which nothing is frozen.
LEMMA StorePut ==
  ASSUME StoreInv, NEW B \in Tables, current_table' = TablePut(current_table, B),
         UNCHANGED <<frozen_tables, frozen_bytes, levels, cur_max_level, next_sst_id,
                     next_tranc_id, job, tranc_id_file, crashes>>
  PROVE  StoreInv' /\ Wrote(B)
<1>1. /\ DiskInv /\ Sized /\ current_table \in Tables /\ tranc_id_file \in Nat
      /\ job \in Job /\ MergeOK(job, levels, next_sst_id) /\ CompactSafe(job, levels)
  BY DEF StoreInv, DiskInv, DiskTyped, MemTyped
<1>2. MemTyped'
  BY <1>1, TablePutIsTable DEF DiskInv, MemTyped
<1>3. DiskInv' /\ DiskKept
  BY <1>1, <1>2, LevelsKept
<1>4. Sized'
  BY <1>1 DEF Sized, SizesAddUp
<1>5. Shifted(0, B)
  BY <1>1, PutShift
<1>6. QED
  BY <1>3, <1>4, <1>5 DEF StoreInv, Wrote, DiskKept

\* The steps of a compaction.
LEMMA StoreCompact ==
  ASSUME StoreInv, CompactBuild \/ CompactDelete \/ CompactInstall,
         UNCHANGED <<tranc_id_file, crashes>>
  PROVE  StoreInv' /\ Wrote({}) /\ UNCHANGED <<next_tranc_id, mode>>
<1>1. DiskInv /\ cur_max_level \in Level
  BY DEF StoreInv
<1>2. DiskInv' /\ DiskKept
  BY <1>1, BuildSafe, DeleteSafe, InstallSafe
<1>3. UNCHANGED <<current_table, frozen_tables, frozen_bytes, next_tranc_id, mode>>
  BY DEF CompactBuild, CompactDelete, CompactInstall, memVars
<1>4. Sized'
  BY <1>3 DEF StoreInv, Sized, SizesAddUp
<1>5. cur_max_level' \in Level
  <2>1. CASE CompactInstall
    <3>1. /\ cur_max_level' = Max({cur_max_level, job.level + 1}) /\ job.phase = "delete"
      BY <2>1 DEF CompactInstall
    <3>2. job.level \in Level /\ job.level < MaxLevel
      BY <1>1, <3>1 DEF DiskInv, DiskTyped, Job, MergeOK
    <3>3. MaxLevel \in Nat /\ Level = 0 .. MaxLevel
      BY BoundsAssumption DEF Level
    <3> DEFINE a == cur_max_level
               b == job.level + 1
    <3>4. a \in Level /\ b \in Level /\ a \in Nat /\ b \in Nat
      BY <1>1, <3>2, <3>3
    <3> HIDE DEF a, b
    <3>5. \E x \in {a, b} : \A y \in {a, b} : x >= y
      BY <3>4
    <3>6. Max({a, b}) \in {a, b}
      BY <3>5 DEF Max
    <3>7. QED
      BY <3>1, <3>4, <3>6 DEF a, b
  <2>2. CASE CompactBuild \/ CompactDelete
    BY <1>1, <2>2 DEF CompactBuild, CompactDelete, sstVars
  <2>3. QED
    BY <2>1, <2>2
<1>6. current_table' = TablePut(current_table, {})
  BY <1>3, PutKeeps
<1>7. Shifted(0, {})
  BY <1>1, <1>3, <1>6, PutShift
<1>8. QED
  BY <1>2, <1>3, <1>4, <1>5, <1>7 DEF StoreInv, Wrote, DiskKept

\* The flush of the oldest slot.
LEMMA StoreFlush ==
  ASSUME StoreInv, FlushLast, UNCHANGED <<tranc_id_file, crashes>>
  PROVE  StoreInv' /\ Dropped /\ UNCHANGED <<next_tranc_id, mode>>
<1> DEFINE n == Len(frozen_tables)
<1>1. DiskInv /\ Sized /\ cur_max_level \in Level
  BY DEF StoreInv
<1>2. DiskInv' /\ DiskVersions' = DiskVersions \cup FlushSource
  BY <1>1, FlushSafe
<1>3. UNCHANGED <<cur_max_level, next_tranc_id, mode>>
  BY DEF FlushLast
<1>4. n \in Nat /\ frozen_tables \in Seq(Tables) /\ Slots = 0 .. n
  BY <1>1 DEF DiskInv, MemTyped, Slots
<1>5. CASE frozen_tables = <<>>
  <2>1. current_table' = {} /\ UNCHANGED <<frozen_tables, frozen_bytes>>
    BY <1>5 DEF FlushLast
  <2>2. n = 0 /\ Slots' = Slots /\ Slots = {0}
    BY <1>4, <1>5, <2>1 DEF Slots
  <2>3. FlushSource = current_table /\ Slot(0) = current_table /\ Slot(0)' = {}
    BY <1>5, <2>1 DEF FlushSource, Slot
  <2>4. Dropped
    BY <1>2, <2>2, <2>3 DEF Dropped
  <2>5. Sized'
    BY <1>1, <2>1 DEF Sized, SizesAddUp
  <2>6. QED
    BY <1>2, <1>3, <2>4, <2>5, <1>1 DEF StoreInv
<1>6. CASE frozen_tables # <<>>
  <2>1. /\ frozen_tables' = Front(frozen_tables) /\ current_table' = current_table
        /\ frozen_bytes' = frozen_bytes - Cardinality(Last(frozen_tables))
    BY <1>6 DEF FlushLast, FlushSource
  <2>2. Sized'
    BY <1>1, <1>6, <2>1, DropSizes
  <2>3. /\ n > 0 /\ Len(frozen_tables') = n - 1
        /\ \A i \in 1 .. n - 1 : frozen_tables'[i] = frozen_tables[i]
    <3>1. n # 0
      BY <1>4, <1>6
    <3>2. frozen_tables' = SubSeq(frozen_tables, 1, n - 1)
      BY <2>1 DEF Front
    <3>3. n > 0 /\ n - 1 \in Nat /\ n - 1 <= n
      BY <1>4, <3>1
    <3>4. Len(frozen_tables') = n - 1
      <4>1. DOMAIN frozen_tables' = 1 .. n - 1 /\ frozen_tables' \in Seq(Tables)
        BY <1>4, <3>2, <3>3
      <4> HIDE DEF n
      <4>2. QED
        BY <3>3, <4>1
    <3>5. \A i \in 1 .. n - 1 : frozen_tables'[i] = frozen_tables[i]
      BY <1>4, <3>2, <3>3
    <3>6. QED
      BY <3>3, <3>4, <3>5
  <2>4. FlushSource = frozen_tables[n]
    BY <1>6 DEF FlushSource, Last
  <2>5. Slots' = 0 .. n - 1
    BY <2>3 DEF Slots
  <2>6. FlushSource = Slot(n)
    BY <1>4, <2>3, <2>4 DEF Slot
  <2>7. ASSUME NEW i \in 0 .. n - 1  PROVE Slot(i)' = Slot(i)
    <3> HIDE DEF n
    <3>1. i = 0 \/ i \in 1 .. n - 1
      BY <1>4, <2>3
    <3>2. QED
      BY <2>1, <2>3, <3>1 DEF Slot
  <2> HIDE DEF n
  <2>8. /\ \A i \in Slots : i < n => i \in Slots' /\ Slot(i)' = Slot(i)
        /\ \A j \in Slots' : j \in Slots /\ j < n /\ Slot(j)' = Slot(j)
    BY <1>4, <2>3, <2>5, <2>7
  <2>9. Dropped
    BY <1>2, <2>6, <2>8 DEF Dropped, n
  <2>10. QED
    BY <1>1, <1>2, <1>3, <2>2, <2>9 DEF StoreInv
<1>7. QED
  BY <1>5, <1>6

\* Opening the directory.
LEMMA StoreLoad ==
  ASSUME StoreInv, Load([l \in Level |-> FilesAt(l)]), next_tranc_id' \in Nat,
         tranc_id_file' \in Nat, crashes' \in Nat
  PROVE  StoreInv' /\ Emptied /\ mode' = "open"
<1>1. DiskInv
  BY DEF StoreInv
<1>2. DiskInv' /\ DiskKept
  BY <1>1, LoadSafe
<1> DEFINE S == {l \in Level : [m \in Level |-> FilesAt(m)][l] # {}}
<1>3. /\ cur_max_level' = Max({0} \cup S) /\ current_table' = {} /\ frozen_tables' = <<>>
      /\ frozen_bytes' = 0 /\ mode' = "open"
  BY DEF Load
<1>4. cur_max_level' \in Level
  <2>1. Level = 0 .. MaxLevel /\ MaxLevel \in Nat /\ S \subseteq Level
    BY BoundsAssumption DEF Level
  <2>2. S \in SUBSET Nat /\ \A x \in S : x <= MaxLevel
    BY <2>1
  <2> HIDE DEF S
  <2>3. Max(S \cup {0}) \in S \cup {0}
    BY <2>1, <2>2, MaxWithZero
  <2>4. {0} \cup S = S \cup {0} /\ 0 \in Level
    BY <2>1
  <2>5. QED
    BY <1>3, <2>1, <2>3, <2>4
<1>5. Sized'
  BY <1>3, EmptySizes
<1>6. \A j \in Slots' : Slot(j)' = {}
  <2>1. Len(frozen_tables') = 0
    BY <1>3
  <2>2. \A j \in Slots' : j = 0
    BY <2>1 DEF Slots
  <2>3. QED
    BY <1>3, <2>2 DEF Slot
<1>7. QED
  BY <1>2, <1>3, <1>4, <1>5, <1>6 DEF StoreInv, Emptied, DiskKept

-----------------------------------------------------------------------------
(* The parts of the invariant, when the store grows by the writes B.       *)

TInv == /\ StoreInv /\ TranTypeOK /\ Manager /\ Contexts /\ LogOK
        /\ Durable /\ Fresh /\ Whole

\* What a write does to the store as a whole.
LEMMA WroteOK ==
  ASSUME DiskInv, DiskInv', NEW B, Wrote(B)
  PROVE  /\ \A v \in AllVersions' : v \in AllVersions \/ v \in B
         /\ \A v : Present(v, AllVersions) \/ Present(v, B) => Present(v, AllVersions')
         /\ \A j \in Slots' : \A t \in MarkerIds(Slot(j)') :
              t \in MarkerIds(B) \/ \E i \in Slots : t \in MarkerIds(Slot(i))
         /\ \A t : Marked(t) \/ t \in MarkerIds(B) => Marked(t)'
<1>1. DiskVersions' = DiskVersions /\ \E s : Shifted(s, B)
  BY DEF Wrote
<1>2. PICK s : Shifted(s, B)
  BY <1>1
<1>3. 0 \in Slots /\ \A v : v \in MemVersions <=> \E i \in Slots : v \in Slot(i)
  BY SlotsAre
<1>4. \A v : v \in MemVersions' <=> \E i \in Slots' : v \in Slot(i)'
  BY SlotsHoldNext
<1>5. s \in {0, 1} /\ 0 + s = s /\ s \in Slots'
  <2>1. s \in {0, 1} /\ 0 + s \in Slots'
    BY <1>2, <1>3 DEF Shifted
  <2>2. 0 + s = s
    BY <2>1
  <2>3. QED
    BY <2>1, <2>2
<1>6. \A j \in Slots' : \A v \in Slot(j)' : v \in B \/ \E i \in Slots : v \in Slot(i)
  BY <1>2, <1>3 DEF Shifted
<1>7. \A v \in AllVersions' : v \in AllVersions \/ v \in B
  BY <1>1, <1>3, <1>4, <1>6 DEF AllVersions
<1>8. ASSUME NEW v, Present(v, AllVersions) \/ Present(v, B)
      PROVE  Present(v, AllVersions')
  <2>1. \A S, T : S \subseteq T => (Present(v, S) => Present(v, T))
    BY DEF Present
  <2>2. DiskVersions' \subseteq AllVersions' /\ \A j \in Slots' : Slot(j)' \subseteq AllVersions'
    BY <1>4 DEF AllVersions
  <2>3. CASE Present(v, DiskVersions)
    BY <1>1, <2>1, <2>2, <2>3
  <2>4. CASE Present(v, B)
    <3>1. Present(v, Slot(s)')
      BY <1>2, <2>4 DEF Shifted
    <3>2. QED
      BY <1>5, <2>1, <2>2, <3>1
  <2>5. ASSUME NEW i \in Slots, Present(v, Slot(i))  PROVE Present(v, AllVersions')
    <3>1. i + s \in Slots' /\ Present(v, Slot(i + s)')
      BY <1>2, <2>5 DEF Shifted
    <3>2. QED
      BY <2>1, <2>2, <3>1
  <2>6. Present(v, DiskVersions) \/ Present(v, B) \/ \E i \in Slots : Present(v, Slot(i))
    BY <1>3, <1>8 DEF Present, AllVersions
  <2>7. QED
    BY <2>3, <2>4, <2>5, <2>6
<1>9. \A t : MarkerIds({}) = {}
  BY DEF MarkerIds
<1>10. \A j \in Slots' : \A t \in MarkerIds(Slot(j)') :
         t \in MarkerIds(B) \/ \E i \in Slots : t \in MarkerIds(Slot(i))
  BY <1>2, <1>3, <1>9 DEF Shifted
<1>11. \A S, t : t \in MarkerIds(S) <=> Present(CommitMarker(t), S)
  BY DEF MarkerIds, Present, CommitMarker
<1>12. ASSUME NEW t, Marked(t) \/ t \in MarkerIds(B)  PROVE Marked(t)'
  <2>1. CASE t \in MarkerIds(B)
    <3>1. t \in MarkerIds(Slot(s)')
      BY <1>2, <1>11, <2>1 DEF Shifted
    <3>2. QED
      BY <1>5, <3>1 DEF Marked
  <2>2. ASSUME NEW i \in Slots, t \in MarkerIds(Slot(i))  PROVE Marked(t)'
    <3>1. i + s \in Slots' /\ t \in MarkerIds(Slot(i + s)')
      BY <1>2, <1>11, <2>2 DEF Shifted
    <3>2. QED
      BY <3>1 DEF Marked
  <2>3. QED
    BY <1>12, <2>1, <2>2 DEF Marked
<1>13. QED
  BY <1>7, <1>8, <1>10, <1>12

\* The manager only learns of more finished transactions.
ReadyGrows == \A n \in DOMAIN ready : n \in DOMAIN ready' /\ ready'[n] = ready[n]

\* A write puts nothing with a marker behind anything that was there.
LEMMA NotAheadOn ==
  ASSUME DiskInv, NEW B, NEW s, Shifted(s, B), ReadyGrows, NEW n, NEW i \in Slots, NotAhead(n, i)
  PROVE  NotAhead(n, i + s)'
<1> SUFFICES ASSUME NEW j \in Slots', j > i + s
             PROVE  \/ MarkerIds(Slot(j)') = {}
                    \/ /\ n \notin MarkerIds(Slot(j)') /\ n \in DOMAIN ready'
                       /\ ready'[n] = "OP_COMMITTED"
  BY DEF NotAhead
<1>1. CASE Slot(j)' = {}
  BY <1>1 DEF MarkerIds
<1>2. CASE Slot(j)' # {}
  <2>1. PICK m \in Slots : j = m + s /\ (m # 0 => Slot(j)' = Slot(m))
    BY <1>2 DEF Shifted
  <2>2. m > i /\ m # 0
    <3>1. m \in Nat /\ i \in Nat /\ s \in {0, 1}
      BY SlotsAre DEF Shifted
    <3>2. QED
      BY <2>1, <3>1
  <2>3. \/ MarkerIds(Slot(m)) = {}
        \/ n \notin MarkerIds(Slot(m)) /\ n \in DOMAIN ready /\ ready[n] = "OP_COMMITTED"
    BY <2>2 DEF NotAhead
  <2>4. QED
    BY <2>1, <2>2, <2>3 DEF ReadyGrows
<1>3. QED
  BY <1>1, <1>2

\* A committed write is kept by a write.
LEMMA KeptOn ==
  ASSUME DiskInv, NEW B, Wrote(B), ReadyGrows, NEW v, Kept(v),
         UNCHANGED <<tranc_id_file, flushed, crashes, opening>>,
         Logged(v, wal) => Logged(v, wal'),
         opening /\ Logged(v, replay) =>
           Logged(v, replay') \/ \E i \in Slots' : Present(v, Slot(i)') /\ NotAhead(v.id, i)'
  PROVE  Kept(v)'
<1>1. CASE Present(v, DiskVersions)
  BY <1>1 DEF Wrote, Kept
<1>2. CASE ~ Present(v, DiskVersions)
  <2>1. /\ tranc_id_file' <= v.id /\ ~ Covered(v.id, flushed')
        /\ crashes' = 0 => ~ opening' /\ Logged(v, wal')
    BY <1>2 DEF Kept
  <2>2. CASE opening /\ Logged(v, replay)
    BY <2>1, <2>2 DEF Kept
  <2>3. ASSUME NEW i \in Slots, Present(v, Slot(i)), NotAhead(v.id, i)  PROVE Kept(v)'
    <3>1. PICK s : Shifted(s, B)
      BY DEF Wrote
    <3>2. i + s \in Slots' /\ Present(v, Slot(i + s)')
      BY <2>3, <3>1 DEF Shifted
    <3>3. NotAhead(v.id, i + s)'
      BY <2>3, <3>1, NotAheadOn
    <3>4. QED
      BY <2>1, <3>2, <3>3 DEF Kept
  <2>4. QED
    BY <1>2, <2>2, <2>3 DEF Kept
<1>3. QED
  BY <1>1, <1>2

\* A write does not tear other writes apart.
LEMMA UntornOn ==
  ASSUME DiskInv, NEW B, Wrote(B), NEW W, Untorn(W)
  PROVE  Untorn(W)'
<1>1. DiskVersions' = DiskVersions
  BY DEF Wrote
<1>2. CASE \A v \in W : Present(v, DiskVersions)
  BY <1>1, <1>2 DEF Untorn
<1>3. ASSUME \A v \in W : ~ Present(v, DiskVersions),
             NEW i \in Slots, \A v \in W : Present(v, Slot(i)),
             \A j \in Slots : j > i => \A v \in W : ~ Present(v, Slot(j))
      PROVE  Untorn(W)'
  <2>1. PICK s : Shifted(s, B)
    BY DEF Wrote
  <2>2. i + s \in Slots' /\ \A v \in W : Present(v, Slot(i + s)')
    BY <1>3, <2>1 DEF Shifted
  <2>3. ASSUME NEW j \in Slots', j > i + s, NEW v \in W  PROVE ~ Present(v, Slot(j)')
    <3>1. CASE Slot(j)' = {}
      BY <3>1 DEF Present
    <3>2. CASE Slot(j)' # {}
      <4>1. PICK m \in Slots : j = m + s /\ (m # 0 => Slot(j)' = Slot(m))
        BY <2>1, <3>2 DEF Shifted
      <4>2. m > i /\ m # 0
        <5>1. m \in Nat /\ i \in Nat /\ s \in {0, 1}
          BY <2>1, SlotsAre DEF Shifted
        <5>2. QED
          BY <2>3, <4>1, <5>1
      <4>3. QED
        BY <1>3, <4>1, <4>2
    <3>3. QED
      BY <3>1, <3>2
  <2>4. QED
    BY <1>1, <1>3, <2>2, <2>3 DEF Untorn
<1>4. QED
  BY <1>2, <1>3 DEF Untorn

\* The store has grown by B, the rest of the manager's state stays.
Grown(B) ==
  /\ StoreInv' /\ Wrote(B) /\ ReadyGrows
  /\ UNCHANGED <<tranc_id_file, crashes, flushed, flushed_file, opening>>
  /\ next_tranc_id' \in Nat /\ next_tranc_id <= next_tranc_id'

LEMMA GrownOK ==
  ASSUME TInv, NEW B, Grown(B)
  PROVE  /\ \A v \in AllVersions' : v \in AllVersions \/ v \in B
         /\ \A v : Present(v, AllVersions) \/ Present(v, B) => Present(v, AllVersions')
         /\ \A j \in Slots' : \A t \in MarkerIds(Slot(j)') :
              t \in MarkerIds(B) \/ \E i \in Slots : t \in MarkerIds(Slot(i))
         /\ \A t : Marked(t) \/ t \in MarkerIds(B) => Marked(t)'
<1>1. DiskInv /\ DiskInv' /\ Wrote(B)
  BY DEF TInv, StoreInv, Grown
<1>2. QED
  BY <1>1, WroteOK

LEMMA ManagerOn ==
  ASSUME TInv, NEW B, Grown(B), IsFiniteSet(DOMAIN ready'),
         \A t \in DOMAIN ready' :
           /\ t \in DOMAIN trans'
           /\ trans'[t].state = IF ready'[t] = "ABORTED" THEN "aborted" ELSE "committed",
         \A t \in DOMAIN trans' :
           t \in DOMAIN ready' \/ trans'[t].state \in {"active", "aborting"}
             => ~ Covered(t, flushed),
         \A t \in MarkerIds(B) : t \in DOMAIN trans' /\ trans'[t].state = "committed",
         \A t \in DOMAIN trans :
           t \in DOMAIN trans' /\ (trans[t].state = "committed" => trans'[t].state = "committed"),
         opening => DOMAIN trans' = {} /\ mode' = "open" /\ next_tranc_id' = next_tranc_id
  PROVE  Manager'
<1>1. Manager /\ tranc_id_file \in Nat /\ next_tranc_id \in Nat /\ flushed \subseteq Nat
  BY DEF TInv, StoreInv, DiskInv, MemTyped, TranTypeOK
<1>2. /\ UNCHANGED <<tranc_id_file, flushed, flushed_file, opening>>
      /\ next_tranc_id' \in Nat /\ next_tranc_id <= next_tranc_id'
  BY DEF Grown
<1>3. IsFiniteSet(flushed') /\ IsFiniteSet(flushed_file')
  BY <1>1, <1>2 DEF Manager
<1>4. tranc_id_file' <= next_tranc_id' /\ \A n \in flushed' : n < next_tranc_id'
  BY <1>1, <1>2 DEF Manager
<1>5. (\A n \in flushed_file' : n < tranc_id_file') /\ (tranc_id_file' # 0 => flushed_file' # {})
  BY <1>1, <1>2 DEF Manager
<1>6. ASSUME NEW j \in Slots', NEW t \in MarkerIds(Slot(j)')
      PROVE  t \in DOMAIN trans' /\ trans'[t].state = "committed"
  <2>1. t \in MarkerIds(B) \/ \E i \in Slots : t \in MarkerIds(Slot(i))
    BY GrownOK
  <2>2. QED
    BY <1>1, <2>1 DEF Manager
<1>7. opening' => DOMAIN trans' = {} /\ mode' = "open" /\ next_tranc_id' = tranc_id_file'
  BY <1>1, <1>2 DEF Manager
<1>8. QED
  BY <1>2, <1>3, <1>4, <1>5, <1>6, <1>7 DEF Manager

LEMMA ContextOn ==
  ASSUME TInv, NEW B, Grown(B), NEW t \in Nat, NEW c,
         ContextOK(t, c, tranc_id_file, next_tranc_id, AllVersions)
  PROVE  ContextOK(t, c, tranc_id_file', next_tranc_id', AllVersions')
<1>1. next_tranc_id \in Nat
  BY DEF TInv, StoreInv, DiskInv, MemTyped
<1>2. next_tranc_id' \in Nat /\ next_tranc_id <= next_tranc_id' /\ UNCHANGED tranc_id_file
  BY DEF Grown
<1>3. t < next_tranc_id'
  BY <1>1, <1>2 DEF ContextOK
<1>4. \A v : Present(v, AllVersions) => Present(v, AllVersions')
  BY GrownOK
<1>5. QED
  BY <1>2, <1>3, <1>4 DEF ContextOK

LEMMA LogOn ==
  ASSUME TInv, NEW B, Grown(B),
         \A i \in DOMAIN wal' : wal'[i].key \in Keys,
         \A i \in DOMAIN replay' : replay'[i].key \in Keys,
         \A i \in DOMAIN wal' :
           \/ \E j \in DOMAIN wal : wal'[i].id = wal[j].id
           \/ wal'[i].id \in DOMAIN ready' /\ wal'[i].id \in MarkerIds(B)
  PROVE  LogOK'
<1>1. LogOK /\ ReadyGrows /\ UNCHANGED <<flushed, opening>>
  BY DEF TInv, Grown
<1>2. \A t : Marked(t) \/ t \in MarkerIds(B) => Marked(t)'
  BY GrownOK
<1>3. ASSUME ~ opening, NEW i \in DOMAIN wal'
      PROVE  \/ Covered(wal'[i].id, flushed')
             \/ wal'[i].id \in DOMAIN ready' /\ Marked(wal[i].id)'
  <2>1. PICK n : n = wal'[i].id
    OBVIOUS
  <2>2. Marked(n)' => Marked(wal[i].id)'
    BY <2>1 DEF Marked
  <2>3. CASE n \in DOMAIN ready' /\ n \in MarkerIds(B)
    BY <1>2, <2>1, <2>2, <2>3
  <2>4. ASSUME NEW j \in DOMAIN wal, n = wal[j].id
        PROVE  Covered(n, flushed') \/ (n \in DOMAIN ready' /\ Marked(n)')
    <3>1. Covered(wal[j].id, flushed) \/ (wal[j].id \in DOMAIN ready /\ Marked(wal[j].id))
      BY <1>1, <1>3 DEF LogOK
    <3>2. Marked(wal[j].id) => Marked(n)
      BY <2>4 DEF Marked
    <3>3. QED
      BY <1>1, <1>2, <2>4, <3>1, <3>2 DEF ReadyGrows
  <2>5. QED
    BY <2>1, <2>2, <2>3, <2>4
<1>4. QED
  BY <1>1, <1>3 DEF LogOK

LEMMA DurableOn ==
  ASSUME TInv, NEW B, Grown(B), committed' \subseteq Version,
         crashes = 0 => replay' = <<>>,
         \A v : Logged(v, wal) => Logged(v, wal'),
         \A v : opening /\ Logged(v, replay) =>
           Logged(v, replay') \/ \E i \in Slots' : Present(v, Slot(i)') /\ NotAhead(v.id, i)',
         \A v \in committed' : v \in committed \/ Kept(v)'
  PROVE  Durable'
<1>1. /\ Durable /\ DiskInv /\ Wrote(B) /\ ReadyGrows
      /\ UNCHANGED <<tranc_id_file, flushed, crashes, opening>>
  BY DEF TInv, StoreInv, Grown
<1>2. ASSUME NEW v, Kept(v)  PROVE Kept(v)'
  BY <1>1, <1>2, KeptOn
<1>3. QED
  BY <1>1, <1>2 DEF Durable

LEMMA FreshOn ==
  ASSUME TInv, NEW B, Grown(B), \A n : Hidden(n)' => Hidden(n) \/ n = next_tranc_id,
         crashes = 0 => \A v \in B : Shown(v.id)',
         crashes = 0 => \A t \in DOMAIN trans' : \A k \in DOMAIN trans'[t].rollback_map :
           \A v \in trans'[t].rollback_map[k] : Shown(v.id)
  PROVE  Fresh'
<1>1. Fresh /\ next_tranc_id \in Nat
  BY DEF TInv, StoreInv, DiskInv, MemTyped
<1>2. crashes' = crashes /\ next_tranc_id' \in Nat /\ next_tranc_id <= next_tranc_id'
  BY DEF Grown
<1>3. \A n : Shown(n) => Shown(n)'
  BY <1>1, <1>2 DEF Shown
<1>4. \A v \in AllVersions' : v \in AllVersions \/ v \in B
  BY GrownOK
<1>5. QED
  BY <1>1, <1>2, <1>3, <1>4 DEF Fresh

LEMMA WholeOn ==
  ASSUME TInv, NEW B, Grown(B),
         \A t \in DOMAIN trans' : trans'[t].state = "committed" =>
           \/ t \in DOMAIN trans /\ trans'[t] = trans[t]
           \/ crashes = 0 /\ trans'[t].level # "READ_UNCOMMITTED" => Untorn(Writes(t))'
  PROVE  Whole'
<1>1. Whole /\ DiskInv /\ Wrote(B) /\ crashes' = crashes
  BY DEF TInv, StoreInv, Grown
<1>2. ASSUME NEW t \in DOMAIN trans, trans'[t] = trans[t], Untorn(Writes(t))
      PROVE  Untorn(Writes(t))'
  <2>1. PICK W : W = Writes(t)
    OBVIOUS
  <2>2. Writes(t)' = W
    BY <1>2, <2>1 DEF Writes, CommitMarker
  <2>3. Untorn(W)
    BY <1>2, <2>1 DEF Untorn
  <2>4. Untorn(W)'
    BY <1>1, <2>3, UntornOn
  <2>5. QED
    BY <2>2, <2>4 DEF Untorn
<1>3. QED
  BY <1>1, <1>2 DEF Whole, In

-----------------------------------------------------------------------------
(* The steps of a transaction.                                             *)

LEMMA ContextsTyped ==
  ASSUME TInv, NEW t \in DOMAIN trans
  PROVE  /\ t \in Nat /\ IsContext(trans[t]) /\ ~ opening
         /\ ContextOK(t, trans[t], tranc_id_file, next_tranc_id, AllVersions)
         /\ t < next_tranc_id /\ 0 < t /\ tranc_id_file <= t
BY DEF TInv, TranTypeOK, Contexts, Manager, ContextOK

LEMMA NoMarker ==
  ASSUME NEW B, \A v \in B : v.key \in Keys
  PROVE  MarkerIds(B) = {}
<1>1. Marker \notin Keys
  BY KeysAssumption DEF Marker
<1>2. QED
  BY <1>1 DEF MarkerIds

Updated(t) ==
  /\ t \in DOMAIN trans /\ DOMAIN trans' = DOMAIN trans
  /\ \A u \in DOMAIN trans : u # t => trans'[u] = trans[u]
  /\ trans'[t].level = trans[t].level

\* A step of an open transaction t, by which it may end as aborted.
LEMMA UpdateOK ==
  ASSUME TInv, NEW t, Updated(t), NEW B, StoreInv', Wrote(B),
         UNCHANGED <<next_tranc_id, mode, tranc_id_file, crashes, flushed, flushed_file,
                     wal, opening, replay, committed>>,
         trans[t].state \in {"active", "aborting"},
         \/ trans'[t].state \in {"active", "aborting"} /\ UNCHANGED ready
         \/ trans'[t].state = "aborted" /\ ready' = Bind(ready, t, "ABORTED"),
         IsContext(trans'[t]),
         ContextOK(t, trans'[t], tranc_id_file', next_tranc_id', AllVersions'),
         \A v \in B : v.key \in Keys /\ (crashes = 0 => Shown(v.id)),
         crashes = 0 => \A k \in DOMAIN trans'[t].rollback_map :
           \A v \in trans'[t].rollback_map[k] : Shown(v.id)
  PROVE  TInv'
<1>1. /\ TranTypeOK /\ Manager /\ Contexts /\ LogOK /\ Durable /\ Fresh /\ Whole
      /\ next_tranc_id \in Nat /\ t \in DOMAIN trans
  BY DEF TInv, StoreInv, DiskInv, MemTyped, Updated
<1>2. t \notin DOMAIN ready /\ ~ Covered(t, flushed) /\ ~ opening /\ t \in Nat
  BY <1>1, ContextsTyped DEF Manager
<1>3. /\ DOMAIN ready \subseteq DOMAIN ready' /\ DOMAIN ready' \subseteq DOMAIN ready \cup {t}
      /\ \A n \in DOMAIN ready : ready'[n] = ready[n]
      /\ t \in DOMAIN ready' => ready'[t] = "ABORTED" /\ trans'[t].state = "aborted"
  <2>1. CASE UNCHANGED ready
    BY <1>2, <2>1
  <2>2. CASE trans'[t].state = "aborted" /\ ready' = Bind(ready, t, "ABORTED")
    <3>1. /\ DOMAIN ready' = DOMAIN ready \cup {t} /\ ready'[t] = "ABORTED"
          /\ \A z \in DOMAIN ready : z # t => ready'[z] = ready[z]
      BY <2>2 DEF Bind
    <3>2. QED
      BY <1>2, <2>2, <3>1
  <2>3. QED
    BY <2>1, <2>2
<1>4. Grown(B)
  BY <1>1, <1>3 DEF Grown, ReadyGrows
<1>5. /\ DOMAIN trans' = DOMAIN trans /\ trans'[t].level = trans[t].level
      /\ \A u \in DOMAIN trans : u # t => trans'[u] = trans[u]
  BY DEF Updated
<1>6. TranTypeOK'
  BY <1>1, <1>2, <1>3, <1>5 DEF TranTypeOK
<1>7. Manager'
  <2>1. IsFiniteSet(DOMAIN ready')
    <3>1. IsFiniteSet(DOMAIN ready \cup {t})
      BY <1>1, FS_AddElement DEF Manager
    <3>2. QED
      BY <1>3, <3>1, FS_Subset
  <2>2. ASSUME NEW n \in DOMAIN ready'
        PROVE  /\ n \in DOMAIN trans'
               /\ trans'[n].state = IF ready'[n] = "ABORTED" THEN "aborted" ELSE "committed"
    <3>1. CASE n = t
      BY <1>1, <1>3, <1>5, <3>1
    <3>2. CASE n # t
      BY <1>1, <1>3, <1>5, <3>2 DEF Manager
    <3>3. QED
      BY <3>1, <3>2
  <2>3. ASSUME NEW n \in DOMAIN trans',
               n \in DOMAIN ready' \/ trans'[n].state \in {"active", "aborting"}
        PROVE  ~ Covered(n, flushed)
    BY <1>1, <1>2, <1>3, <1>5, <2>3 DEF Manager
  <2>4. MarkerIds(B) = {}
    BY NoMarker
  <2>5. \A n \in DOMAIN trans :
          n \in DOMAIN trans' /\ (trans[n].state = "committed" => trans'[n].state = "committed")
    BY <1>5
  <2>6. QED
    BY <1>2, <1>4, <2>1, <2>2, <2>3, <2>4, <2>5, ManagerOn
<1>8. Contexts'
  <2>1. ASSUME NEW u \in DOMAIN trans', u # t
        PROVE  ContextOK(u, trans'[u], tranc_id_file', next_tranc_id', AllVersions')
    BY <1>4, <1>5, <2>1, ContextsTyped, ContextOn
  <2>2. QED
    BY <2>1 DEF Contexts
<1>9. LogOK'
  <2>1. \A i \in DOMAIN wal' : wal'[i].key \in Keys
    BY <1>1 DEF LogOK
  <2>2. \A i \in DOMAIN replay' : replay'[i].key \in Keys
    BY <1>1 DEF LogOK
  <2>3. QED
    BY <1>4, <2>1, <2>2, LogOn
<1>10. Durable'
  <2>1. committed' \subseteq Version /\ (crashes = 0 => replay' = <<>>)
    BY <1>1 DEF Durable
  <2>2. QED
    BY <1>2, <1>4, <2>1, DurableOn
<1>11. \A n : Hidden(n)' => Hidden(n)
  BY <1>5 DEF Hidden
<1>12. Fresh'
  <2>1. \A n : Shown(n) => Shown(n)'
    BY <1>11 DEF Shown
  <2>2. crashes = 0 => \A u \in DOMAIN trans' : \A k \in DOMAIN trans'[u].rollback_map :
          \A v \in trans'[u].rollback_map[k] : Shown(v.id)
    BY <1>1, <1>5 DEF Fresh
  <2>3. QED
    BY <1>4, <1>11, <2>1, <2>2, FreshOn
<1>13. Whole'
  <2>1. \A u \in DOMAIN trans' : trans'[u].state = "committed" =>
          u \in DOMAIN trans /\ trans'[u] = trans[u]
    BY <1>5
  <2>2. QED
    BY <1>4, <2>1, WholeOn
<1>14. QED
  BY <1>6, <1>7, <1>8, <1>9, <1>10, <1>12, <1>13 DEF TInv

\* The context of t after one of its fields, or two, have been set.
LEMMA SetField ==
  ASSUME NEW c, DOMAIN c = {"level", "state", "operations", "temp_map", "rollback_map"}, NEW x
  PROVE  /\ LET d == [c EXCEPT !.state = x]
            IN  /\ DOMAIN d = DOMAIN c /\ d.level = c.level /\ d.state = x
                /\ d.operations = c.operations /\ d.temp_map = c.temp_map
                /\ d.rollback_map = c.rollback_map
         /\ LET d == [c EXCEPT !.operations = x]
            IN  /\ DOMAIN d = DOMAIN c /\ d.level = c.level /\ d.state = c.state
                /\ d.operations = x /\ d.temp_map = c.temp_map
                /\ d.rollback_map = c.rollback_map
         /\ LET d == [c EXCEPT !.temp_map = x]
            IN  /\ DOMAIN d = DOMAIN c /\ d.level = c.level /\ d.state = c.state
                /\ d.operations = c.operations /\ d.temp_map = x
                /\ d.rollback_map = c.rollback_map
         /\ LET d == [c EXCEPT !.rollback_map = x]
            IN  /\ DOMAIN d = DOMAIN c /\ d.level = c.level /\ d.state = c.state
                /\ d.operations = c.operations /\ d.temp_map = c.temp_map
                /\ d.rollback_map = x
OBVIOUS

\* t becomes aborted, or begins to undo its writes; the store stays.
LEMMA StateStep ==
  ASSUME TInv, NEW t \in DOMAIN trans, trans[t].state \in {"active", "aborting"}, NEW x,
         trans' = [trans EXCEPT ![t].state = x],
         \/ x = "aborting" /\ UNCHANGED ready /\ trans[t].level = "READ_UNCOMMITTED"
         \/ x = "aborted" /\ ready' = Bind(ready, t, "ABORTED"),
         UNCHANGED <<crashVars, flushed, flushed_file, wal, opening, replay, committed>>
  PROVE  TInv'
<1> DEFINE c == trans[t]
           d == [c EXCEPT !.state = x]
<1>1. /\ IsContext(c) /\ ContextOK(t, c, tranc_id_file, next_tranc_id, AllVersions)
      /\ next_tranc_id \in Nat /\ tranc_id_file \in Nat /\ StoreInv
  BY ContextsTyped DEF TInv, StoreInv, DiskInv, MemTyped
<1>2. /\ UNCHANGED <<current_table, frozen_tables, frozen_bytes, levels, cur_max_level,
                     next_sst_id, next_tranc_id, mode, job, tranc_id_file, crashes>>
  BY DEF crashVars, lsmVars, memVars, sstVars
<1>3. StoreInv' /\ Wrote({})
  BY <1>1, <1>2, StoreQuiet
<1>4. UNCHANGED AllVersions
  BY <1>2 DEF AllVersions, MemVersions, DiskVersions, LevelVersions
<1>5. DOMAIN c = {"level", "state", "operations", "temp_map", "rollback_map"}
  BY <1>1 DEF ContextOK
<1>6. /\ DOMAIN d = DOMAIN c /\ d.level = c.level /\ d.state = x
      /\ d.operations = c.operations /\ d.temp_map = c.temp_map
      /\ d.rollback_map = c.rollback_map
  BY <1>5, SetField
<1>7. trans'[t] = d /\ DOMAIN trans' = DOMAIN trans /\ \A u \in DOMAIN trans : u # t => trans'[u] = trans[u]
  OBVIOUS
<1> HIDE DEF c, d
<1>8. Updated(t)
  BY <1>6, <1>7 DEF Updated, c
<1>9. IsContext(d)
  BY <1>1, <1>6 DEF IsContext
<1>10. ContextOK(t, d, tranc_id_file', next_tranc_id', AllVersions')
  BY <1>1, <1>2, <1>4, <1>6 DEF ContextOK, c
<1>11. crashes = 0 => \A k \in DOMAIN d.rollback_map : \A v \in d.rollback_map[k] : Shown(v.id)
  BY <1>6 DEF TInv, Fresh, c
<1>12. \/ trans'[t].state \in {"active", "aborting"} /\ UNCHANGED ready
       \/ trans'[t].state = "aborted" /\ ready' = Bind(ready, t, "ABORTED")
  BY <1>6, <1>7
<1>13. QED
  BY <1>2, <1>3, <1>7, <1>8, <1>9, <1>10, <1>11, <1>12, UpdateOK

\* What a put or remove does to the context of its transaction.
LEMMA WriteSets ==
  ASSUME TInv, NEW t \in DOMAIN trans, NEW k, NEW x, TranWrite(t, k, x),
         NEW v, v = [key |-> k, id |-> t, val |-> x]
  PROVE  LET c == trans[t]
             d == trans'[t]
         IN  /\ trans' = [trans EXCEPT ![t] = d] /\ DOMAIN d = DOMAIN c
             /\ d.level = c.level /\ d.state = c.state /\ d.operations = Append(c.operations, v)
             /\ \/ /\ c.level # "READ_UNCOMMITTED" /\ d.temp_map = TablePut(c.temp_map, {v})
                   /\ d.rollback_map = c.rollback_map
                \/ /\ c.level = "READ_UNCOMMITTED" /\ d.temp_map = c.temp_map
                   /\ d.rollback_map = Bind(c.rollback_map, k, EngineGet(k, 0))
<1> DEFINE c == trans[t]
           d == trans'[t]
           e == [c EXCEPT !.operations = Append(c.operations, v)]
           f == [e EXCEPT !.rollback_map = Bind(c.rollback_map, k, EngineGet(k, 0))]
           g == [e EXCEPT !.temp_map = TablePut(c.temp_map, {v})]
<1>1. DOMAIN c = {"level", "state", "operations", "temp_map", "rollback_map"}
  BY ContextsTyped DEF ContextOK
<1>2. e.rollback_map = c.rollback_map /\ e.temp_map = c.temp_map
  BY <1>1, SetField
<1>3. IF c.level = "READ_UNCOMMITTED"
      THEN trans' = [trans EXCEPT ![t].operations = Append(@, v),
                                  ![t].rollback_map = Bind(@, k, EngineGet(k, 0))]
      ELSE trans' = [trans EXCEPT ![t].operations = Append(@, v),
                                  ![t].temp_map = TablePut(@, {v})]
  BY DEF TranWrite
<1>4. /\ c.level = "READ_UNCOMMITTED" => trans' = [trans EXCEPT ![t] = f]
      /\ c.level # "READ_UNCOMMITTED" => trans' = [trans EXCEPT ![t] = g]
  BY <1>2, <1>3
<1>5. /\ trans' = [trans EXCEPT ![t] = d]
      /\ c.level = "READ_UNCOMMITTED" => d = f
      /\ c.level # "READ_UNCOMMITTED" => d = g
  BY <1>4
<1> HIDE DEF c, d
<1>6. /\ DOMAIN e = DOMAIN c /\ e.level = c.level /\ e.state = c.state
      /\ e.operations = Append(c.operations, v)
  BY <1>1, SetField
<1> HIDE DEF e
<1>7. /\ DOMAIN f = DOMAIN c /\ f.level = c.level /\ f.state = c.state
      /\ f.operations = e.operations /\ f.temp_map = c.temp_map
      /\ f.rollback_map = Bind(c.rollback_map, k, EngineGet(k, 0))
  BY <1>1, <1>2, <1>6, SetField
<1>8. /\ DOMAIN g = DOMAIN c /\ g.level = c.level /\ g.state = c.state
      /\ g.operations = e.operations /\ g.rollback_map = c.rollback_map
      /\ g.temp_map = TablePut(c.temp_map, {v})
  BY <1>1, <1>2, <1>6, SetField
<1> HIDE DEF f, g
<1>9. QED
  BY <1>5, <1>6, <1>7, <1>8 DEF c, d

\* A put or remove of a transaction.
LEMMA TranWriteOK ==
  ASSUME TInv, NEW t \in DOMAIN trans, NEW k \in Keys, NEW x \in Values \cup {Tombstone},
         TranWrite(t, k, x)
  PROVE  TInv'
<1> DEFINE c == trans[t]
           d == trans'[t]
           v == [key |-> k, id |-> t, val |-> x]
<1>1. /\ IsContext(c) /\ ContextOK(t, c, tranc_id_file, next_tranc_id, AllVersions) /\ t \in Nat
      /\ next_tranc_id \in Nat /\ tranc_id_file \in Nat /\ StoreInv /\ Fresh
  BY ContextsTyped DEF TInv, StoreInv, DiskInv, MemTyped
<1>2. v \in Version /\ v.key = k /\ v.id = t /\ {v} \in Tables
  <2>1. v \in Version
    BY <1>1 DEF Version, AllKeys
  <2>2. QED
    BY <2>1, FS_Singleton DEF Tables
<1>3. DOMAIN c = {"level", "state", "operations", "temp_map", "rollback_map"}
  BY <1>1 DEF ContextOK
<1>4. /\ c.state = "active" /\ UNCHANGED <<tranc_id_file, crashes, ready, flushed, flushed_file, wal,
                                            opening, replay, committed>>
  BY DEF TranWrite
<1>5. \A ops : ops = Append(c.operations, v) =>
        /\ ops \in Seq(Version)
        /\ \A i \in DOMAIN ops : ops[i] = v \/ \E j \in DOMAIN c.operations : ops[i] = c.operations[j]
  <2>1. c.operations \in Seq(Version)
    BY <1>1 DEF IsContext
  <2> HIDE DEF v, c
  <2>2. QED
    BY <1>2, <2>1
<1>6. ASSUME NEW B, StoreInv', Wrote(B), UNCHANGED <<next_tranc_id, mode>>, DOMAIN d = DOMAIN c,
             trans' = [trans EXCEPT ![t] = d], B = {} \/ (B = {v} /\ c.level = "READ_UNCOMMITTED"),
             d.level = c.level, d.state = c.state, d.operations = Append(c.operations, v),
             \/ /\ c.level # "READ_UNCOMMITTED" /\ d.temp_map = TablePut(c.temp_map, {v})
                /\ d.rollback_map = c.rollback_map
             \/ /\ c.level = "READ_UNCOMMITTED" /\ d.temp_map = c.temp_map /\ B = {v}
                /\ d.rollback_map = Bind(c.rollback_map, k, EngineGet(k, 0))
      PROVE  TInv'
  <2>1. DOMAIN trans' = DOMAIN trans /\ \A u \in DOMAIN trans : u # t => trans'[u] = trans[u]
    BY <1>6
  <2> HIDE DEF v, c, d
  <2>2. Updated(t)
    BY <1>6, <2>1 DEF Updated, c, d
  <2>3. d.temp_map \in Tables /\ \A w \in d.temp_map : w.key \in Keys /\ w.id = t
    <3>1. c.temp_map \in Tables /\ \A w \in c.temp_map : w.key \in Keys /\ w.id = t
      BY <1>1 DEF IsContext, ContextOK
    <3>2. TablePut(c.temp_map, {v}) \in Tables /\ TablePut(c.temp_map, {v}) \subseteq c.temp_map \cup {v}
      BY <1>2, <3>1, TablePutIsTable, PutKeeps
    <3>3. QED
      BY <1>2, <1>6, <3>1, <3>2
  <2>4. /\ EngineGet(k, 0) \in Tables
        /\ \A w \in EngineGet(k, 0) : w.key = k /\ (w.id = 0 \/ w \in MemVersions)
    BY <1>1, EngineGetFrom
  <2>5. /\ DOMAIN d.rollback_map \subseteq Keys
        /\ \A j \in DOMAIN d.rollback_map :
             \/ j = k /\ d.rollback_map[j] = EngineGet(k, 0) /\ c.level = "READ_UNCOMMITTED"
             \/ j \in DOMAIN c.rollback_map /\ d.rollback_map[j] = c.rollback_map[j]
        /\ c.level # "READ_UNCOMMITTED" => DOMAIN d.rollback_map = DOMAIN c.rollback_map
    <3>1. DOMAIN c.rollback_map \subseteq Keys
      BY <1>1 DEF IsContext
    <3>2. CASE d.rollback_map = c.rollback_map /\ c.level # "READ_UNCOMMITTED"
      BY <3>1, <3>2
    <3>3. CASE /\ c.level = "READ_UNCOMMITTED"
               /\ d.rollback_map = Bind(c.rollback_map, k, EngineGet(k, 0))
      <4>1. /\ DOMAIN d.rollback_map = DOMAIN c.rollback_map \cup {k}
            /\ d.rollback_map[k] = EngineGet(k, 0)
            /\ \A j \in DOMAIN c.rollback_map : j # k => d.rollback_map[j] = c.rollback_map[j]
        BY <3>3 DEF Bind
      <4>2. QED
        BY <3>1, <3>3, <4>1
    <3>4. QED
      BY <1>6, <3>2, <3>3
  <2>6. \A j \in DOMAIN d.rollback_map :
          d.rollback_map[j] \in Tables /\ \A w \in d.rollback_map[j] : w.key = j
    BY <1>1, <2>4, <2>5 DEF ContextOK
  <2>7. IsContext(d)
    <3>1. \A j \in DOMAIN d.rollback_map : d.rollback_map[j] \subseteq Version
      BY <2>6 DEF Tables
    <3>2. d.operations \in Seq(Version)
      BY <1>5, <1>6
    <3>3. QED
      BY <1>1, <1>6, <2>3, <2>5, <3>1, <3>2 DEF IsContext
  <2>8. \A i \in DOMAIN d.operations :
          d.operations[i] = v \/ \E j \in DOMAIN c.operations : d.operations[i] = c.operations[j]
    BY <1>5, <1>6
  <2>9. \A w : Present(w, AllVersions) \/ Present(w, B) => Present(w, AllVersions')
    <3>1. DiskInv /\ DiskInv'
      BY <1>1, <1>6 DEF StoreInv
    <3>2. QED
      BY <1>6, <3>1, WroteOK
  <2>10. Present(v, {v}) /\ \A w : Present(w, c.temp_map) \/ Present(w, {v}) => Present(w, TablePut(c.temp_map, {v}))
    BY PutKeeps DEF Present
  <2>11. c.level # "READ_UNCOMMITTED" => \A i \in DOMAIN d.operations : Present(d.operations[i], d.temp_map)
    BY <1>1, <1>6, <2>8, <2>10 DEF ContextOK
  <2>12. c.level = "READ_UNCOMMITTED" => \A i \in DOMAIN d.operations : Present(d.operations[i], AllVersions')
    BY <1>1, <1>4, <1>6, <2>8, <2>9, <2>10 DEF ContextOK, c
  <2>13. ContextOK(t, d, tranc_id_file', next_tranc_id', AllVersions')
    <3>1. \A i \in DOMAIN d.operations : d.operations[i].key \in Keys /\ d.operations[i].id = t
      BY <1>1, <1>2, <2>8 DEF ContextOK
    <3>2. tranc_id_file' <= t /\ 0 < t /\ t < next_tranc_id'
      BY <1>1, <1>4, <1>6 DEF ContextOK
    <3>3. d.level # "READ_UNCOMMITTED" => d.state # "aborting" /\ DOMAIN d.rollback_map = {}
      BY <1>1, <1>6, <2>5 DEF ContextOK
    <3>4. QED
      BY <1>3, <1>6, <2>3, <2>6, <2>11, <2>12, <3>1, <3>2, <3>3 DEF ContextOK
  <2>14. crashes = 0 => Shown(0) /\ \A w \in MemVersions : Shown(w.id)
    <3>1. ~ Hidden(0) /\ 0 < next_tranc_id
      <4>1. \A u \in DOMAIN trans : 0 < u /\ u \in Nat
        BY ContextsTyped
      <4>2. 0 \notin DOMAIN trans /\ 0 < t /\ t < next_tranc_id
        BY <1>1, <4>1 DEF ContextOK
      <4>3. QED
        BY <1>1, <4>2 DEF Hidden
    <3>2. QED
      BY <1>1, <3>1 DEF Fresh, Shown, AllVersions
  <2>15. crashes = 0 => \A j \in DOMAIN d.rollback_map : \A w \in d.rollback_map[j] : Shown(w.id)
    BY <1>1, <2>4, <2>5, <2>14 DEF Fresh, c
  <2>16. \A w \in B : w.key \in Keys /\ (crashes = 0 => Shown(w.id))
    <3>1. c.level = "READ_UNCOMMITTED" => v.key \in Keys /\ Shown(v.id)
      BY <1>1, <1>2 DEF Shown, Hidden, c, ContextOK
    <3>2. QED
      BY <1>6, <3>1
  <2>17. d = trans'[t] /\ c = trans[t]
    BY DEF d, c
  <2>18. QED
    BY <1>4, <1>6, <2>2, <2>7, <2>13, <2>15, <2>16, <2>17, UpdateOK
<1>7. /\ trans' = [trans EXCEPT ![t] = d] /\ DOMAIN d = DOMAIN c
      /\ d.level = c.level /\ d.state = c.state /\ d.operations = Append(c.operations, v)
      /\ \/ /\ c.level # "READ_UNCOMMITTED" /\ d.temp_map = TablePut(c.temp_map, {v})
            /\ d.rollback_map = c.rollback_map
         \/ /\ c.level = "READ_UNCOMMITTED" /\ d.temp_map = c.temp_map
            /\ d.rollback_map = Bind(c.rollback_map, k, EngineGet(k, 0))
  BY WriteSets
<1>8. CASE c.level = "READ_UNCOMMITTED"
  <2>1. EngineWrite({v}) /\ UNCHANGED next_tranc_id
    BY <1>8 DEF TranWrite
  <2>2. UNCHANGED mode
    BY <2>1 DEF EngineWrite
  <2>3. StoreInv' /\ Wrote({v})
    BY <1>1, <1>2, <1>4, <2>1, StoreWrite
  <2> HIDE DEF c, d, v
  <2>4. QED
    BY <1>6, <1>7, <1>8, <2>1, <2>2, <2>3
<1>9. CASE c.level # "READ_UNCOMMITTED"
  <2>1. UNCHANGED <<current_table, frozen_tables, frozen_bytes, levels, cur_max_level,
                    next_sst_id, next_tranc_id, mode, job>>
    BY <1>9 DEF TranWrite, lsmVars, memVars, sstVars
  <2>2. StoreInv' /\ Wrote({})
    BY <1>1, <1>4, <2>1, StoreQuiet
  <2> HIDE DEF c, d, v
  <2>3. QED
    BY <1>6, <1>7, <1>9, <2>1, <2>2
<1>10. QED
  BY <1>8, <1>9

\* One round of the loop of abort.
LEMMA RollbackOK ==
  ASSUME TInv, NEW t \in DOMAIN trans, NEW k \in Keys, Rollback(t, k)
  PROVE  TInv'
<1> DEFINE c == trans[t]
           m == [j \in DOMAIN c.rollback_map \ {k} |-> c.rollback_map[j]]
           d == [c EXCEPT !.rollback_map = m]
           old == c.rollback_map[k]
           v == [key |-> k, id |-> t, val |-> Tombstone]
           B == IF old # {} THEN old ELSE {v}
<1>1. /\ IsContext(c) /\ ContextOK(t, c, tranc_id_file, next_tranc_id, AllVersions) /\ t \in Nat
      /\ next_tranc_id \in Nat /\ tranc_id_file \in Nat /\ StoreInv /\ Fresh
  BY ContextsTyped DEF TInv, StoreInv, DiskInv, MemTyped
<1>2. /\ c.state = "aborting" /\ k \in DOMAIN c.rollback_map /\ EngineWrite(B)
      /\ UNCHANGED <<next_tranc_id, tranc_id_file, crashes, ready, flushed, flushed_file, wal,
                     opening, replay, committed>>
  BY DEF Rollback
<1>3. trans' = [trans EXCEPT ![t] = d]
  BY DEF Rollback
<1>4. UNCHANGED mode
  BY <1>2 DEF EngineWrite
<1>5. DOMAIN c = {"level", "state", "operations", "temp_map", "rollback_map"}
  BY <1>1 DEF ContextOK
<1>6. /\ DOMAIN d = DOMAIN c /\ d.level = c.level /\ d.state = c.state
      /\ d.operations = c.operations /\ d.temp_map = c.temp_map
      /\ d.rollback_map = m
  BY <1>5, SetField
<1>7. /\ trans'[t] = d /\ DOMAIN trans' = DOMAIN trans
      /\ \A u \in DOMAIN trans : u # t => trans'[u] = trans[u]
  BY <1>3
<1>8. DOMAIN m = DOMAIN c.rollback_map \ {k} /\ \A j \in DOMAIN m : m[j] = c.rollback_map[j]
  OBVIOUS
<1>9. v \in Version /\ v.key = k /\ v.id = t /\ {v} \in Tables
  <2>1. v \in Version
    BY <1>1 DEF Version, AllKeys
  <2>2. QED
    BY <2>1, FS_Singleton DEF Tables
<1>10. old \in Tables /\ \A w \in old : w.key = k
  BY <1>1, <1>2 DEF ContextOK
<1>11. c.level = "READ_UNCOMMITTED"
  BY <1>1, <1>2 DEF ContextOK
<1> HIDE DEF m, d, v
<1>12. B \in Tables /\ \A w \in B : w.key \in Keys
  BY <1>9, <1>10
<1>13. crashes = 0 => \A w \in B : Shown(w.id)
  <2>1. Shown(t)
    BY <1>1, <1>11 DEF Shown, Hidden, ContextOK
  <2>2. crashes = 0 => \A w \in old : Shown(w.id)
    BY <1>1, <1>2 DEF Fresh
  <2>3. QED
    BY <1>9, <2>1, <2>2
<1> HIDE DEF B
<1>14. StoreInv' /\ Wrote(B)
  BY <1>1, <1>2, <1>12, StoreWrite
<1>15. \A w : Present(w, AllVersions) => Present(w, AllVersions')
  <2>1. DiskInv /\ DiskInv'
    BY <1>1, <1>14 DEF StoreInv
  <2>2. QED
    BY <1>14, <2>1, WroteOK
<1>16. crashes = 0 => \A j \in DOMAIN d.rollback_map : \A w \in d.rollback_map[j] : Shown(w.id)
  BY <1>1, <1>6, <1>8 DEF Fresh
<1>17. Updated(t)
  BY <1>6, <1>7 DEF Updated
<1> HIDE DEF c
<1>18. IsContext(d)
  BY <1>1, <1>6, <1>8 DEF IsContext
<1>19. ContextOK(t, d, tranc_id_file', next_tranc_id', AllVersions')
  BY <1>1, <1>2, <1>6, <1>8, <1>11, <1>15 DEF ContextOK
<1>20. c = trans[t]
  BY DEF c
<1>21. QED
  BY <1>2, <1>4, <1>6, <1>7, <1>12, <1>13, <1>14, <1>16, <1>17, <1>18, <1>19, <1>20, UpdateOK

\* begin_tran.
LEMMA BeginOK ==
  ASSUME TInv, NEW l \in Isolation, Begin(l)
  PROVE  TInv'
<1> DEFINE n == next_tranc_id
           c == NewContext(l)
<1>1. /\ n \in Nat /\ tranc_id_file \in Nat /\ StoreInv /\ TranTypeOK /\ Manager /\ Contexts
      /\ LogOK /\ Durable /\ Fresh /\ Whole /\ flushed \in SUBSET Nat /\ flushed # {}
  BY DEF TInv, StoreInv, DiskInv, MemTyped, TranTypeOK
<1>2. /\ ~ opening /\ n' = n + 1 /\ trans' = Bind(trans, n, c)
      /\ UNCHANGED <<current_table, frozen_tables, frozen_bytes, levels, cur_max_level,
                     next_sst_id, mode, job, tranc_id_file, crashes>>
      /\ UNCHANGED <<ready, flushed, flushed_file, wal, opening, replay, committed>>
  BY DEF Begin, Quiet, NewTrancId, memVars, sstVars
<1>3. n \notin DOMAIN trans
  <2>1. n \in DOMAIN trans => n < n
    BY ContextsTyped
  <2>2. QED
    BY <1>1, <2>1
<1>4. /\ DOMAIN trans' = DOMAIN trans \cup {n} /\ trans'[n] = c
      /\ \A u \in DOMAIN trans : u # n /\ trans'[u] = trans[u]
  <2>1. DOMAIN trans' = DOMAIN trans \cup {n} /\ trans'[n] = c
    BY <1>2 DEF Bind
  <2>2. \A u \in DOMAIN trans : u # n /\ trans'[u] = trans[u]
    BY <1>2, <1>3 DEF Bind
  <2>3. QED
    BY <2>1, <2>2
<1>5. /\ c.level = l /\ c.state = "active" /\ c.operations = <<>> /\ c.temp_map = {}
      /\ DOMAIN c.rollback_map = {} /\ DOMAIN c.operations = {}
      /\ DOMAIN c = {"level", "state", "operations", "temp_map", "rollback_map"}
  BY DEF NewContext
<1> HIDE DEF c
<1>6. n + 1 \in Nat /\ n < n + 1 /\ n <= n + 1
  BY <1>1
<1>7. StoreInv' /\ Wrote({})
  BY <1>1, <1>2, <1>6, StoreQuiet
<1>8. Grown({})
  BY <1>2, <1>6, <1>7 DEF Grown, ReadyGrows
<1>9. TranTypeOK'
  <2>1. IsContext(c)
    BY <1>5, FS_EmptySet DEF IsContext, Tables
  <2>2. QED
    BY <1>1, <1>2, <1>4, <2>1 DEF TranTypeOK
<1>10. Manager'
  <2>1. ~ Covered(n, flushed)
    <3>1. Min(flushed) \in flushed /\ n \notin flushed /\ Min(flushed) < n /\ Min(flushed) \in Nat
      <4>1. Min(flushed) \in flushed
        BY <1>1, MinElement
      <4>2. \A x \in flushed : x < n /\ x \in Nat
        BY <1>1 DEF Manager
      <4> HIDE DEF n
      <4>3. n \notin flushed
        <5>1. n \in flushed => n < n
          BY <4>2
        <5>2. QED
          BY <1>1, <5>1
      <4>4. Min(flushed) < n /\ Min(flushed) \in Nat
        BY <4>1, <4>2
      <4>5. QED
        BY <4>1, <4>3, <4>4
    <3> HIDE DEF n
    <3>2. QED
      BY <1>1, <3>1 DEF Covered
  <2>2. MarkerIds({}) = {}
    BY DEF MarkerIds
  <2>3. \A t \in DOMAIN ready' :
           /\ t \in DOMAIN trans'
           /\ trans'[t].state = IF ready'[t] = "ABORTED" THEN "aborted" ELSE "committed"
    BY <1>1, <1>2, <1>4 DEF Manager
  <2>4. \A t \in DOMAIN trans' :
           t \in DOMAIN ready' \/ trans'[t].state \in {"active", "aborting"}
             => ~ Covered(t, flushed)
    BY <1>1, <1>2, <1>4, <2>1 DEF Manager
  <2>5. IsFiniteSet(DOMAIN ready')
    BY <1>1, <1>2 DEF Manager
  <2>6. QED
    BY <1>2, <1>4, <1>8, <2>2, <2>3, <2>4, <2>5, ManagerOn
<1>11. Contexts'
  <2>1. ASSUME NEW u \in DOMAIN trans
        PROVE  ContextOK(u, trans'[u], tranc_id_file', next_tranc_id', AllVersions')
    BY <1>4, <1>8, ContextsTyped, ContextOn
  <2>2. tranc_id_file' <= n /\ 0 < n /\ n < next_tranc_id'
    <3>1. tranc_id_file <= n /\ \E x \in flushed : x \in Nat /\ x < n
      BY <1>1 DEF Manager
    <3>2. QED
      BY <1>1, <1>2, <1>6, <3>1
  <2>3. ContextOK(n, c, tranc_id_file', next_tranc_id', AllVersions')
    BY <1>5, <2>2 DEF ContextOK
  <2>4. QED
    BY <1>4, <2>1, <2>3 DEF Contexts
<1>12. LogOK'
  BY <1>1, <1>2, <1>8, LogOn DEF LogOK
<1>13. Durable'
  BY <1>1, <1>2, <1>8, DurableOn DEF Durable
<1>14. Fresh'
  <2>1. \A x : Hidden(x)' => Hidden(x) \/ x = n
    BY <1>4 DEF Hidden
  <2>2. crashes = 0 => \A u \in DOMAIN trans' : \A k \in DOMAIN trans'[u].rollback_map :
          \A v \in trans'[u].rollback_map[k] : Shown(v.id)
    BY <1>1, <1>4, <1>5 DEF Fresh
  <2>3. QED
    BY <1>8, <2>1, <2>2, FreshOn
<1>15. Whole'
  BY <1>4, <1>5, <1>8, WholeOn
<1>16. QED
  BY <1>7, <1>9, <1>10, <1>11, <1>12, <1>13, <1>14, <1>15 DEF TInv

\* The steps of abort and of a commit that fails its check.
LEMMA EndOK ==
  ASSUME TInv, NEW t \in DOMAIN trans, CommitConflict(t) \/ Abort(t) \/ AbortDone(t)
  PROVE  TInv'
<1>1. CASE CommitConflict(t)
  BY <1>1, StateStep DEF CommitConflict
<1>2. CASE Abort(t)
  <2>1. CASE trans[t].level = "READ_UNCOMMITTED"
    BY <1>2, <2>1, StateStep DEF Abort
  <2>2. CASE trans[t].level # "READ_UNCOMMITTED"
    BY <1>2, <2>2, StateStep DEF Abort
  <2>3. QED
    BY <2>1, <2>2
<1>3. CASE AbortDone(t)
  BY <1>3, StateStep DEF AbortDone
<1>4. QED
  BY <1>1, <1>2, <1>3

\* A log to which records have been added holds them and the old ones.
LEMMA LogAppended ==
  ASSUME NEW log \in Seq(Version), NEW ops \in Seq(Version)
  PROVE  /\ log \o ops \in Seq(Version)
         /\ \A i \in DOMAIN (log \o ops) :
              \/ i \in DOMAIN log /\ (log \o ops)[i] = log[i]
              \/ \E j \in DOMAIN ops : (log \o ops)[i] = ops[j]
         /\ \A i \in DOMAIN log : i \in DOMAIN (log \o ops) /\ (log \o ops)[i] = log[i]
         /\ \A j \in DOMAIN ops : \E i \in DOMAIN (log \o ops) : (log \o ops)[i] = ops[j]
<1> DEFINE m == Len(log)
           n == Len(ops)
           s == log \o ops
<1>1. m \in Nat /\ n \in Nat /\ DOMAIN log = 1 .. m /\ DOMAIN ops = 1 .. n
  OBVIOUS
<1>2. s \in Seq(Version) /\ Len(s) = m + n
  OBVIOUS
<1>3. \A i \in 1 .. m + n : s[i] = IF i <= m THEN log[i] ELSE ops[i - m]
  OBVIOUS
<1>4. DOMAIN s = 1 .. m + n
  BY <1>1, <1>2
<1> HIDE DEF m, n, s
<1>5. ASSUME NEW i \in DOMAIN s
      PROVE  (i \in DOMAIN log /\ s[i] = log[i]) \/ \E j \in DOMAIN ops : s[i] = ops[j]
  <2>1. i \in 1 .. m \/ (i - m \in 1 .. n /\ ~ (i <= m))
    BY <1>1, <1>4
  <2>2. QED
    BY <1>1, <1>3, <1>4, <2>1
<1>6. \A i \in DOMAIN log : i \in DOMAIN s /\ s[i] = log[i]
  BY <1>1, <1>3, <1>4
<1>7. ASSUME NEW j \in DOMAIN ops  PROVE \E i \in DOMAIN s : s[i] = ops[j]
  <2> DEFINE i == m + j
  <2>1. i \in 1 .. m + n /\ ~ (i <= m) /\ i - m = j
    BY <1>1
  <2> HIDE DEF i
  <2>2. s[i] = ops[j]
    BY <1>3, <2>1
  <2>3. QED
    BY <1>4, <2>1, <2>2
<1>8. QED
  BY <1>2, <1>5, <1>6, <1>7 DEF s

\* commit.
LEMMA CommitOK ==
  ASSUME TInv, NEW t \in DOMAIN trans, Commit(t)
  PROVE  TInv'
<1> DEFINE c == trans[t]
           d == [c EXCEPT !.state = "committed"]
           ops == c.operations
           m == CommitMarker(t)
           B == c.temp_map \cup {m}
<1>1. /\ IsContext(c) /\ ContextOK(t, c, tranc_id_file, next_tranc_id, AllVersions) /\ t \in Nat
      /\ next_tranc_id \in Nat /\ tranc_id_file \in Nat /\ StoreInv /\ DiskInv /\ ~ opening
      /\ TranTypeOK /\ Manager /\ LogOK /\ Durable /\ Fresh /\ wal \in Seq(Version)
  BY ContextsTyped DEF TInv, StoreInv, DiskInv, MemTyped, TranTypeOK
<1>2. /\ c.state = "active" /\ wal' = wal \o ops
      /\ current_table' = TablePut(current_table, B)
      /\ trans' = [trans EXCEPT ![t].state = "committed"]
      /\ ready' = Bind(ready, t, "OP_COMMITTED")
      /\ committed' = committed \cup FinalWrites(ops)
      /\ UNCHANGED <<frozen_tables, frozen_bytes, levels, cur_max_level, next_sst_id,
                     next_tranc_id, mode, job, tranc_id_file, crashes, flushed,
                     flushed_file, opening, replay>>
  BY DEF Commit, sstVars
<1>3. /\ t \notin DOMAIN ready /\ ~ Covered(t, flushed)
      /\ \A i \in Slots : t \notin MarkerIds(Slot(i))
  BY <1>1, <1>2 DEF Manager
<1>4. /\ ops \in Seq(Version) /\ c.temp_map \in Tables /\ tranc_id_file <= t
      /\ \A i \in DOMAIN ops : ops[i].key \in Keys /\ ops[i].id = t
      /\ \A v \in c.temp_map : v.key \in Keys /\ v.id = t
  BY <1>1 DEF IsContext, ContextOK
<1>5. DOMAIN c = {"level", "state", "operations", "temp_map", "rollback_map"}
  BY <1>1 DEF ContextOK
<1>6. /\ DOMAIN d = DOMAIN c /\ d.level = c.level /\ d.state = "committed"
      /\ d.operations = c.operations /\ d.temp_map = c.temp_map
      /\ d.rollback_map = c.rollback_map
  BY <1>5, SetField
<1>7. /\ trans'[t] = d /\ DOMAIN trans' = DOMAIN trans
      /\ \A u \in DOMAIN trans : u # t => trans'[u] = trans[u]
  BY <1>2
<1>8. /\ DOMAIN ready' = DOMAIN ready \cup {t} /\ ready'[t] = "OP_COMMITTED"
      /\ \A u \in DOMAIN ready : u # t /\ ready'[u] = ready[u]
  BY <1>2, <1>3 DEF Bind
<1>9. /\ wal' \in Seq(Version)
      /\ \A i \in DOMAIN wal' : \/ i \in DOMAIN wal /\ wal'[i] = wal[i]
                                \/ \E j \in DOMAIN ops : wal'[i] = ops[j]
      /\ \A i \in DOMAIN wal : i \in DOMAIN wal' /\ wal'[i] = wal[i]
      /\ \A j \in DOMAIN ops : \E i \in DOMAIN wal' : wal'[i] = ops[j]
  <2> HIDE DEF ops
  <2>1. QED
    BY <1>1, <1>2, <1>4, LogAppended
<1> HIDE DEF d
<1>10. m \in Version /\ m.key = Marker /\ m.id = t
  BY <1>1 DEF CommitMarker, Version, AllKeys
<1> HIDE DEF m
<1>11. B \in Tables /\ (\A v \in B : v.id = t) /\ MarkerIds(B) = {t}
  <2>1. B \in Tables
    <3>1. c.temp_map \subseteq Version /\ IsFiniteSet(c.temp_map)
      BY <1>4 DEF Tables
    <3>2. IsFiniteSet(B)
      BY <3>1, FS_AddElement
    <3>3. QED
      BY <1>10, <3>1, <3>2 DEF Tables
  <2>2. \A v \in B : v.id = t
    BY <1>4, <1>10
  <2>3. m \in B
    OBVIOUS
  <2> HIDE DEF B
  <2>4. QED
    BY <1>10, <2>1, <2>2, <2>3 DEF MarkerIds
<1>12. B = trans'[t].temp_map \cup {CommitMarker(t)}
  BY <1>6, <1>7 DEF m
<1>13. \A i \in DOMAIN ops : Present(ops[i], AllVersions) \/ Present(ops[i], B)
  <2>1. CASE c.level = "READ_UNCOMMITTED"
    BY <1>1, <1>2, <2>1 DEF ContextOK
  <2>2. CASE c.level # "READ_UNCOMMITTED"
    <3>1. \A i \in DOMAIN ops : Present(ops[i], c.temp_map)
      BY <1>1, <2>2 DEF ContextOK
    <3>2. QED
      BY <3>1 DEF Present
  <2>3. QED
    BY <2>1, <2>2
<1> HIDE DEF B
<1>14. StoreInv' /\ Wrote(B) /\ Shifted(0, B)
  BY <1>1, <1>2, <1>11, StorePut, PutShift
<1>15. Grown(B)
  BY <1>1, <1>2, <1>8, <1>14 DEF Grown, ReadyGrows
<1>16. /\ 0 \in Slots' /\ \A v \in B : Present(v, Slot(0)')
       /\ \A j \in Slots' : j > 0 => Slot(j)' = {} \/ (j \in Slots /\ Slot(j)' = Slot(j))
  <2>1. Slots' = Slots /\ 0 \in Slots /\ \A i \in Slots : i \in Nat /\ i + 0 = i
    BY <1>1, <1>2, SlotsAre DEF Slots
  <2>2. \A v \in B : Present(v, B)
    BY DEF Present
  <2>3. \A v \in B : Present(v, Slot(0)')
    BY <1>14, <2>2 DEF Shifted
  <2>4. ASSUME NEW j \in Slots', j > 0, Slot(j)' # {}  PROVE j \in Slots /\ Slot(j)' = Slot(j)
    <3>1. PICK i \in Slots : j = i + 0 /\ (i # 0 => Slot(j)' = Slot(i))
      BY <1>14, <2>4 DEF Shifted
    <3>2. j = i /\ i # 0
      BY <2>1, <2>4, <3>1
    <3>3. QED
      BY <3>1, <3>2
  <2>5. QED
    BY <2>1, <2>3, <2>4
<1>17. \A j \in Slots' : j > 0 => t \notin MarkerIds(Slot(j)')
  <2>1. MarkerIds({}) = {}
    BY DEF MarkerIds
  <2>2. QED
    BY <1>3, <1>16, <2>1

<1>18. TranTypeOK'
  <2>1. IsContext(d)
    BY <1>1, <1>6 DEF IsContext
  <2>2. QED
    BY <1>1, <1>2, <1>7, <1>8, <1>9, <2>1 DEF TranTypeOK
<1>19. Manager'
  <2>1. IsFiniteSet(DOMAIN ready')
    BY <1>1, <1>8, FS_AddElement DEF Manager
  <2>2. \A u \in DOMAIN ready' :
           /\ u \in DOMAIN trans'
           /\ trans'[u].state = IF ready'[u] = "ABORTED" THEN "aborted" ELSE "committed"
    BY <1>1, <1>6, <1>7, <1>8 DEF Manager
  <2>3. \A u \in DOMAIN trans' :
          u \in DOMAIN ready' \/ trans'[u].state \in {"active", "aborting"}
            => ~ Covered(u, flushed)
    BY <1>1, <1>3, <1>7, <1>8 DEF Manager
  <2>4. \A u \in MarkerIds(B) : u \in DOMAIN trans' /\ trans'[u].state = "committed"
    BY <1>6, <1>7, <1>11
  <2>5. \A u \in DOMAIN trans :
          u \in DOMAIN trans' /\ (trans[u].state = "committed" => trans'[u].state = "committed")
    BY <1>6, <1>7
  <2>6. QED
    BY <1>1, <1>15, <2>1, <2>2, <2>3, <2>4, <2>5, ManagerOn
<1>20. Contexts'
  <2>1. ASSUME NEW u \in DOMAIN trans, u # t
        PROVE  ContextOK(u, trans'[u], tranc_id_file', next_tranc_id', AllVersions')
    BY <1>7, <1>15, <2>1, ContextsTyped, ContextOn
  <2>2. ContextOK(t, c, tranc_id_file', next_tranc_id', AllVersions')
    BY <1>1, <1>15, ContextOn
  <2>3. ContextOK(t, d, tranc_id_file', next_tranc_id', AllVersions')
    <3> HIDE DEF c
    <3>1. QED
      BY <1>6, <2>2 DEF ContextOK
  <2>4. QED
    BY <1>7, <2>1, <2>3 DEF Contexts
<1>21. LogOK'
  <2>1. \A i \in DOMAIN wal' : wal'[i].key \in Keys
    BY <1>1, <1>4, <1>9 DEF LogOK
  <2>2. \A i \in DOMAIN replay' : replay'[i].key \in Keys
    BY <1>1, <1>2 DEF LogOK
  <2>3. \A i \in DOMAIN wal' : \/ \E j \in DOMAIN wal : wal'[i].id = wal[j].id
                               \/ wal'[i].id \in DOMAIN ready' /\ wal'[i].id \in MarkerIds(B)
    BY <1>4, <1>8, <1>9, <1>11
  <2>4. QED
    BY <1>15, <2>1, <2>2, <2>3, LogOn
<1>22. Durable'
  <2>1. ASSUME NEW v \in FinalWrites(ops)  PROVE v \in Version /\ Kept(v)'
    <3>1. PICK i \in DOMAIN ops : v = ops[i]
      BY DEF FinalWrites
    <3>2. v \in Version /\ v.id = t /\ Logged(v, wal')
      <4>1. v \in Version /\ v.id = t
        BY <1>4, <3>1, LogTyped
      <4>2. QED
        BY <1>9, <3>1, <4>1 DEF Logged
    <3>3. Present(v, AllVersions')
      BY <1>13, <1>15, <3>1, GrownOK
    <3>4. Present(v, DiskVersions') \/ \E j \in Slots' : Present(v, Slot(j)')
      <4>1. (DiskInv)'
        BY <1>14 DEF StoreInv
      <4>2. \A w \in MemVersions' : \E j \in Slots' : w \in Slot(j)'
        BY <4>1, SlotsHoldNext
      <4>4. PICK w \in AllVersions' : w.key = v.key /\ w.id = v.id
        BY <3>3 DEF Present
      <4>5. w \in DiskVersions' \/ \E j \in Slots' : w \in Slot(j)'
        BY <4>2 DEF AllVersions
      <4>6. QED
        BY <4>4, <4>5 DEF Present
    <3>5. ASSUME NEW j \in Slots', Present(v, Slot(j)')  PROVE Kept(v)'
      <4>1. \A i1 \in Slots' : i1 \in Nat
        <5>1. Slots' = Slots
          BY <1>2 DEF Slots
        <5>2. QED
          BY <1>1, <5>1, SlotsAre
      <4>2. \A i1 \in Slots' : i1 > j => t \notin MarkerIds(Slot(i1)')
        BY <1>17, <4>1
      <4>3. NotAhead(v.id, j)'
        BY <1>8, <3>2, <4>2 DEF NotAhead
      <4>4. ~ Covered(v.id, flushed') /\ tranc_id_file' <= v.id /\ ~ opening'
        BY <1>1, <1>2, <1>3, <1>4, <3>2
      <4>5. QED
        BY <3>2, <3>5, <4>3, <4>4 DEF Kept
    <3>6. QED
      BY <3>2, <3>4, <3>5 DEF Kept
  <2>2. \A v : Logged(v, wal) => Logged(v, wal')
    BY <1>9 DEF Logged
  <2>3. committed' \subseteq Version /\ (crashes = 0 => replay' = <<>>)
    BY <1>1, <1>2, <2>1 DEF Durable
  <2>4. QED
    BY <1>1, <1>2, <1>15, <2>1, <2>2, <2>3, DurableOn
<1>23. Fresh'
  <2>1. \A n : Hidden(n)' => Hidden(n) /\ n # t
    BY <1>6, <1>7 DEF Hidden
  <2>2. Shown(t)'
    <3>1. t < next_tranc_id'
      BY <1>1, <1>2 DEF ContextOK
    <3>2. QED
      BY <1>1, <2>1, <3>1 DEF Shown
  <2>3. \A v \in B : Shown(v.id)'
    BY <1>11, <2>2
  <2>4. crashes = 0 => \A u \in DOMAIN trans' : \A k \in DOMAIN trans'[u].rollback_map :
          \A v \in trans'[u].rollback_map[k] : Shown(v.id)
    BY <1>1, <1>6, <1>7 DEF Fresh
  <2>5. QED
    BY <1>15, <2>1, <2>3, <2>4, FreshOn

<1>24. Whole'
  <2>1. ASSUME crashes = 0, c.level # "READ_UNCOMMITTED"  PROVE Untorn(Writes(t))'
    <3>1. \A v \in AllVersions : v.id # t
      BY <1>1, <1>2, <2>1 DEF Fresh, Shown, Hidden
    <3>2. \A v \in DiskVersions' : v.id # t
      BY <1>14, <3>1 DEF Wrote, AllVersions
    <3>3. \A j \in Slots' : j > 0 => \A v \in Slot(j)' : v.id # t
      <4>1. \A i \in Slots : \A v \in Slot(i) : v \in AllVersions
        BY <1>1, SlotsAre DEF AllVersions
      <4>2. QED
        BY <1>16, <3>1, <4>1
    <3>4. \A v \in B : ~ Present(v, DiskVersions')
      BY <1>11, <3>2 DEF Present
    <3>5. \A j \in Slots' : j > 0 => \A v \in B : ~ Present(v, Slot(j)')
      BY <1>11, <3>3 DEF Present
    <3>6. Writes(t)' = B
      BY <1>12 DEF Writes, CommitMarker
    <3>7. QED
      BY <1>16, <3>4, <3>5, <3>6 DEF Untorn
  <2>2. QED
    BY <1>6, <1>7, <1>15, <2>1, WholeOn
<1>25. QED
  BY <1>14, <1>18, <1>19, <1>20, <1>21, <1>22, <1>23, <1>24 DEF TInv

-----------------------------------------------------------------------------
(* The steps of the engine.                                                *)

\* A step by which the engine may write B, and which the transactions do not see.
LEMMA EngineOn ==
  ASSUME TInv, NEW B, StoreInv', Wrote(B),
         UNCHANGED <<tranc_id_file, crashes, tranVars, committed>>,
         next_tranc_id' \in Nat, next_tranc_id <= next_tranc_id',
         opening => mode' = mode /\ next_tranc_id' = next_tranc_id,
         \A v \in B : v.key \in Keys /\ Shown(v.id)'
  PROVE  TInv'
<1>1. /\ TranTypeOK /\ Manager /\ Contexts /\ LogOK /\ Durable /\ Fresh /\ Whole
  BY DEF TInv
<1>2. /\ UNCHANGED <<trans, ready, flushed, flushed_file, wal, opening, replay, committed>>
      /\ UNCHANGED <<tranc_id_file, crashes>>
  BY DEF tranVars
<1>3. Grown(B)
  BY <1>2 DEF Grown, ReadyGrows
<1>4. TranTypeOK'
  BY <1>1, <1>2 DEF TranTypeOK
<1>5. Manager'
  <2>1. MarkerIds(B) = {}
    BY NoMarker
  <2>2. /\ IsFiniteSet(DOMAIN ready')
        /\ \A t \in DOMAIN ready' :
             /\ t \in DOMAIN trans'
             /\ trans'[t].state = IF ready'[t] = "ABORTED" THEN "aborted" ELSE "committed"
        /\ \A t \in DOMAIN trans' :
             t \in DOMAIN ready' \/ trans'[t].state \in {"active", "aborting"}
               => ~ Covered(t, flushed)
        /\ opening => DOMAIN trans' = {} /\ mode' = "open"
    BY <1>1, <1>2 DEF Manager
  <2>3. \A t \in DOMAIN trans :
          t \in DOMAIN trans' /\ (trans[t].state = "committed" => trans'[t].state = "committed")
    BY <1>2
  <2>4. QED
    BY <1>3, <2>1, <2>2, <2>3, ManagerOn
<1>6. Contexts'
  <2>1. ASSUME NEW u \in DOMAIN trans
        PROVE  ContextOK(u, trans'[u], tranc_id_file', next_tranc_id', AllVersions')
    BY <1>2, <1>3, ContextsTyped, ContextOn
  <2>2. QED
    BY <1>2, <2>1 DEF Contexts
<1>7. LogOK'
  <2>1. /\ \A i \in DOMAIN wal' : wal'[i].key \in Keys
        /\ \A i \in DOMAIN replay' : replay'[i].key \in Keys
        /\ \A i \in DOMAIN wal' : \E j \in DOMAIN wal : wal'[i].id = wal[j].id
    BY <1>1, <1>2 DEF LogOK
  <2>2. QED
    BY <1>3, <2>1, LogOn
<1>8. Durable'
  <2>1. committed' \subseteq Version /\ (crashes = 0 => replay' = <<>>)
    BY <1>1, <1>2 DEF Durable
  <2>2. QED
    BY <1>2, <1>3, <2>1, DurableOn
<1>9. Fresh'
  <2>1. \A n : Hidden(n)' => Hidden(n)
    BY <1>2 DEF Hidden
  <2>2. crashes = 0 => \A t \in DOMAIN trans' : \A k \in DOMAIN trans'[t].rollback_map :
          \A v \in trans'[t].rollback_map[k] : Shown(v.id)
    BY <1>1, <1>2 DEF Fresh
  <2>3. QED
    BY <1>3, <2>1, <2>2, FreshOn
<1>10. Whole'
  BY <1>2, <1>3, WholeOn
<1>11. QED
  BY <1>4, <1>5, <1>6, <1>7, <1>8, <1>9, <1>10 DEF TInv

\* A plain write takes an id that no transaction has.
LEMMA PlainWriteOK ==
  ASSUME TInv, NEW ks \in SUBSET Keys, NEW f \in [ks -> Values \cup {Tombstone}],
         NewTrancId, EngineWrite(Batch(f, next_tranc_id)), ~ opening,
         UNCHANGED <<tranc_id_file, crashes, tranVars, committed>>
  PROVE  TInv'
<1>0. PICK n : n = next_tranc_id
  OBVIOUS
<1> DEFINE B == Batch(f, n)
<1>1. n \in Nat /\ next_tranc_id' = n + 1 /\ StoreInv
  BY <1>0 DEF TInv, StoreInv, DiskInv, MemTyped, NewTrancId
<1>2. n + 1 \in Nat /\ n < n + 1 /\ n <= n + 1
  BY <1>1
<1>3. \A v \in B : v \in Version /\ v.key \in Keys /\ v.id = n
  BY <1>1 DEF Batch, Version, AllKeys
<1>4. B \in Tables
  BY <1>1, BatchIsTable
<1>5. Shown(n)'
  <2>1. n \notin DOMAIN trans'
    <3>1. n \in DOMAIN trans => n < n
      BY <1>0, ContextsTyped
    <3>2. QED
      BY <1>1, <3>1 DEF tranVars
  <2>2. QED
    BY <1>1, <1>2, <2>1 DEF Shown, Hidden
<1> HIDE DEF B
<1>6. StoreInv' /\ Wrote(B)
  <2>1. EngineWrite(B)
    BY <1>0 DEF B
  <2>2. QED
    BY <1>1, <1>2, <1>4, <2>1, StoreWrite
<1>7. \A v \in B : v.key \in Keys /\ Shown(v.id)'
  BY <1>3, <1>5
<1>8. QED
  BY <1>0, <1>1, <1>2, <1>6, <1>7, EngineOn

LEMMA EngineStepOK ==
  ASSUME TInv, EngineStep
  PROVE  TInv'
<1>1. /\ UNCHANGED <<tranc_id_file, crashes, tranVars, committed>>
      /\ StoreInv /\ next_tranc_id \in Nat /\ tranc_id_file \in Nat /\ crashes \in Nat
      /\ opening => mode = "open"
  BY DEF TInv, StoreInv, DiskInv, MemTyped, EngineStep, Manager
<1>2. next_tranc_id <= next_tranc_id /\ next_tranc_id <= next_tranc_id + 1 /\ next_tranc_id + 1 \in Nat
  BY <1>1
<1>3. CASE CompactBuild \/ CompactDelete \/ CompactInstall
  <2>1. StoreInv' /\ Wrote({}) /\ UNCHANGED <<next_tranc_id, mode>>
    BY <1>1, <1>3, StoreCompact
  <2>2. QED
    BY <1>1, <1>2, <2>1, EngineOn
<1>4. ASSUME UNCHANGED <<memVars, sstVars>>,
             next_tranc_id' \in {next_tranc_id, next_tranc_id + 1},
             job' = job \/ (HasRoom /\ job' = FlushEntry),
             opening => mode' = mode /\ next_tranc_id' = next_tranc_id
      PROVE  TInv'
  <2>1. next_tranc_id' \in Nat /\ next_tranc_id <= next_tranc_id'
    BY <1>1, <1>2, <1>4
  <2>2. StoreInv' /\ Wrote({})
    BY <1>1, <1>4, <2>1, StoreQuiet DEF memVars, sstVars
  <2>3. QED
    BY <1>1, <1>4, <2>1, <2>2, EngineOn
<1>5. CASE Drain \/ Drained
  BY <1>1, <1>4, <1>5 DEF Drain, Drained
<1>6. CASE Call
  <2>1. ~ opening
    BY <1>6 DEF Call, Quiet
  <2>2. CASE Read \/ Flush \/ FlushAll("draining") \/ FlushAll("closing")
    BY <1>1, <1>4, <2>1, <2>2 DEF Read, Flush, FlushAll, NewTrancId
  <2>3. ASSUME NEW ks \in SUBSET Keys \ {{}}, NEW f \in [ks -> Values], Put(f)  PROVE TInv'
    <3>1. f \in [ks -> Values \cup {Tombstone}] /\ NewTrancId
          /\ EngineWrite(Batch(f, next_tranc_id))
      BY <2>3 DEF Put
    <3>2. QED
      BY <1>1, <2>1, <3>1, PlainWriteOK
  <2>4. ASSUME NEW ks \in SUBSET Keys \ {{}}, RemoveKeys(ks)  PROVE TInv'
    <3> DEFINE f == [k \in ks |-> Tombstone]
    <3>1. f \in [ks -> Values \cup {Tombstone}]
      OBVIOUS
    <3>2. NewTrancId /\ EngineWrite(Batch(f, next_tranc_id))
      BY <2>4 DEF RemoveKeys
    <3> HIDE DEF f
    <3>3. QED
      BY <1>1, <2>1, <3>1, <3>2, PlainWriteOK
  <2>5. QED
    BY <1>6, <2>2, <2>3, <2>4 DEF Call, Request
<1>7. QED
  BY <1>3, <1>5, <1>6 DEF EngineStep

\* One record of the replay: there are no transactions yet, and no markers.
LEMMA ReplayOK ==
  ASSUME TInv, Replay
  PROVE  TInv'
<1>0. PICK h : h = Head(replay)
  OBVIOUS
<1> DEFINE B == {h}
<1>1. /\ TranTypeOK /\ Manager /\ LogOK /\ Durable /\ StoreInv /\ next_tranc_id \in Nat
      /\ replay \in Seq(Version) /\ DOMAIN trans = {} /\ DOMAIN ready = {}
  BY DEF TInv, StoreInv, DiskInv, MemTyped, TranTypeOK, Manager, Replay
<1>2. /\ opening /\ replay # <<>> /\ EngineWrite(B) /\ replay' = Tail(replay)
      /\ UNCHANGED <<next_tranc_id, tranc_id_file, crashes>>
      /\ UNCHANGED <<trans, ready, flushed, flushed_file, wal, opening, committed>>
  BY <1>0 DEF Replay
<1>3. UNCHANGED mode
  BY <1>2 DEF EngineWrite
<1>4. crashes # 0
  BY <1>1, <1>2 DEF Durable
<1>5. 1 \in DOMAIN replay /\ h = replay[1] /\ h \in Version /\ replay' \in Seq(Version)
  BY <1>0, <1>1, <1>2
<1>6. h.key \in Keys
  BY <1>1, <1>5 DEF LogOK
<1>7. /\ \A i \in DOMAIN replay' : \E j \in DOMAIN replay : replay'[i] = replay[j]
      /\ \A j \in DOMAIN replay : j = 1 \/ \E i \in DOMAIN replay' : replay'[i] = replay[j]
  <2> DEFINE n == Len(replay)
             r == Tail(replay)
  <2>1. n \in Nat /\ n # 0 /\ DOMAIN replay = 1 .. n
    BY <1>1, <1>2
  <2>2. Len(r) = n - 1 /\ r \in Seq(Version) /\ \A i \in 1 .. n - 1 : r[i] = replay[i + 1]
    BY <1>1, <1>2
  <2>3. DOMAIN r = 1 .. n - 1
    BY <2>2
  <2> HIDE DEF n, r
  <2>4. \A i \in 1 .. n - 1 : i + 1 \in 1 .. n
    BY <2>1
  <2>5. ASSUME NEW j \in 1 .. n, j # 1  PROVE \E i \in DOMAIN r : r[i] = replay[j]
    <3> DEFINE i == j - 1
    <3>1. i \in 1 .. n - 1 /\ i + 1 = j
      BY <2>1, <2>5
    <3> HIDE DEF i
    <3>2. QED
      BY <2>2, <2>3, <3>1
  <2>6. \A i \in DOMAIN r : \E j \in DOMAIN replay : r[i] = replay[j]
    BY <2>1, <2>2, <2>3, <2>4
  <2>7. r = replay'
    BY <1>2 DEF r
  <2>8. QED
    BY <2>1, <2>5, <2>6, <2>7
<1>8. B \in Tables /\ MarkerIds(B) = {}
  <2>1. \A v \in B : v.key \in Keys
    BY <1>6
  <2>2. QED
    BY <1>5, <2>1, NoMarker, FS_Singleton DEF Tables
<1> HIDE DEF B
<1>9. StoreInv' /\ Wrote(B)
  BY <1>1, <1>2, <1>8, StoreWrite
<1>10. Grown(B)
  BY <1>1, <1>2, <1>9 DEF Grown, ReadyGrows
<1>11. \A j \in Slots' : MarkerIds(Slot(j)') = {}
  BY <1>1, <1>8, <1>10, GrownOK DEF Manager
<1>12. TranTypeOK'
  BY <1>1, <1>2, <1>5 DEF TranTypeOK
<1>13. Manager'
  <2>1. IsFiniteSet(DOMAIN ready') /\ mode' = "open"
    BY <1>1, <1>2, <1>3 DEF Manager
  <2>2. QED
    BY <1>1, <1>2, <1>8, <1>10, <2>1, ManagerOn
<1>14. Contexts'
  BY <1>1, <1>2 DEF Contexts
<1>15. LogOK'
  <2>1. /\ \A i \in DOMAIN wal' : wal'[i].key \in Keys
        /\ \A i \in DOMAIN replay' : replay'[i].key \in Keys
        /\ \A i \in DOMAIN wal' : \E j \in DOMAIN wal : wal'[i].id = wal[j].id
    BY <1>1, <1>2, <1>7 DEF LogOK
  <2>2. QED
    BY <1>10, <2>1, LogOn
<1>16. Durable'
  <2>1. ASSUME NEW v, Logged(v, replay), ~ Logged(v, replay')
        PROVE  \E i \in Slots' : Present(v, Slot(i)') /\ NotAhead(v.id, i)'
    <3>1. h.key = v.key /\ h.id = v.id
      BY <1>5, <1>7, <2>1 DEF Logged
    <3>2. PICK s : Shifted(s, B)
      BY <1>9 DEF Wrote
    <3>3. Present(v, Slot(s)') /\ s \in Slots'
      <4>1. Present(v, B)
        BY <3>1 DEF Present, B
      <4>2. s \in {0, 1} /\ 0 \in Slots
        BY <1>1, <3>2, SlotsAre DEF Shifted, StoreInv
      <4>3. 0 + s \in Slots' /\ 0 + s = s
        BY <3>2, <4>2 DEF Shifted
      <4>4. QED
        BY <3>2, <4>1, <4>3 DEF Shifted
    <3>4. NotAhead(v.id, s)'
      BY <1>11 DEF NotAhead
    <3>5. QED
      BY <3>3, <3>4
  <2>2. committed' \subseteq Version
    BY <1>1, <1>2 DEF Durable
  <2>3. QED
    BY <1>2, <1>4, <1>10, <2>1, <2>2, DurableOn
<1>17. Fresh' /\ Whole'
  BY <1>2, <1>4 DEF Fresh, Whole
<1>18. QED
  BY <1>9, <1>12, <1>13, <1>14, <1>15, <1>16, <1>17 DEF TInv

\* init_new_wal: whatever was committed before is on disk or in the memtable.
LEMMA InitNewWalOK ==
  ASSUME TInv, InitNewWal
  PROVE  TInv'
<1> DEFINE p == next_tranc_id - 1
<1>1. /\ TranTypeOK /\ Manager /\ LogOK /\ Durable /\ StoreInv /\ opening /\ replay = <<>>
      /\ next_tranc_id \in Nat /\ tranc_id_file \in Nat /\ DOMAIN trans = {} /\ DOMAIN ready = {}
      /\ next_tranc_id = tranc_id_file /\ mode = "open" /\ crashes \in Nat
      /\ flushed \subseteq Nat /\ flushed # {} /\ \A n \in flushed : n < next_tranc_id
  BY DEF TInv, StoreInv, DiskInv, MemTyped, TranTypeOK, Manager, InitNewWal
<1>2. /\ UNCHANGED <<current_table, frozen_tables, frozen_bytes, levels, cur_max_level,
                     next_sst_id, next_tranc_id, mode, job, tranc_id_file, crashes>>
      /\ UNCHANGED <<trans, ready, flushed_file, replay, committed>>
      /\ opening' = FALSE /\ wal' = <<>> /\ flushed' = {p}
  BY DEF InitNewWal, crashVars, lsmVars, memVars, sstVars
<1>3. p \in Nat /\ p < next_tranc_id /\ \A n : next_tranc_id <= n /\ n \in Nat => ~ (n <= p) /\ n # p
  <2>1. \E n \in Nat : n < next_tranc_id
    BY <1>1
  <2>2. QED
    BY <1>1, <2>1
<1> HIDE DEF p
<1>4. StoreInv' /\ Wrote({})
  BY <1>1, <1>2, StoreQuiet
<1>5. /\ UNCHANGED <<DiskVersions, Slots>> /\ \A i : Slot(i)' = Slot(i)
  BY <1>2 DEF DiskVersions, LevelVersions, Slots, Slot
<1>6. \A i \in Slots : MarkerIds(Slot(i)) = {}
  BY <1>1 DEF Manager
<1>7. TranTypeOK'
  BY <1>1, <1>2, <1>3 DEF TranTypeOK
<1>8. Manager'
  <2>1. IsFiniteSet(flushed')
    BY <1>2, FS_Singleton
  <2>2. QED
    BY <1>1, <1>2, <1>3, <1>5, <1>6, <2>1 DEF Manager
<1>9. Contexts' /\ LogOK'
  BY <1>1, <1>2 DEF Contexts, LogOK
<1>10. Min({p}) = p
  <2>1. Min({p}) \in {p}
    BY <1>3, MinElement
  <2>2. QED
    BY <2>1
<1>11. Durable'
  <2>1. ASSUME NEW v \in Version, Kept(v)  PROVE Kept(v)'
    <3>1. CASE Present(v, DiskVersions)
      BY <1>5, <3>1 DEF Kept
    <3>2. CASE ~ Present(v, DiskVersions)
      <4>1. /\ tranc_id_file <= v.id /\ (crashes = 0 => FALSE) /\ v.id \in Nat
        BY <1>1, <3>2, <2>1 DEF Kept, Version
      <4>2. ~ Logged(v, replay)
        BY <1>1 DEF Logged
      <4>3. PICK i \in Slots : Present(v, Slot(i))
        BY <2>1, <3>2, <4>2 DEF Kept
      <4>4. NotAhead(v.id, i)'
        BY <1>5, <1>6 DEF NotAhead
      <4>5. ~ Covered(v.id, flushed')
        BY <1>1, <1>2, <1>3, <1>10, <4>1 DEF Covered
      <4>6. QED
        BY <1>2, <1>5, <4>1, <4>3, <4>4, <4>5 DEF Kept
    <3>3. QED
      BY <3>1, <3>2
  <2>2. QED
    BY <1>1, <1>2, <2>1 DEF Durable
<1>12. Fresh'
  <2>1. UNCHANGED AllVersions
    BY <1>2 DEF AllVersions, MemVersions, DiskVersions, LevelVersions
  <2>2. \A n : Shown(n)' <=> Shown(n)
    BY <1>2 DEF Shown, Hidden
  <2>3. QED
    BY <1>1, <1>2, <2>1, <2>2 DEF TInv, Fresh
<1>13. Whole'
  BY <1>1, <1>2 DEF Whole, In
<1>14. QED
  BY <1>4, <1>7, <1>8, <1>9, <1>11, <1>12, <1>13 DEF TInv

\* A table that goes to an SST as a whole does not tear writes apart.
LEMMA UntornDropped ==
  ASSUME DiskInv, Dropped, NEW W, Untorn(W)
  PROVE  Untorn(W)'
<1> DEFINE L == Len(frozen_tables)
<1>1. /\ DiskVersions' = DiskVersions \cup Slot(L)
      /\ \A i \in Slots : i < L => i \in Slots' /\ Slot(i)' = Slot(i)
      /\ \A j \in Slots' : Slot(j)' = {} \/ (j \in Slots /\ j < L /\ Slot(j)' = Slot(j))
  BY DEF Dropped
<1>2. L \in Nat /\ L \in Slots /\ \A i \in Slots : i \in Nat /\ i <= L
  BY SlotsAre
<1> HIDE DEF L
<1>3. CASE \A v \in W : Present(v, DiskVersions)
  BY <1>1, <1>3 DEF Untorn, Present
<1>4. ASSUME \A v \in W : ~ Present(v, DiskVersions),
             NEW i \in Slots, \A v \in W : Present(v, Slot(i)),
             \A j \in Slots : j > i => \A v \in W : ~ Present(v, Slot(j))
      PROVE  Untorn(W)'
  <2>1. CASE i = L
    BY <1>1, <1>4, <2>1 DEF Untorn, Present
  <2>2. CASE i # L
    <3>1. i < L
      BY <1>2, <2>2
    <3>2. \A v \in W : ~ Present(v, DiskVersions')
      <4>1. \A v \in W : ~ Present(v, Slot(L))
        BY <1>2, <1>4, <3>1
      <4>2. QED
        BY <1>1, <1>4, <4>1 DEF Present
    <3>3. i \in Slots' /\ \A v \in W : Present(v, Slot(i)')
      BY <1>1, <1>4, <3>1
    <3>4. \A j \in Slots' : j > i => \A v \in W : ~ Present(v, Slot(j)')
      <4>1. \A v \in W : ~ Present(v, {})
        BY DEF Present
      <4>2. QED
        BY <1>1, <1>4, <4>1
    <3>5. QED
      BY <3>2, <3>3, <3>4 DEF Untorn
  <2>3. QED
    BY <2>1, <2>2
<1>5. QED
  BY <1>3, <1>4 DEF Untorn

\* The oldest table goes to an SST and the manager learns of its markers.
LEMMA FlushOK ==
  ASSUME TInv, TranFlushLast
  PROVE  TInv'
<1> DEFINE L   == Len(frozen_tables)
           ids == MarkerIds(FlushSource)
           r   == AddAllFlushed([ready |-> ready, flushed |-> flushed], ids)
<1>1. /\ TranTypeOK /\ Manager /\ Contexts /\ LogOK /\ Durable /\ Fresh /\ Whole /\ StoreInv
      /\ DiskInv /\ next_tranc_id \in Nat /\ flushed \in SUBSET Nat /\ flushed # {}
  BY DEF TInv, StoreInv, DiskInv, MemTyped, TranTypeOK
<1>2. /\ UNCHANGED <<tranc_id_file, crashes, trans, flushed_file, wal, opening, replay, committed>>
      /\ FlushLast /\ ready' = r.ready /\ flushed' = r.flushed
  BY DEF TranFlushLast
<1>3. StoreInv' /\ Dropped /\ UNCHANGED <<next_tranc_id, mode>>
  BY <1>1, <1>2, StoreFlush
<1>4. /\ FlushSource = Slot(L) /\ DiskVersions' = DiskVersions \cup Slot(L)
      /\ \A i \in Slots : i < L => i \in Slots' /\ Slot(i)' = Slot(i)
      /\ \A j \in Slots' : Slot(j)' = {} \/ (j \in Slots /\ j < L /\ Slot(j)' = Slot(j))
  BY <1>3 DEF Dropped
<1>5. /\ L \in Nat /\ L \in Slots /\ \A i \in Slots : i \in Nat /\ i <= L /\ Slot(i) \in Tables
  BY <1>1, SlotsAre
<1> HIDE DEF L
<1>6. ids \in SUBSET Nat /\ IsFiniteSet(ids)
  <2>1. FlushSource \in Tables
    BY <1>4, <1>5
  <2>2. {v \in FlushSource : v.key = Marker} \subseteq Version
        /\ IsFiniteSet({v \in FlushSource : v.key = Marker})
    BY <2>1, FS_Subset DEF Tables
  <2> DEFINE S == {v \in FlushSource : v.key = Marker}
             g == [v \in S |-> v.id]
  <2>3. ids = {v.id : v \in S}
    BY DEF MarkerIds
  <2>4. \A v \in Version : v.id \in Nat
    BY DEF Version
  <2>5. S \subseteq Version /\ IsFiniteSet(S)
    BY <2>2
  <2> HIDE DEF S, ids
  <2>6. g \in Surjection(S, ids)
    BY <2>3 DEF Surjection
  <2>7. IsFiniteSet(ids)
    BY <2>5, <2>6, FS_Surjection
  <2>8. QED
    BY <2>3, <2>4, <2>5, <2>7
<1>7. IsFiniteSet(flushed) /\ IsFiniteSet(DOMAIN ready) /\ DOMAIN ready \subseteq Nat
      /\ \A n \in DOMAIN ready : ~ Covered(n, flushed)
  BY <1>1 DEF Manager, TranTypeOK
<1>8. Advanced(ready, flushed, ids, r)
  <2> HIDE DEF ids
  <2>1. QED
    BY <1>1, <1>6, <1>7, AddAllOK
<1>9. /\ flushed' \subseteq flushed \cup DOMAIN ready /\ flushed' # {}
      /\ DOMAIN ready' \subseteq DOMAIN ready /\ \A n \in DOMAIN ready' : ready'[n] = ready[n]
      /\ \A n \in Nat : Covered(n, flushed')
                          <=> Covered(n, flushed) \/ n \in DOMAIN ready \ DOMAIN ready'
      /\ \A n \in DOMAIN ready \ DOMAIN ready' : n \in ids \/ ready[n] = "ABORTED"
      /\ \A n \in ids : n \notin DOMAIN ready'
      /\ ids = {} => ready' = ready /\ flushed' = flushed
  <2> HIDE DEF r, ids
  <2>1. ids = {} => r.ready = ready /\ r.flushed = flushed
    BY <1>8 DEF Advanced
  <2>2. QED
    BY <1>2, <1>8, <2>1 DEF Advanced
<1>10. ids = MarkerIds(Slot(L))
  BY <1>4
<1> HIDE DEF r, ids
<1>11. AllVersions' = AllVersions
  <2>1. \A v : v \in MemVersions <=> \E i \in Slots : v \in Slot(i)
    BY <1>1, SlotsHold
  <2>2. \A v : v \in MemVersions' <=> \E i \in Slots' : v \in Slot(i)'
    BY <1>3, SlotsHoldNext DEF StoreInv
  <2>3. \A i \in Slots : i < L \/ i = L
    BY <1>5
  <2>4. \A v : v \in AllVersions' => v \in AllVersions
    <3>1. \A v : v \in DiskVersions' => v \in DiskVersions \/ v \in MemVersions
      BY <1>4, <1>5, <2>1
    <3>2. ASSUME NEW v \in MemVersions'  PROVE v \in MemVersions
      <4>1. PICK j \in Slots' : v \in Slot(j)'
        BY <2>2
      <4>2. j \in Slots /\ Slot(j)' = Slot(j)
        BY <1>4, <4>1
      <4>3. QED
        BY <2>1, <4>1, <4>2
    <3>3. QED
      BY <3>1, <3>2 DEF AllVersions
  <2>5. \A v : v \in AllVersions => v \in AllVersions'
    BY <1>4, <2>1, <2>2, <2>3 DEF AllVersions
  <2>6. QED
    BY <2>4, <2>5
<1>12. TranTypeOK'
  BY <1>1, <1>2, <1>7, <1>9 DEF TranTypeOK

<1>13. Manager'
  <2>1. IsFiniteSet(flushed') /\ IsFiniteSet(DOMAIN ready')
    <3>1. IsFiniteSet(flushed \cup DOMAIN ready)
      BY <1>7, FS_Union
    <3>2. QED
      BY <1>7, <1>9, <3>1, FS_Subset
  <2>2. \A n \in flushed' : n < next_tranc_id
    <3>1. \A n \in DOMAIN ready : n < next_tranc_id
      BY <1>1, ContextsTyped DEF Manager
    <3>2. QED
      BY <1>1, <1>9, <3>1 DEF Manager
  <2>3. \A t \in DOMAIN ready' :
          /\ t \in DOMAIN trans
          /\ trans[t].state = IF ready'[t] = "ABORTED" THEN "aborted" ELSE "committed"
    BY <1>1, <1>9 DEF Manager
  <2>4. ASSUME NEW t \in DOMAIN trans,
               t \in DOMAIN ready' \/ trans[t].state \in {"active", "aborting"}
        PROVE  ~ Covered(t, flushed')
    <3>1. t \in Nat
      BY ContextsTyped
    <3>2. ~ Covered(t, flushed) /\ t \notin DOMAIN ready \ DOMAIN ready'
      BY <1>1, <1>9, <2>4 DEF Manager
    <3>3. QED
      BY <1>9, <3>1, <3>2
  <2>5. \A j \in Slots' : \A t \in MarkerIds(Slot(j)') :
          t \in DOMAIN trans /\ trans[t].state = "committed"
    <3>1. MarkerIds({}) = {}
      BY DEF MarkerIds
    <3>2. QED
      BY <1>1, <1>4, <3>1 DEF Manager
  <2>6. QED
    BY <1>1, <1>2, <1>3, <2>1, <2>2, <2>3, <2>4, <2>5 DEF Manager
<1>14. Contexts'
  BY <1>1, <1>2, <1>3, <1>11 DEF Contexts
<1>15. LogOK'
  <2>1. ASSUME ~ opening, NEW i \in DOMAIN wal
        PROVE  \/ Covered(wal[i].id, flushed')
               \/ wal[i].id \in DOMAIN ready' /\ \E j \in Slots' : wal[i].id \in MarkerIds(Slot(j)')
    <3>1. PICK n : n = wal[i].id
      OBVIOUS
    <3>2. n \in Nat
      BY <1>1, <2>1, <3>1, LogTyped DEF TranTypeOK
    <3>3. Covered(n, flushed) \/ (n \in DOMAIN ready /\ \E j \in Slots : n \in MarkerIds(Slot(j)))
      BY <1>1, <2>1, <3>1 DEF LogOK, Marked
    <3>4. CASE Covered(n, flushed) \/ n \in DOMAIN ready \ DOMAIN ready'
      BY <1>9, <3>1, <3>2, <3>4
    <3>5. CASE n \in DOMAIN ready' /\ \E j \in Slots : n \in MarkerIds(Slot(j))
      <4>1. PICK j \in Slots : n \in MarkerIds(Slot(j))
        BY <3>5
      <4>2. j # L /\ j \in Nat /\ j <= L
        BY <1>5, <1>9, <1>10, <3>5, <4>1
      <4>3. j < L
        BY <1>5, <4>2
      <4>4. QED
        BY <1>4, <3>1, <3>5, <4>1, <4>3
    <3>6. QED
      BY <3>3, <3>4, <3>5
  <2>2. ASSUME ~ opening, NEW i \in DOMAIN wal
        PROVE  Covered(wal[i].id, flushed') \/ (wal[i].id \in DOMAIN ready' /\ Marked(wal[i].id)')
    BY <1>2, <2>1, <2>2 DEF Marked
  <2>3. QED
    BY <1>1, <1>2, <2>2 DEF LogOK
<1>16. Durable'
  <2>1. ASSUME NEW v \in Version, Kept(v)  PROVE Kept(v)'
    <3>1. CASE Present(v, DiskVersions)
      BY <1>4, <3>1 DEF Kept, Present
    <3>2. CASE ~ Present(v, DiskVersions)
      <4>1. v.id \in Nat
        BY DEF Version
      <4>2. /\ tranc_id_file' <= v.id /\ ~ Covered(v.id, flushed)
            /\ crashes' = 0 => ~ opening' /\ Logged(v, wal')
        BY <1>2, <2>1, <3>2 DEF Kept
      <4>3. CASE opening /\ Logged(v, replay)
        <5>1. DOMAIN ready = {}
          BY <1>1, <4>3 DEF Manager
        <5>2. ~ Covered(v.id, flushed')
          BY <1>9, <4>1, <4>2, <5>1
        <5>3. QED
          BY <1>2, <4>2, <4>3, <5>2 DEF Kept
      <4>4. ASSUME NEW i \in Slots, Present(v, Slot(i)), NotAhead(v.id, i)  PROVE Kept(v)'
        <5>1. CASE i = L
          BY <1>4, <4>4, <5>1 DEF Kept, Present
        <5>2. CASE i # L
          <6>1. i < L
            BY <1>5, <5>2
          <6>2. \/ ids = {}
                \/ v.id \notin ids /\ v.id \in DOMAIN ready /\ ready[v.id] = "OP_COMMITTED"
            BY <1>5, <1>10, <4>4, <6>1 DEF NotAhead
          <6>3. v.id \notin DOMAIN ready \ DOMAIN ready'
            BY <1>9, <6>2
          <6>4. ~ Covered(v.id, flushed')
            BY <1>9, <4>1, <4>2, <6>3
          <6>5. NotAhead(v.id, i)'
            <7>1. ASSUME NEW j \in Slots', j > i
                  PROVE  \/ MarkerIds(Slot(j)') = {}
                         \/ /\ v.id \notin MarkerIds(Slot(j)') /\ v.id \in DOMAIN ready'
                            /\ ready'[v.id] = "OP_COMMITTED"
              <8>1. CASE Slot(j)' = {}
                BY <8>1 DEF MarkerIds
              <8>2. CASE j \in Slots /\ Slot(j)' = Slot(j)
                <9>1. \/ MarkerIds(Slot(j)) = {}
                      \/ /\ v.id \notin MarkerIds(Slot(j)) /\ v.id \in DOMAIN ready
                         /\ ready[v.id] = "OP_COMMITTED"
                  BY <4>4, <7>1, <8>2 DEF NotAhead
                <9>2. QED
                  BY <1>9, <6>3, <8>2, <9>1
              <8>3. QED
                BY <1>4, <8>1, <8>2
            <7>2. QED
              BY <7>1 DEF NotAhead
          <6>6. i \in Slots' /\ Present(v, Slot(i)')
            BY <1>4, <4>4, <6>1
          <6>7. QED
            BY <4>2, <6>4, <6>5, <6>6 DEF Kept
        <5>3. QED
          BY <5>1, <5>2
      <4>5. QED
        BY <2>1, <3>2, <4>3, <4>4 DEF Kept
    <3>3. QED
      BY <3>1, <3>2
  <2>2. QED
    BY <1>1, <1>2, <2>1 DEF Durable
<1>17. Fresh'
  <2>1. \A n : Shown(n)' <=> Shown(n)
    BY <1>2, <1>3 DEF Shown, Hidden
  <2>2. QED
    BY <1>1, <1>2, <1>11, <2>1 DEF Fresh
<1>18. Whole'
  <2>1. ASSUME NEW t \in DOMAIN trans, Untorn(Writes(t))  PROVE Untorn(Writes(t))'
    <3>1. PICK W : W = Writes(t)
      OBVIOUS
    <3>2. Writes(t)' = W
      BY <1>2, <3>1 DEF Writes, CommitMarker
    <3>3. Untorn(W)
      BY <2>1, <3>1 DEF Untorn
    <3>4. Untorn(W)'
      BY <1>1, <1>3, <3>3, UntornDropped
    <3>5. QED
      BY <3>2, <3>4 DEF Untorn
  <2>2. QED
    BY <1>1, <1>2, <2>1 DEF Whole, In
<1>19. QED
  BY <1>3, <1>12, <1>13, <1>14, <1>15, <1>16, <1>17, <1>18 DEF TInv

-----------------------------------------------------------------------------
(* Closing, dying and opening.                                             *)

\* The start of LSM::LSM on a directory whose log and flushed ids have every committed
\* write that is not on disk.
LEMMA OpenOK ==
  ASSUME TInv, NEW log \in Seq(Version), NEW F \in SUBSET Nat, F # {}, IsFiniteSet(F),
         Open(log, F), Load([l \in Level |-> FilesAt(l)]), UNCHANGED committed,
         tranc_id_file' \in Nat, next_tranc_id' = tranc_id_file', crashes' \in Nat,
         \A n \in F : n < tranc_id_file',
         \A i \in DOMAIN log : log[i].key \in Keys,
         crashes' = 0 => Replayed(log, F) = <<>>,
         crashes' <= 1 => \A v \in committed :
           \/ Present(v, DiskVersions)
           \/ /\ crashes' # 0 /\ tranc_id_file' <= v.id
              /\ ~ Covered(v.id, F) /\ Logged(v, log),
         crashes' = 0 => \A v \in DiskVersions : v.id \in Nat /\ v.id < next_tranc_id'
  PROVE  TInv'
<1>1. StoreInv /\ Durable
  BY DEF TInv
<1>2. StoreInv' /\ Emptied /\ mode' = "open"
  BY <1>1, StoreLoad
<1>3. /\ opening' = TRUE /\ replay' = Replayed(log, F) /\ wal' = log /\ flushed' = F
      /\ flushed_file' = F /\ trans' = <<>> /\ ready' = <<>>
  BY DEF Open
<1>4. DOMAIN trans' = {} /\ DOMAIN ready' = {}
  BY <1>3
<1>5. DiskVersions' = DiskVersions /\ \A j \in Slots' : Slot(j)' = {}
  BY <1>2 DEF Emptied
<1>6. /\ replay' \in Seq(Version)
      /\ \A n \in DOMAIN replay' : \E i \in DOMAIN log : replay'[n] = log[i]
      /\ \A i \in DOMAIN log : ~ Covered(log[i].id, F) =>
           \E n \in DOMAIN replay' : replay'[n] = log[i]
  BY <1>3, ReplayedOK
<1>7. TranTypeOK'
  BY <1>3, <1>4, <1>6 DEF TranTypeOK
<1>8. Manager'
  <2>1. \A j \in Slots' : MarkerIds(Slot(j)') = {}
    BY <1>5 DEF MarkerIds
  <2>2. IsFiniteSet(DOMAIN ready')
    BY <1>4, FS_EmptySet
  <2>3. tranc_id_file' <= next_tranc_id'
    OBVIOUS
  <2>4. QED
    BY <1>2, <1>3, <1>4, <2>1, <2>2, <2>3 DEF Manager
<1>9. Contexts'
  BY <1>4 DEF Contexts
<1>10. LogOK'
  BY <1>3, <1>6 DEF LogOK
<1>11. Durable'
  <2>1. ASSUME crashes' <= 1, NEW v \in committed  PROVE Kept(v)'
    <3>1. CASE Present(v, DiskVersions)
      BY <1>5, <3>1 DEF Kept
    <3>2. CASE /\ crashes' # 0 /\ tranc_id_file' <= v.id
               /\ ~ Covered(v.id, F) /\ Logged(v, log)
      <4>1. Logged(v, replay')
        BY <1>6, <3>2 DEF Logged
      <4>2. QED
        BY <1>3, <3>2, <4>1 DEF Kept
    <3>3. QED
      BY <2>1, <3>1, <3>2
  <2>2. QED
    BY <1>1, <1>3, <2>1 DEF Durable
<1>12. Fresh'
  <2>1. \A v \in AllVersions' : v \in DiskVersions
    BY <1>2, <1>5, SlotsHoldNext DEF AllVersions, StoreInv
  <2>2. \A n : n \in Nat /\ n < next_tranc_id' => Shown(n)'
    BY <1>4 DEF Shown, Hidden
  <2>3. QED
    BY <1>4, <2>1, <2>2 DEF Fresh
<1>13. Whole'
  BY <1>4 DEF Whole, In
<1>14. QED
  BY <1>2, <1>7, <1>8, <1>9, <1>10, <1>11, <1>12, <1>13 DEF TInv

\* A close leaves nothing in the memtable, so that every transaction in the log counts
\* as flushed.
LEMMA CloseOK ==
  ASSUME TInv, TranReopen
  PROVE  /\ ~ opening /\ \A i \in Slots : Slot(i) = {}
         /\ Replayed(wal, flushed) = <<>>
<1>1. /\ Manager /\ LogOK /\ DiskInv /\ Sized /\ current_table \in Tables
      /\ wal \in Seq(Version) /\ flushed \in SUBSET Nat /\ flushed # {}
  BY DEF TInv, StoreInv, DiskInv, MemTyped, TranTypeOK
<1>2. TotalSize = 0 /\ mode = "closing"
  BY DEF TranReopen, Reopen
<1>3. MemVersions = {}
  BY <1>1, <1>2, EmptyMemtable
<1>4. ~ opening
  BY <1>1, <1>2 DEF Manager
<1>5. \A i \in Slots : Slot(i) = {}
  BY <1>1, <1>3, SlotsHold
<1>6. \A i \in DOMAIN wal : Covered(wal[i].id, flushed)
  <2>1. MarkerIds({}) = {}
    BY DEF MarkerIds
  <2>2. \A n : ~ Marked(n)
    BY <1>5, <2>1 DEF Marked
  <2>3. QED
    BY <1>1, <1>4, <2>2 DEF LogOK
<1>7. QED
  BY <1>1, <1>4, <1>5, <1>6, ReplayedOK

LEMMA ReopenOK ==
  ASSUME TInv, TranReopen
  PROVE  TInv'
<1>1. /\ Manager /\ LogOK /\ Durable /\ Fresh /\ next_tranc_id \in Nat /\ crashes \in Nat
      /\ wal \in Seq(Version) /\ flushed \in SUBSET Nat /\ flushed # {} /\ IsFiniteSet(flushed)
      /\ \A n \in flushed : n < next_tranc_id
  BY DEF TInv, StoreInv, DiskInv, MemTyped, TranTypeOK, Manager
<1>2. /\ Load([l \in Level |-> FilesAt(l)]) /\ Open(wal, flushed)
      /\ tranc_id_file' = next_tranc_id /\ UNCHANGED <<next_tranc_id, crashes, committed>>
  BY DEF TranReopen, Reopen
<1>3. ~ opening /\ (\A i \in Slots : Slot(i) = {}) /\ Replayed(wal, flushed) = <<>>
  BY CloseOK
<1>4. crashes <= 1 => \A v \in committed : Present(v, DiskVersions)
  <2>1. \A v : ~ Present(v, {})
    BY DEF Present
  <2>2. QED
    BY <1>1, <1>3, <2>1 DEF Durable, Kept
<1>5. crashes = 0 => \A v \in DiskVersions : v.id \in Nat /\ v.id < next_tranc_id
  BY <1>1 DEF Fresh, Shown, AllVersions
<1>6. \A i \in DOMAIN wal : wal[i].key \in Keys
  BY <1>1 DEF LogOK
<1>7. /\ tranc_id_file' \in Nat /\ next_tranc_id' = tranc_id_file' /\ crashes' \in Nat
      /\ \A n \in flushed : n < tranc_id_file'
      /\ crashes' = 0 => Replayed(wal, flushed) = <<>>
      /\ crashes' <= 1 => \A v \in committed : Present(v, DiskVersions)
      /\ crashes' = 0 => \A v \in DiskVersions : v.id \in Nat /\ v.id < next_tranc_id'
  BY <1>1, <1>2, <1>3, <1>4, <1>5
<1>8. QED
  BY <1>1, <1>2, <1>6, <1>7, OpenOK

\* The process dies, with a log that has all the records of wal.
LEMMA CrashOK ==
  ASSUME TInv, Crash, NEW log \in Seq(Version), Open(log, flushed_file), UNCHANGED committed,
         \A i \in DOMAIN log : log[i].key \in Keys,
         \A v : Logged(v, wal) => Logged(v, log)
  PROVE  TInv'
<1>1. /\ Manager /\ Durable /\ tranc_id_file \in Nat /\ crashes \in Nat
      /\ flushed_file \in SUBSET Nat /\ IsFiniteSet(flushed_file)
      /\ \A n \in flushed_file : n < tranc_id_file
  BY DEF TInv, StoreInv, DiskInv, MemTyped, TranTypeOK, Manager
<1>2. /\ Load([l \in Level |-> FilesAt(l)]) /\ tranc_id_file # 0
      /\ next_tranc_id' = tranc_id_file /\ crashes' = crashes + 1 /\ UNCHANGED tranc_id_file
  BY DEF Crash
<1>3. flushed_file # {}
  BY <1>1, <1>2 DEF Manager
<1>4. crashes' \in Nat /\ crashes' # 0 /\ (crashes' <= 1 => crashes = 0)
  BY <1>1, <1>2
<1>5. ASSUME NEW v \in committed, crashes = 0, ~ Present(v, DiskVersions)
      PROVE  tranc_id_file <= v.id /\ ~ Covered(v.id, flushed_file) /\ Logged(v, log)
  <2>1. Kept(v) /\ v \in Version /\ v.id \in Nat
    BY <1>1, <1>5 DEF Durable, Version
  <2>2. tranc_id_file <= v.id /\ Logged(v, wal)
    BY <1>5, <2>1 DEF Kept
  <2>3. Min(flushed_file) \in flushed_file
    BY <1>1, <1>3, MinElement
  <2>4. \A n \in flushed_file : n \in Nat /\ n < v.id
    BY <1>1, <2>1, <2>2
  <2>5. Min(flushed_file) \in Nat /\ Min(flushed_file) < v.id
    BY <2>3, <2>4
  <2>6. v.id \notin flushed_file /\ ~ (v.id <= Min(flushed_file))
    BY <2>1, <2>4, <2>5
  <2>7. QED
    BY <2>2, <2>6 DEF Covered
<1>6. crashes' <= 1 => \A v \in committed :
        \/ Present(v, DiskVersions)
        \/ /\ crashes' # 0 /\ tranc_id_file' <= v.id
           /\ ~ Covered(v.id, flushed_file) /\ Logged(v, log)
  BY <1>2, <1>4, <1>5
<1>7. /\ tranc_id_file' \in Nat /\ next_tranc_id' = tranc_id_file'
      /\ \A n \in flushed_file : n < tranc_id_file'
  BY <1>1, <1>2
<1>8. QED
  BY <1>1, <1>2, <1>3, <1>4, <1>6, <1>7, OpenOK

LEMMA DieOK ==
  ASSUME TInv, Die
  PROVE  TInv'
<1>1. wal \in Seq(Version) /\ \A i \in DOMAIN wal : wal[i].key \in Keys
  BY DEF TInv, TranTypeOK, LogOK
<1>2. QED
  BY <1>1, CrashOK DEF Die

\* A part of a commit's records in the log does no harm to what was committed.
LEMMA DieInCommitOK ==
  ASSUME TInv, NEW t \in DOMAIN trans, DieInCommit(t)
  PROVE  TInv'
<1> DEFINE ops == trans[t].operations
<1>1. /\ wal \in Seq(Version) /\ \A i \in DOMAIN wal : wal[i].key \in Keys
  BY DEF TInv, TranTypeOK, LogOK
<1>2. ops \in Seq(Version) /\ \A i \in DOMAIN ops : ops[i].key \in Keys
  BY ContextsTyped DEF IsContext, ContextOK
<1> HIDE DEF ops
<1>3. PICK n \in 1 .. Len(ops) : Open(wal \o SubSeq(ops, 1, n), flushed_file)
  BY DEF DieInCommit, ops
<1>4. PICK part : part = SubSeq(ops, 1, n)
  OBVIOUS
<1>5. /\ part \in Seq(Version) /\ \A i \in DOMAIN part : i \in DOMAIN ops /\ part[i] = ops[i]
  <2>1. n \in Nat /\ n <= Len(ops) /\ Len(ops) \in Nat /\ DOMAIN ops = 1 .. Len(ops)
    BY <1>2
  <2>2. SubSeq(ops, 1, n) \in Seq(Version) /\ Len(SubSeq(ops, 1, n)) = n
    BY <1>2, <2>1
  <2>3. \A i \in 1 .. n : SubSeq(ops, 1, n)[i] = ops[i]
    BY <1>2, <2>1
  <2>4. DOMAIN part = 1 .. n
    BY <1>4, <2>2
  <2>5. QED
    BY <1>4, <2>1, <2>2, <2>3, <2>4
<1>6. PICK log : log = wal \o part
  OBVIOUS
<1>7. /\ log \in Seq(Version)
      /\ \A i \in DOMAIN log : \/ i \in DOMAIN wal /\ log[i] = wal[i]
                               \/ \E j \in DOMAIN part : log[i] = part[j]
      /\ \A i \in DOMAIN wal : i \in DOMAIN log /\ log[i] = wal[i]
  BY <1>1, <1>5, <1>6, LogAppended
<1>8. \A i \in DOMAIN log : log[i].key \in Keys
  BY <1>1, <1>2, <1>5, <1>7
<1>9. \A v : Logged(v, wal) => Logged(v, log)
  BY <1>7 DEF Logged
<1>10. Crash /\ Open(log, flushed_file) /\ UNCHANGED committed
  BY <1>3, <1>4, <1>6 DEF DieInCommit
<1>11. QED
  BY <1>7, <1>8, <1>9, <1>10, CrashOK

-----------------------------------------------------------------------------
(* The theorems.                                                           *)

\* A new store satisfies the invariant.
LEMMA TranInitOK == TranInit => TInv
<1> SUFFICES ASSUME TranInit  PROVE TInv
  OBVIOUS
<1>1. /\ CrashInit /\ Init /\ trans = <<>> /\ ready = <<>> /\ flushed = {0} /\ flushed_file = {}
      /\ wal = <<>> /\ opening = FALSE /\ replay = <<>> /\ committed = {}
      /\ current_table = {} /\ frozen_tables = <<>> /\ next_tranc_id = 1
      /\ tranc_id_file = 0 /\ crashes = 0
  BY DEF TranInit, CrashInit, Init
<1>2. StoreInv
  BY <1>1, CrashInitOK, InitOK DEF StoreInv, IInv, TypeOK, Sized
<1>3. DOMAIN trans = {} /\ DOMAIN ready = {} /\ DOMAIN wal = {} /\ DOMAIN replay = {}
  BY <1>1
<1>4. MemVersions = {} /\ AllVersions = {}
  <2>1. \A l \in Level : levels[l] = <<>>
    BY <1>1 DEF Init
  <2>2. MemVersions = {} /\ DiskVersions = {}
    BY <1>1, <2>1 DEF MemVersions, DiskVersions, LevelVersions
  <2>3. QED
    BY <2>2 DEF AllVersions
<1>5. \A i \in Slots : MarkerIds(Slot(i)) = {}
  BY <1>2, <1>4, SlotsHold DEF StoreInv, MarkerIds
<1>6. TranTypeOK
  <2>1. wal \in Seq(Version) /\ replay \in Seq(Version)
    BY <1>1
  <2>2. flushed \subseteq Nat /\ flushed # {} /\ flushed_file \subseteq Nat
    BY <1>1
  <2>3. opening \in BOOLEAN
    BY <1>1
  <2>4. QED
    BY <1>3, <2>1, <2>2, <2>3 DEF TranTypeOK
<1>7. Manager
  <2>1. IsFiniteSet(flushed) /\ IsFiniteSet(DOMAIN ready) /\ IsFiniteSet(flushed_file)
    BY <1>1, <1>3, FS_EmptySet, FS_Singleton
  <2>2. tranc_id_file <= next_tranc_id /\ \A n \in flushed : n < next_tranc_id
    BY <1>1
  <2>3. QED
    BY <1>1, <1>3, <1>5, <2>1, <2>2 DEF Manager
<1>8. Contexts /\ LogOK /\ Durable /\ Fresh /\ Whole
  BY <1>1, <1>3, <1>4 DEF Contexts, LogOK, Durable, Fresh, Whole, In
<1>9. QED
  BY <1>2, <1>6, <1>7, <1>8 DEF TInv

\* Every step of a transaction, of the engine, of the recovery, and every crash keeps the
\* invariant.
LEMMA TranStepOK == TInv /\ [TranNext]_allVars => TInv'
<1> SUFFICES ASSUME TInv, [TranNext]_allVars  PROVE TInv'
  OBVIOUS
<1>1. CASE TranNext
  <2>1. ASSUME NEW t \in DOMAIN trans,
               \/ \E k \in Keys : \/ \E x \in Values \cup {Tombstone} : TranWrite(t, k, x)
                                  \/ Rollback(t, k)
               \/ Commit(t) \/ CommitConflict(t) \/ Abort(t) \/ AbortDone(t) \/ DieInCommit(t)
        PROVE  TInv'
    BY <2>1, TranWriteOK, RollbackOK, CommitOK, EndOK, DieInCommitOK
  <2>2. QED
    BY <1>1, <2>1, BeginOK, FlushOK, EngineStepOK, ReopenOK, DieOK, ReplayOK, InitNewWalOK
       DEF TranNext
<1>2. CASE UNCHANGED allVars
  <2>1. /\ UNCHANGED <<current_table, frozen_tables, frozen_bytes, levels, cur_max_level,
                       next_sst_id, next_tranc_id, mode, job, tranc_id_file, crashes>>
        /\ UNCHANGED <<tranVars, committed>>
    BY <1>2 DEF allVars, crashVars, lsmVars, memVars, sstVars
  <2>2. next_tranc_id \in Nat /\ tranc_id_file \in Nat /\ StoreInv
    BY DEF TInv, StoreInv, DiskInv, MemTyped
  <2>3. StoreInv' /\ Wrote({})
    BY <2>1, <2>2, StoreQuiet
  <2>4. QED
    BY <2>1, <2>2, <2>3, EngineOn
<1>3. QED
  BY <1>1, <1>2

\* The invariant of transactions, log and recovery holds in every state, whatever the
\* interleaving of transactions, plain calls, flushes and crashes.
THEOREM TranInvariance == TranSpec => []TInv
BY TranInitOK, TranStepOK, PTL DEF TranSpec

\* The state of TranManager, of every TranContext and of the log is well-typed in every
\* reachable state; in particular the set of flushed ids that compressSet reduces
\* never becomes empty.
THEOREM TransactionsTyped == TranSpec => []TranTypeOK
<1>1. TInv => TranTypeOK
  BY DEF TInv
<1>2. QED
  BY <1>1, TranInvariance, PTL

\* A store that was closed properly has nothing to replay when LSM::LSM opens it again:
\* WAL::recover finds no record whose transaction does not count as flushed.
THEOREM CleanOpens == TranSpec => CleanOpenReplaysNothing
<1>1. TInv /\ [TranNext]_allVars => [TranReopen => replay' = <<>>]_allVars
  <2> SUFFICES ASSUME TInv, TranReopen  PROVE replay' = <<>>
    OBVIOUS
  <2>1. Replayed(wal, flushed) = <<>>
    BY CloseOK
  <2>2. QED
    BY <2>1 DEF TranReopen, Open
<1>2. QED
  BY <1>1, TranInvariance, PTL DEF TranSpec, CleanOpenReplaysNothing

\* Up to the second crash no write of a transaction whose commit() returned true is lost,
\* through flushes, compactions, closes and the replay after the first crash.
THEOREM CommitsSurvive == TranSpec => [](crashes <= 1 => CommittedKept)
<1>1. TInv => (crashes <= 1 => CommittedKept)
  <2> SUFFICES ASSUME TInv, crashes <= 1, ~ opening, NEW v \in committed
               PROVE  Present(v, AllVersions)
    BY DEF CommittedKept
  <2>1. Kept(v) /\ DiskInv
    BY DEF TInv, StoreInv, Durable
  <2>2. Present(v, DiskVersions) \/ \E i \in Slots : Present(v, Slot(i))
    BY <2>1 DEF Kept
  <2>3. \A i \in Slots : Slot(i) \subseteq AllVersions
    BY <2>1, SlotsHold DEF AllVersions
  <2>4. QED
    BY <2>2, <2>3 DEF Present, AllVersions
<1>2. QED
  BY <1>1, TranInvariance, PTL

\* Up to the second crash every committed write that recovery would skip, because
\* flushedTrancIds_ has its id or only larger ones, is in an SST file.
THEOREM SkippedAreOnDisk == TranSpec => [](crashes <= 1 => FlushedIdsOnDisk)
<1>1. TInv => (crashes <= 1 => FlushedIdsOnDisk)
  <2> SUFFICES ASSUME TInv, crashes <= 1, NEW v \in committed, Covered(v.id, flushed)
               PROVE  Present(v, FileVersions)
    BY DEF FlushedIdsOnDisk, Covered
  <2>1. Kept(v) /\ DiskInv
    BY DEF TInv, StoreInv, Durable
  <2>2. Present(v, DiskVersions)
    BY <2>1 DEF Kept
  <2>3. QED
    BY <2>1, <2>2, FilesHoldAll
<1>2. QED
  BY <1>1, TranInvariance, PTL

\* Without a crash the writes of a transaction that writes at commit, and its marker,
\* are all in SST files or none of them is.
THEOREM CommitsStayWhole == TranSpec => [](crashes = 0 => FlushedWhole)
<1>1. TInv => (crashes = 0 => FlushedWhole)
  <2> SUFFICES ASSUME TInv, crashes = 0, NEW t \in In("committed"),
                      trans[t].level # "READ_UNCOMMITTED"
               PROVE  \/ \A v \in Writes(t) : Present(v, FileVersions)
                      \/ \A v \in Writes(t) : ~ Present(v, FileVersions)
    BY DEF FlushedWhole, Writes
  <2>1. Untorn(Writes(t)) /\ DiskInv
    BY DEF TInv, StoreInv, Whole
  <2>2. QED
    BY <2>1, FilesHoldAll DEF Untorn
<1>2. QED
  BY <1>1, TranInvariance, PTL

\* Whatever key and id a reader asks with, LSMEngine::get does not find a write of a
\* transaction that writes at commit and has not committed, also while
\* read-uncommitted transactions write and roll back beside it.
THEOREM ReadsAreClean == TranSpec => [](crashes = 0 => NoDirtyReads)
<1>1. TInv => (crashes = 0 => NoDirtyReads)
  <2> SUFFICES ASSUME TInv, crashes = 0, NEW k \in Keys, NEW q \in 0 .. next_tranc_id,
                      NEW v \in Find(k, q)
               PROVE  ~ Hidden(v.id)
    BY DEF NoDirtyReads, Hidden
  <2>1. v \in AllVersions
    BY FindFrom DEF TInv
  <2>2. QED
    BY <2>1 DEF TInv, Fresh, Shown
<1>2. QED
  BY <1>1, TranInvariance, PTL

-----------------------------------------------------------------------------
(* Conflicts.                                                              *)

\* Writes that are not older than anything in the memtable go in front.
LEMMA RecentOn ==
  ASSUME DiskInv, Recent, NEW B, Wrote(B), UNCHANGED crashes,
         crashes = 0 => \A v \in B, w \in MemVersions :
           v.key = w.key => w.id <= v.id \/ v.key = Marker
  PROVE  Recent'
<1>1. PICK s : Shifted(s, B)
  BY DEF Wrote
<1> SUFFICES ASSUME crashes = 0, NEW i \in Slots', NEW j \in Slots', i < j,
                    NEW v \in Slot(i)', NEW w \in Slot(j)', v.key = w.key
             PROVE  w.id <= v.id \/ v.key = Marker
  BY DEF Recent
<1>2. PICK m \in Slots : /\ i = m + s /\ (m # 0 => Slot(i)' = Slot(m))
                         /\ m = 0 => Slot(i)' \subseteq Slot(0) \cup B
  BY <1>1 DEF Shifted
<1>3. PICK n \in Slots : j = n + s /\ (n # 0 => Slot(j)' = Slot(n))
  BY <1>1 DEF Shifted
<1>4. m < n /\ n # 0
  <2>1. m \in Nat /\ n \in Nat /\ s \in {0, 1}
    BY <1>1, SlotsAre DEF Shifted
  <2>2. QED
    BY <1>2, <1>3, <2>1
<1>5. w \in Slot(n) /\ w \in MemVersions
  BY <1>3, <1>4, SlotsHold
<1>6. CASE v \in Slot(m)
  BY <1>4, <1>5, <1>6 DEF Recent
<1>7. CASE v \in B
  BY <1>5, <1>7
<1>8. QED
  BY <1>2, <1>6, <1>7

\* A step that leaves the memtable alone.
LEMMA RecentQuiet ==
  ASSUME Recent, UNCHANGED <<current_table, frozen_tables, crashes>>
  PROVE  Recent'
<1>1. UNCHANGED Slots /\ \A i : Slot(i)' = Slot(i)
  BY DEF Slots, Slot
<1>2. QED
  BY <1>1 DEF Recent

\* The oldest table is gone, or all of them.
LEMMA RecentLess ==
  ASSUME Recent, UNCHANGED crashes,
         \A j \in Slots' : Slot(j)' = {} \/ (j \in Slots /\ Slot(j)' = Slot(j))
  PROVE  Recent'
BY DEF Recent

\* A commit that passes its check finds nothing newer in the memtable: the first slot
\* that has a version of a key has the newest one.
LEMMA NothingNewer ==
  ASSUME TInv, Recent, crashes = 0, NEW t \in DOMAIN trans, trans[t].level \in Checked,
         ~ Conflict(t), NEW v \in MemVersions, v.key \in KeysOf(trans[t].temp_map)
  PROVE  v.id <= t
<1> DEFINE k == v.key
<1>1. DiskInv /\ Fresh /\ t \in Nat /\ next_tranc_id \in Nat
  BY ContextsTyped DEF TInv, StoreInv, DiskInv, MemTyped
<1>2. \A w \in MemGet(k, 0) : ~ (w.id > t)
  BY DEF Conflict
<1>3. k \in Keys /\ k # Marker
  <2>1. \A w \in trans[t].temp_map : w.key \in Keys
    BY ContextsTyped DEF ContextOK
  <2>2. k \in Keys
    BY <2>1 DEF KeysOf
  <2>3. QED
    BY <2>2, KeysAssumption DEF Marker
<1>4. \A i \in Slots : /\ i \in Nat /\ Slot(i) \in SUBSET Version
                       /\ \A w \in Slot(i) : w.id \in Nat /\ w.id <= next_tranc_id
  <2>1. \A i \in Slots : i \in Nat /\ Slot(i) \in Tables /\ \A w \in Slot(i) : w \in AllVersions
    BY <1>1, SlotsAre DEF AllVersions
  <2>2. \A w \in AllVersions : w.id \in Nat /\ w.id <= next_tranc_id
    BY <1>1 DEF Fresh, Shown
  <2>3. QED
    BY <2>1, <2>2 DEF Tables
<1>5. PICK j \in Slots : v \in Slot(j)
  BY <1>1, SlotsHold
<1>6. TableGet(Slot(j), k, 0) # {}
  <2>1. v \in VisibleTo(Slot(j), k, 0)
    BY <1>5 DEF VisibleTo
  <2>2. QED
    BY <1>1, <1>4, <2>1, FindsVisible
<1>7. PICK i \in Slots : /\ MemGet(k, 0) = TableGet(Slot(i), k, 0) /\ MemGet(k, 0) # {}
                         /\ \A m \in Slots : m < i => TableGet(Slot(m), k, 0) = {}
  BY <1>1, <1>6, MemGetFrom
<1>8. i = j \/ i < j
  BY <1>4, <1>6, <1>7
<1>9. PICK w \in MemGet(k, 0) : TRUE
  BY <1>7
<1>10. w \in Slot(i) /\ w.key = k /\ \A x \in Slot(i) : x.key = k => x.id <= w.id
  BY <1>7, <1>9 DEF TableGet, VisibleTo
<1>11. w.id \in Nat /\ w.id <= t /\ v.id \in Nat
  BY <1>1, <1>2, <1>4, <1>5, <1>9, <1>10
<1>12. v.id <= w.id
  <2>1. CASE i = j
    BY <1>5, <1>10, <2>1
  <2>2. CASE i < j
    BY <1>3, <1>5, <1>10, <2>2 DEF Recent
  <2>3. QED
    BY <1>8, <2>1, <2>2
<1>13. QED
  BY <1>1, <1>11, <1>12

\* Where every transaction checks for conflicts, each step keeps the newer versions in
\* front: a commit by its check, a plain call by its id.
LEMMA RecentStep ==
  ASSUME Isolation \subseteq Checked
  PROVE  TInv /\ Recent /\ [TranNext]_allVars => Recent'
<1> SUFFICES ASSUME TInv, Recent, [TranNext]_allVars  PROVE Recent'
  OBVIOUS
<1>1. /\ StoreInv /\ DiskInv /\ Fresh /\ Durable /\ next_tranc_id \in Nat /\ tranc_id_file \in Nat
      /\ crashes \in Nat
  BY DEF TInv, StoreInv, DiskInv, MemTyped
<1>2. \A t \in DOMAIN trans : /\ trans[t].level \in Checked /\ trans[t].level # "READ_UNCOMMITTED"
                              /\ trans[t].state # "aborting"
  <2>1. "READ_UNCOMMITTED" \notin Checked
    BY DEF Checked
  <2>2. \A t \in DOMAIN trans : trans[t].level \in Isolation
    BY ContextsTyped DEF IsContext
  <2>3. \A t \in DOMAIN trans : trans[t].level # "READ_UNCOMMITTED" => trans[t].state # "aborting"
    BY ContextsTyped DEF ContextOK
  <2>4. QED
    BY <2>1, <2>2, <2>3
<1>3. ASSUME UNCHANGED <<current_table, frozen_tables, crashes>>  PROVE Recent'
  BY <1>3, RecentQuiet
<1>4. ASSUME NEW l \in Isolation, Begin(l)  PROVE Recent'
  BY <1>3, <1>4 DEF Begin, memVars
<1>5. ASSUME NEW t \in DOMAIN trans, NEW k \in Keys, NEW x \in Values \cup {Tombstone},
             TranWrite(t, k, x)
      PROVE  Recent'
  BY <1>2, <1>3, <1>5 DEF TranWrite, lsmVars, memVars
<1>6. ASSUME NEW t \in DOMAIN trans, NEW k \in Keys, Rollback(t, k)  PROVE FALSE
  BY <1>2, <1>6 DEF Rollback
<1>7. ASSUME NEW t \in DOMAIN trans, CommitConflict(t) \/ Abort(t) \/ AbortDone(t)  PROVE Recent'
  BY <1>3, <1>7 DEF CommitConflict, Abort, AbortDone, crashVars, lsmVars, memVars
<1>8. ASSUME NEW t \in DOMAIN trans, Commit(t)  PROVE Recent'
  <2>1. PICK B : B = trans[t].temp_map \cup {CommitMarker(t)}
    OBVIOUS
  <2>2. /\ ~ Conflict(t) /\ current_table' = TablePut(current_table, B)
        /\ UNCHANGED <<frozen_tables, levels, crashes>>
    BY <1>8, <2>1 DEF Commit, sstVars
  <2>3. Wrote(B)
    <3>1. Shifted(0, B)
      BY <1>1, <2>2, PutShift
    <3>2. DiskVersions' = DiskVersions
      BY <2>2 DEF DiskVersions, LevelVersions
    <3>3. QED
      BY <3>1, <3>2 DEF Wrote
  <2>4. ASSUME crashes = 0, NEW v \in B, NEW w \in MemVersions, v.key = w.key
        PROVE  w.id <= v.id \/ v.key = Marker
    <3>1. CASE v = CommitMarker(t)
      BY <3>1 DEF CommitMarker
    <3>2. CASE v \in trans[t].temp_map
      <4>1. v.id = t
        BY <3>2, ContextsTyped DEF ContextOK
      <4>2. w.key \in KeysOf(trans[t].temp_map)
        BY <2>4, <3>2 DEF KeysOf
      <4>3. QED
        BY <1>2, <2>2, <2>4, <4>1, <4>2, NothingNewer
    <3>3. QED
      BY <2>1, <3>1, <3>2
  <2>5. QED
    BY <1>1, <2>2, <2>3, <2>4, RecentOn

<1>9. CASE TranFlushLast
  <2>1. Dropped /\ UNCHANGED crashes
    BY <1>1, <1>9, StoreFlush DEF TranFlushLast
  <2>2. QED
    BY <2>1, RecentLess DEF Dropped
<1>10. ASSUME Load([l \in Level |-> FilesAt(l)])  PROVE Recent'
  <2>1. Len(frozen_tables') = 0
    BY <1>10 DEF Load
  <2>2. \A i, j \in Slots' : ~ (i < j)
    BY <2>1 DEF Slots
  <2>3. QED
    BY <2>2 DEF Recent
<1>11. CASE TranReopen \/ Die \/ \E t \in DOMAIN trans : DieInCommit(t)
  BY <1>10, <1>11 DEF TranReopen, Reopen, Die, DieInCommit, Crash
<1>12. CASE Replay
  <2>1. crashes # 0 /\ UNCHANGED crashes
    BY <1>1, <1>12 DEF Replay, Durable
  <2>2. QED
    BY <2>1 DEF Recent
<1>13. CASE InitNewWal
  BY <1>3, <1>13 DEF InitNewWal, crashVars, lsmVars, memVars
<1>14. ASSUME NEW f, EngineWrite(Batch(f, next_tranc_id)), Batch(f, next_tranc_id) \in Tables,
              NewTrancId, UNCHANGED <<tranc_id_file, crashes>>
       PROVE  Recent'
  <2>1. PICK B : B = Batch(f, next_tranc_id)
    OBVIOUS
  <2>2. next_tranc_id' \in Nat
    BY <1>1, <1>14 DEF NewTrancId
  <2>3. Wrote(B)
    BY <1>1, <1>14, <2>1, <2>2, StoreWrite
  <2>4. \A v \in B : v.id = next_tranc_id
    BY <2>1 DEF Batch
  <2>5. crashes = 0 => \A w \in MemVersions : w.id \in Nat /\ w.id < next_tranc_id
    BY <1>1 DEF Fresh, Shown, AllVersions
  <2>6. crashes = 0 => \A w \in MemVersions : w.id <= next_tranc_id
    BY <1>1, <2>5
  <2>7. QED
    BY <1>1, <1>14, <2>3, <2>4, <2>6, RecentOn
<1>15. CASE EngineStep
  <2>1. UNCHANGED <<tranc_id_file, crashes>>
    BY <1>15 DEF EngineStep
  <2>2. CASE Drain \/ Drained \/ CompactBuild \/ CompactDelete \/ CompactInstall
    BY <1>3, <2>1, <2>2 DEF Drain, Drained, CompactBuild, CompactDelete, CompactInstall, memVars
  <2>3. CASE Read \/ Flush \/ FlushAll("draining") \/ FlushAll("closing")
    BY <1>3, <2>1, <2>3 DEF Read, Flush, FlushAll, memVars
  <2>4. ASSUME NEW ks \in SUBSET Keys \ {{}}, NEW f \in [ks -> Values], Put(f)  PROVE Recent'
    <3>1. f \in [ks -> Values \cup {Tombstone}]
      OBVIOUS
    <3>2. Batch(f, next_tranc_id) \in Tables
      BY <1>1, <3>1, BatchIsTable
    <3>3. QED
      BY <1>14, <2>1, <2>4, <3>2 DEF Put
  <2>5. ASSUME NEW ks \in SUBSET Keys \ {{}}, RemoveKeys(ks)  PROVE Recent'
    <3> DEFINE f == [k \in ks |-> Tombstone]
    <3>1. f \in [ks -> Values \cup {Tombstone}]
      OBVIOUS
    <3>2. NewTrancId /\ EngineWrite(Batch(f, next_tranc_id))
      BY <2>5 DEF RemoveKeys
    <3> HIDE DEF f
    <3>3. Batch(f, next_tranc_id) \in Tables
      BY <1>1, <3>1, BatchIsTable
    <3>4. QED
      BY <1>14, <2>1, <3>2, <3>3
  <2>6. QED
    BY <1>15, <2>2, <2>3, <2>4, <2>5 DEF EngineStep, Call, Request
<1>16. CASE UNCHANGED allVars
  BY <1>3, <1>16 DEF allVars, crashVars, lsmVars, memVars
<1>17. CASE \E t \in DOMAIN trans :
              \/ \E k \in Keys : \/ \E x \in Values \cup {Tombstone} : TranWrite(t, k, x)
                                 \/ Rollback(t, k)
              \/ Commit(t) \/ CommitConflict(t) \/ Abort(t) \/ AbortDone(t) \/ DieInCommit(t)
  BY <1>5, <1>6, <1>7, <1>8, <1>11, <1>17
<1>18. QED
  BY <1>4, <1>9, <1>11, <1>12, <1>13, <1>15, <1>16, <1>17 DEF TranNext

\* No other step makes an active transaction a committed one.
LEMMA OnlyCommit ==
  ASSUME TInv, TranNext, NEW t \in DOMAIN trans, trans[t].state = "active",
         t \in DOMAIN trans', trans'[t].state = "committed"
  PROVE  Commit(t)
<1> DEFINE c == trans[t]
<1>1. DOMAIN c = {"level", "state", "operations", "temp_map", "rollback_map"}
  BY ContextsTyped DEF ContextOK
<1>2. trans' # trans
  OBVIOUS
<1>3. ASSUME NEW l \in Isolation, Begin(l)  PROVE FALSE
  <2>1. trans'[t] = IF t = next_tranc_id THEN NewContext(l) ELSE c
    BY <1>3 DEF Begin, Bind
  <2>2. NewContext(l).state = "active"
    BY DEF NewContext
  <2>3. QED
    BY <2>1, <2>2
<1>4. ASSUME NEW u \in DOMAIN trans, NEW k \in Keys, NEW x \in Values \cup {Tombstone},
             TranWrite(u, k, x)
      PROVE  FALSE
  <2>1. CASE u # t
    BY <2>1, <1>4 DEF TranWrite
  <2>2. CASE u = t
    <3>1. trans'[t].state = trans[t].state
      BY <1>4, <2>2, WriteSets
    <3>2. QED
      BY <3>1
  <2>3. QED
    BY <2>1, <2>2
<1>5. ASSUME NEW u \in DOMAIN trans, NEW k \in Keys, Rollback(u, k)  PROVE FALSE
  BY <1>5 DEF Rollback
<1>6. ASSUME NEW u \in DOMAIN trans, NEW x, x # "committed", trans' = [trans EXCEPT ![u].state = x]
      PROVE  FALSE
  <2>1. CASE u # t
    BY <1>6, <2>1
  <2>2. CASE u = t
    BY <1>1, <1>6, <2>2, SetField
  <2>3. QED
    BY <2>1, <2>2
<1>7. ASSUME NEW u \in DOMAIN trans, CommitConflict(u) \/ Abort(u) \/ AbortDone(u)  PROVE FALSE
  BY <1>6, <1>7 DEF CommitConflict, Abort, AbortDone
<1>8. ASSUME NEW u \in DOMAIN trans, Commit(u)  PROVE u = t
  BY <1>8 DEF Commit
<1>9. ASSUME trans' = <<>>  PROVE FALSE
  BY <1>9
<1>10. ASSUME TranReopen \/ Die \/ \E u \in DOMAIN trans : DieInCommit(u)  PROVE FALSE
  BY <1>9, <1>10 DEF TranReopen, Die, DieInCommit, Open
<1>11. ASSUME TranFlushLast \/ EngineStep \/ Replay \/ InitNewWal  PROVE FALSE
  BY <1>2, <1>11 DEF TranFlushLast, EngineStep, Replay, InitNewWal, tranVars
<1>12. QED
  BY <1>3, <1>4, <1>5, <1>7, <1>8, <1>10, <1>11 DEF TranNext

\* Where every transaction checks for conflicts, and as long as the process has not died,
\* a commit() that returns true found no newer write of its keys in the memtable, and
\* there was none: the one lookup of MemTable::get, which stops at the first table with
\* the key, sees every later transaction and plain call.
THEOREM ConflictsSeen ==
  ASSUME Isolation \subseteq Checked
  PROVE  TranSpec /\ [](crashes = 0) => ConflictSeenInMemory
<1> DEFINE Seen == \A t \in In("active") :
             t \in DOMAIN trans' /\ trans'[t].state = "committed" /\ trans[t].level \in Checked
               => \A v \in MemVersions : v.key \in KeysOf(trans[t].temp_map) => v.id <= t
<1>1. TranInit => Recent
  <2> SUFFICES ASSUME TranInit  PROVE Recent
    OBVIOUS
  <2>1. Len(frozen_tables) = 0
    BY DEF TranInit, CrashInit, Init
  <2>2. \A i, j \in Slots : ~ (i < j)
    BY <2>1 DEF Slots
  <2>3. QED
    BY <2>2 DEF Recent
<1>2. TInv /\ Recent /\ [TranNext]_allVars => Recent'
  BY RecentStep
<1>3. TInv /\ Recent /\ crashes = 0 /\ [TranNext]_allVars => [Seen]_allVars
  <2> SUFFICES ASSUME TInv, Recent, crashes = 0, TranNext, NEW t \in DOMAIN trans,
                      trans[t].state = "active", t \in DOMAIN trans',
                      trans'[t].state = "committed", trans[t].level \in Checked,
                      NEW v \in MemVersions, v.key \in KeysOf(trans[t].temp_map)
               PROVE  v.id <= t
    BY DEF In
  <2>1. ~ Conflict(t)
    BY OnlyCommit DEF Commit
  <2>2. QED
    BY <2>1, NothingNewer
<1>4. QED
  BY <1>1, <1>2, <1>3, TranInvariance, PTL DEF TranSpec, ConflictSeenInMemory
=============================================================================
