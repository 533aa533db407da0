------------------------ MODULE MemTableLocksProofs ------------------------
(***************************************************************************)
(* Proof that a reader misses no acknowledged version while one writer     *)
(* moves tables under it: for every number of readers, every size limit    *)
(* and both kinds of shared_mutex.                                         *)
(*                                                                         *)
(* The argument: the places a version passes through are ordered (current, *)
(* frozen, being written, listed), the versions in an earlier place are    *)
(* newer, and the version a read must not miss is never in a place the     *)
(* reader has left behind.                                                 *)
(***************************************************************************)
EXTENDS MemTableLocks, NumberFacts

-----------------------------------------------------------------------------
(* The inductive invariant.                                                *)

\* There is at most one writer.
OneWriter == \A t, u \in Writers : t = u

TakenVersions == UNION {taken[t] : t \in Threads}
Stored == current_table \cup FrozenVersions \cup TakenVersions \cup ssts

\* All versions in S are newer than all in T.
Newer(S, T) == \A v \in S, u \in T : v > u

LTypeOK ==
  /\ next_tranc_id \in Nat
  /\ current_table \in SUBSET Nat
  /\ frozen_tables \in Seq(SUBSET Nat)
  /\ ssts \in SUBSET Nat
  /\ acked \in SUBSET Nat
  /\ DOMAIN pc = Threads
  /\ id \in [Threads -> Nat]
  /\ taken \in [Threads -> SUBSET Nat]
  /\ low \in [Threads -> Nat]
  /\ answer \in [Threads -> Nat]

\* The places are in the order of their versions.
PlacesOrdered ==
  /\ Newer(current_table, FrozenVersions \cup TakenVersions \cup ssts)
  /\ Newer(FrozenVersions, TakenVersions \cup ssts)
  /\ \A i, j \in DOMAIN frozen_tables : i < j => Newer(frozen_tables[i], frozen_tables[j])

\* What the writer has put is stored, and what it is about to put is newer.
WriterOK ==
  /\ stale = {}
  /\ acked \subseteq Stored
  /\ \A v \in Stored : v < next_tranc_id
  /\ \A t \in Threads : taken[t] # {} => t \in Writers /\ At(t, "install")
  /\ \A w \in Writers :
       /\ id[w] < next_tranc_id
       /\ \A v \in Stored : v <= id[w] /\ (pc[w] \in {"put", "insert"} => v < id[w])
       /\ pc[w] \notin {"idle", "put", "insert"} => id[w] \in Stored

\* Where the version is that a read must not miss.
ReadersOK ==
  \A t \in Readers :
    /\ pc[t] \in {"idle", "read_cur", "read_frozen", "read_ssts"}
    /\ ~At(t, "idle") => low[t] <= id[t]
    /\ At(t, "read_cur")    => low[t] \in Stored \cup {0}
    /\ At(t, "read_frozen") => low[t] \in FrozenVersions \cup TakenVersions \cup ssts \cup {0}
    /\ At(t, "read_ssts")   => low[t] \in TakenVersions \cup ssts \cup {0}

LInv == LTypeOK /\ PlacesOrdered /\ WriterOK /\ ReadersOK

-----------------------------------------------------------------------------
(* Locks and places.                                                       *)

\* While a reader has ssts_mtx, no flush is between taking a table and listing it.
LEMMA SharedSsts ==
  ASSUME CanShare("ssts"), NEW t \in Threads
  PROVE  pc[t] # "install"
BY DEF CanShare, HoldsX

\* A table in front of the frozen ones.
LEMMA InFront ==
  ASSUME NEW T \in SUBSET Nat, NEW s \in Seq(SUBSET Nat)
  PROVE  /\ <<T>> \o s \in Seq(SUBSET Nat)
         /\ DOMAIN (<<T>> \o s) = 1 .. Len(s) + 1
         /\ (<<T>> \o s)[1] = T
         /\ \A i \in 2 .. Len(s) + 1 : i - 1 \in DOMAIN s /\ (<<T>> \o s)[i] = s[i - 1]
OBVIOUS

\* The frozen tables without the oldest.
LEMMA WithoutLast ==
  ASSUME NEW s \in Seq(SUBSET Nat), s # <<>>
  PROVE  /\ Front(s) \in Seq(SUBSET Nat)
         /\ DOMAIN Front(s) = 1 .. Len(s) - 1
         /\ \A i \in 1 .. Len(s) - 1 : Front(s)[i] = s[i]
         /\ Len(s) \in DOMAIN s /\ Last(s) = s[Len(s)]
         /\ DOMAIN s = 1 .. Len(s)
BY DEF Front, Last

\* Versions are numbers.
LEMMA StoredNat ==
  ASSUME LTypeOK
  PROVE  Stored \subseteq Nat
<1>1. FrozenVersions \subseteq Nat
  BY DEF LTypeOK, FrozenVersions
<1>2. TakenVersions \subseteq Nat
  BY DEF LTypeOK, TakenVersions
<1>3. QED
  BY <1>1, <1>2 DEF LTypeOK, Stored

\* Versions move on, never back: the readers stay right.
LEMMA ReadersKeep ==
  ASSUME LInv, Stored \subseteq Stored',
         FrozenVersions \cup TakenVersions \cup ssts
           \subseteq FrozenVersions' \cup TakenVersions' \cup ssts',
         TakenVersions \cup ssts \subseteq TakenVersions' \cup ssts',
         \A t \in Readers : pc'[t] = pc[t] /\ id'[t] = id[t],
         low' = low
  PROVE  ReadersOK'
BY DEF LInv, ReadersOK, At

\* A step that leaves the tables alone.
LEMMA SamePlaces ==
  ASSUME LInv, UNCHANGED <<tables, taken>>
  PROVE  /\ FrozenVersions' = FrozenVersions /\ TakenVersions' = TakenVersions
         /\ Stored' = Stored /\ PlacesOrdered'
BY DEF tables, FrozenVersions, TakenVersions, Stored, PlacesOrdered, Newer, LInv

-----------------------------------------------------------------------------
(* The steps of the writer.                                                *)

\* The writer's steps that only take and release locks, and the return of put.
LEMMA QuietOK ==
  ASSUME LInv, NEW w \in Writers, OneWriter,
         UNCHANGED <<tables, next_tranc_id, id, taken, stale, reads>>,
         NEW p, pc' = [pc EXCEPT ![w] = p],
         pc[w] \notin {"idle", "install"}, p = "insert" => pc[w] = "put",
         p # "put", pc[w] \in {"put", "insert"} => p = "insert",
         acked' = acked \/ (acked' = acked \cup {id[w]} /\ pc[w] \notin {"put", "insert"})
  PROVE  LInv'
<1>1. /\ FrozenVersions' = FrozenVersions /\ TakenVersions' = TakenVersions
      /\ Stored' = Stored /\ PlacesOrdered'
  BY SamePlaces
<1>2. /\ DOMAIN pc = Threads /\ w \in Threads /\ \A t \in Threads \ {w} : pc'[t] = pc[t]
      /\ pc'[w] = p
  BY DEF LInv, LTypeOK, Threads
<1>3. w \notin Readers /\ Writers \cup Readers = Threads
  BY LocksAssumption DEF Threads
<1>4. id[w] \in Nat /\ (acked' # acked => id[w] \in Stored)
  BY <1>2 DEF LInv, LTypeOK, WriterOK
<1>5. LTypeOK'
  BY <1>2, <1>4 DEF LInv, LTypeOK, tables, reads
<1>6. ReadersOK'
  <2>1. \A t \in Readers : pc'[t] = pc[t] /\ id'[t] = id[t]
    BY <1>2, <1>3
  <2>2. low' = low /\ ssts' = ssts
    BY DEF reads, tables
  <2>3. QED
    BY <1>1, <2>1, <2>2, ReadersKeep
<1>7. acked' \subseteq Stored'
  BY <1>1, <1>4 DEF LInv, WriterOK
<1>8. \A t \in Threads : taken'[t] # {} => t \in Writers /\ pc'[t] = "install"
  <2>1. taken[w] = {}
    BY <1>2 DEF LInv, WriterOK, At
  <2>2. QED
    BY <1>2, <2>1 DEF LInv, WriterOK, At
<1>9. \A u \in Writers :
        /\ id'[u] < next_tranc_id'
        /\ \A v \in Stored' : v <= id'[u] /\ (pc'[u] \in {"put", "insert"} => v < id'[u])
        /\ pc'[u] \notin {"idle", "put", "insert"} => id'[u] \in Stored'
  BY <1>1, <1>2 DEF LInv, WriterOK, OneWriter
<1>10. WriterOK'
  BY <1>1, <1>7, <1>8, <1>9 DEF LInv, WriterOK, At
<1>11. QED
  BY <1>1, <1>5, <1>6, <1>10 DEF LInv

\* LSM::put draws a new id.
LEMMA CallOK ==
  ASSUME LInv, NEW w \in Writers, OneWriter, Call(w)
  PROVE  LInv'
<1>1. /\ FrozenVersions' = FrozenVersions /\ TakenVersions' = TakenVersions
      /\ Stored' = Stored /\ PlacesOrdered'
  BY SamePlaces DEF Call
<1>2. /\ w \in Threads /\ w \notin Readers /\ Writers \cup Readers = Threads
      /\ pc[w] = "idle" /\ pc' = [pc EXCEPT ![w] = "put"]
      /\ id' = [id EXCEPT ![w] = next_tranc_id] /\ next_tranc_id' = next_tranc_id + 1
      /\ UNCHANGED <<tables, taken, stale, acked, reads>>
  BY LocksAssumption DEF Call, Goto, At, Threads
<1>3. LTypeOK'
  BY <1>2 DEF LInv, LTypeOK, tables, reads
<1>4. ReadersOK'
  <2>1. \A t \in Readers : pc'[t] = pc[t] /\ id'[t] = id[t]
    BY <1>2 DEF LInv, LTypeOK
  <2>2. low' = low /\ ssts' = ssts
    BY <1>2 DEF reads, tables
  <2>3. QED
    BY <1>1, <2>1, <2>2, ReadersKeep
<1>5. WriterOK'
  <2>1. \A t \in Threads : taken'[t] # {} => t \in Writers /\ pc'[t] = "install"
    BY <1>2 DEF LInv, LTypeOK, WriterOK, At
  <2>2. \A v \in Stored' : v \in Nat /\ v < next_tranc_id
    BY <1>1, StoredNat DEF LInv, WriterOK
  <2>3. \A u \in Writers : u = w /\ pc'[u] = "put" /\ id'[u] = next_tranc_id
    BY <1>2 DEF LInv, LTypeOK, OneWriter
  <2>4. next_tranc_id \in Nat
    BY DEF LInv, LTypeOK
  <2>5. stale' = {} /\ acked' \subseteq Stored'
    BY <1>1, <1>2 DEF LInv, WriterOK
  <2>6. QED
    BY <1>2, <2>1, <2>2, <2>3, <2>4, <2>5 DEF WriterOK, At
<1>6. QED
  BY <1>1, <1>3, <1>4, <1>5 DEF LInv

\* The insertion makes the current table newer.
LEMMA InsertOK ==
  ASSUME LInv, NEW w \in Writers, OneWriter, PutInsert(w)
  PROVE  LInv'
<1>1. /\ w \in Threads /\ w \notin Readers /\ Writers \cup Readers = Threads
      /\ pc[w] = "insert" /\ current_table' = current_table \cup {id[w]}
      /\ stale' = {}
      /\ UNCHANGED <<frozen_tables, ssts, next_tranc_id, id, taken, acked, reads>>
  BY LocksAssumption DEF PutInsert, At, Threads, LInv, WriterOK
<1>2. PICK p \in {"freeze", "put_size"} : pc' = [pc EXCEPT ![w] = p]
  BY DEF PutInsert, Goto
<1>3. FrozenVersions' = FrozenVersions /\ TakenVersions' = TakenVersions
  BY <1>1 DEF FrozenVersions, TakenVersions
<1>4. Stored' = Stored \cup {id[w]}
  BY <1>1, <1>3 DEF Stored
<1>5. id[w] \in Nat /\ \A v \in Stored : v < id[w]
  BY <1>1 DEF LInv, LTypeOK, WriterOK
<1>6. LTypeOK'
  BY <1>1, <1>2, <1>5 DEF LInv, LTypeOK, reads
<1>7. PlacesOrdered'
  <2>1. Newer(current_table', FrozenVersions' \cup TakenVersions' \cup ssts')
    <3>1. \A u \in FrozenVersions \cup TakenVersions \cup ssts : id[w] > u
      <4>1. \A u \in FrozenVersions \cup TakenVersions \cup ssts : u \in Stored
        BY DEF Stored
      <4>2. QED
        BY <1>5, <4>1
    <3>2. QED
      BY <1>1, <1>3, <3>1 DEF LInv, PlacesOrdered, Newer
  <2>2. QED
    BY <1>1, <1>3, <2>1 DEF LInv, PlacesOrdered, Newer
<1>8. ReadersOK'
  <2>1. \A t \in Readers : pc'[t] = pc[t] /\ id'[t] = id[t]
    BY <1>1, <1>2 DEF LInv, LTypeOK
  <2>2. low' = low
    BY <1>1 DEF reads
  <2>3. QED
    BY <1>1, <1>3, <1>4, <2>1, <2>2, ReadersKeep
<1>9. WriterOK'
  <2>1. \A t \in Threads : taken'[t] # {} => t \in Writers /\ pc'[t] = "install"
    BY <1>1, <1>2 DEF LInv, LTypeOK, WriterOK, At
  <2>2. \A u \in Writers : u = w /\ pc'[u] \in {"freeze", "put_size"} /\ id'[u] = id[w]
    BY <1>1, <1>2 DEF LInv, LTypeOK, OneWriter
  <2>3. id[w] < next_tranc_id
    BY DEF LInv, WriterOK
  <2>4. \A v \in Stored' : v <= id[w] /\ v < next_tranc_id'
    <3>1. \A v \in Stored : v <= id[w] /\ v < next_tranc_id
      BY DEF LInv, WriterOK
    <3>2. QED
      BY <1>1, <1>4, <1>5, <2>3, <3>1
  <2>5. acked' \subseteq Stored' /\ id[w] \in Stored'
    BY <1>1, <1>4 DEF LInv, WriterOK
  <2>6. QED
    BY <1>1, <2>1, <2>2, <2>3, <2>4, <2>5 DEF WriterOK, At
<1>10. QED
  BY <1>6, <1>7, <1>8, <1>9 DEF LInv

\* A freeze, and the two steps of a flush, move versions to the next place.
LEMMA MoveOK ==
  ASSUME LInv, NEW w \in Writers, OneWriter,
         LTypeOK', PlacesOrdered', Stored' = Stored,
         FrozenVersions \cup TakenVersions \cup ssts
           \subseteq FrozenVersions' \cup TakenVersions' \cup ssts',
         TakenVersions \cup ssts \subseteq TakenVersions' \cup ssts',
         NEW p, pc' = [pc EXCEPT ![w] = p], p \notin {"put", "insert"},
         pc[w] \notin {"idle", "put", "insert"},
         acked' = acked \/ acked' = acked \cup {id[w]},
         stale' = {}, id' = id, next_tranc_id' = next_tranc_id, low' = low,
         \A t \in Threads \ {w} : taken'[t] = taken[t],
         taken'[w] = {} \/ p = "install"
  PROVE  LInv'
<1>1. w \in Threads /\ w \notin Readers /\ Writers \cup Readers = Threads
  BY LocksAssumption DEF Threads
<1>2. pc'[w] = p /\ \A t \in Threads \ {w} : pc'[t] = pc[t]
  BY <1>1 DEF LInv, LTypeOK
<1>3. ReadersOK'
  <2>1. \A t \in Readers : pc'[t] = pc[t] /\ id'[t] = id[t]
    BY <1>1, <1>2
  <2>2. QED
    BY <2>1, ReadersKeep
<1>4. id[w] \in Stored
  BY DEF LInv, WriterOK
<1>5. \A t \in Threads : taken'[t] # {} => t \in Writers /\ pc'[t] = "install"
  BY <1>1, <1>2 DEF LInv, WriterOK, At
<1>6. \A u \in Writers : u = w
  BY DEF OneWriter
<1>7. WriterOK'
  BY <1>2, <1>4, <1>5, <1>6 DEF LInv, WriterOK, At
<1>8. QED
  BY <1>3, <1>7 DEF LInv

\* frozen_cur_table_: the current table becomes the first of the frozen ones.
LEMMA FreezeOK ==
  ASSUME LInv, NEW w \in Writers, OneWriter, PutFreeze(w)
  PROVE  LInv'
<1>1. /\ pc[w] = "freeze" /\ pc' = [pc EXCEPT ![w] = "put_size"]
      /\ frozen_tables' = <<current_table>> \o frozen_tables /\ current_table' = {}
      /\ UNCHANGED <<ssts, next_tranc_id, id, taken, stale, acked, reads>>
  BY DEF PutFreeze, At, Goto
<1>2. current_table \in SUBSET Nat /\ frozen_tables \in Seq(SUBSET Nat)
  BY DEF LInv, LTypeOK
<1>3. /\ frozen_tables' \in Seq(SUBSET Nat)
      /\ DOMAIN frozen_tables' = 1 .. Len(frozen_tables) + 1
      /\ frozen_tables'[1] = current_table
      /\ \A i \in 2 .. Len(frozen_tables) + 1 :
           i - 1 \in DOMAIN frozen_tables /\ frozen_tables'[i] = frozen_tables[i - 1]
      /\ DOMAIN frozen_tables = 1 .. Len(frozen_tables) /\ Len(frozen_tables) \in Nat
  BY <1>1, <1>2, InFront
<1>4. FrozenVersions' = FrozenVersions \cup current_table
  <2>1. ASSUME NEW i \in DOMAIN frozen_tables'
        PROVE  frozen_tables'[i] \subseteq FrozenVersions \cup current_table
    <3>1. i = 1 \/ i \in 2 .. Len(frozen_tables) + 1
      BY <1>3
    <3>2. QED
      BY <1>3, <3>1 DEF FrozenVersions
  <2>2. current_table \subseteq FrozenVersions'
    <3>1. 1 \in DOMAIN frozen_tables'
      BY <1>3
    <3>2. QED
      BY <1>3, <3>1 DEF FrozenVersions
  <2>3. ASSUME NEW i \in DOMAIN frozen_tables  PROVE frozen_tables[i] \subseteq FrozenVersions'
    <3>1. i + 1 \in DOMAIN frozen_tables' /\ frozen_tables'[i + 1] = frozen_tables[i]
      BY <1>3
    <3>2. QED
      BY <3>1 DEF FrozenVersions
  <2>4. QED
    BY <2>1, <2>2, <2>3 DEF FrozenVersions
<1>5. TakenVersions' = TakenVersions
  BY <1>1 DEF TakenVersions
<1>6. Stored' = Stored
  BY <1>1, <1>4, <1>5 DEF Stored
<1>7. LTypeOK'
  BY <1>1, <1>3 DEF LInv, LTypeOK, reads
<1>8. PlacesOrdered'
  <2>1. \A i \in DOMAIN frozen_tables : frozen_tables[i] \subseteq FrozenVersions
    BY DEF FrozenVersions
  <2>2. ASSUME NEW i \in DOMAIN frozen_tables', NEW j \in DOMAIN frozen_tables', i < j
        PROVE  Newer(frozen_tables'[i], frozen_tables'[j])
    <3>1. j - 1 \in DOMAIN frozen_tables /\ frozen_tables'[j] = frozen_tables[j - 1]
      BY <1>3, <2>2
    <3>2. CASE i = 1
      BY <1>3, <2>1, <3>1, <3>2 DEF LInv, PlacesOrdered, Newer
    <3>3. CASE i # 1
      <4>1. i - 1 \in DOMAIN frozen_tables /\ frozen_tables'[i] = frozen_tables[i - 1] /\ i - 1 < j - 1
        BY <1>3, <2>2, <3>3
      <4>2. QED
        BY <3>1, <4>1 DEF LInv, PlacesOrdered
    <3>4. QED
      BY <3>2, <3>3
  <2>3. Newer(FrozenVersions', TakenVersions' \cup ssts')
    BY <1>1, <1>4, <1>5 DEF LInv, PlacesOrdered, Newer
  <2>4. QED
    BY <1>1, <2>2, <2>3 DEF PlacesOrdered, Newer
<1>9. stale' = {} /\ low' = low
  BY <1>1 DEF LInv, WriterOK, reads
<1>10. taken'[w] = {}
  BY <1>1 DEF LInv, WriterOK, At, Threads
<1>11. QED
  BY <1>1, <1>4, <1>5, <1>6, <1>7, <1>8, <1>9, <1>10, MoveOK

\* flush_last takes the oldest frozen table, or the current one.
LEMMA TakeOK ==
  ASSUME LInv, NEW w \in Writers, OneWriter, FlushTake(w)
  PROVE  LInv'
<1>1. /\ pc[w] = "take" /\ w \in Threads
      /\ UNCHANGED <<ssts, next_tranc_id, id, acked, reads>>
  BY DEF FlushTake, At, Threads
<1>2. stale' = {}
  <2>1. \A u \in Writers : ~At(u, "insert")
    BY <1>1 DEF OneWriter, At
  <2>2. QED
    BY <2>1 DEF FlushTake, LInv, WriterOK
<1>3. low' = low /\ ssts' = ssts
  BY <1>1 DEF reads
<1>4. \A t \in Threads : taken[t] = {}
  BY <1>1 DEF LInv, WriterOK, At, OneWriter
<1>5. TakenVersions = {}
  BY <1>4 DEF TakenVersions
<1>6. taken \in [Threads -> SUBSET Nat]
  BY DEF LInv, LTypeOK
<1>7. ASSUME NEW S \in SUBSET Nat, taken' = [taken EXCEPT ![w] = S]
      PROVE  /\ TakenVersions' = S /\ taken'[w] = S
             /\ \A t \in Threads \ {w} : taken'[t] = taken[t]
             /\ taken' \in [Threads -> SUBSET Nat]
  <2>1. taken'[w] = S /\ \A t \in Threads \ {w} : taken'[t] = {}
    BY <1>1, <1>4, <1>6, <1>7
  <2>2. TakenVersions' = S
    BY <1>1, <2>1 DEF TakenVersions
  <2>3. QED
    BY <1>4, <1>6, <1>7, <2>1, <2>2
<1>8. CASE frozen_tables # <<>>
  <2> DEFINE old == Last(frozen_tables)
             n == Len(frozen_tables)
  <2>1. /\ taken' = [taken EXCEPT ![w] = old] /\ frozen_tables' = Front(frozen_tables)
        /\ current_table' = current_table
    BY <1>8 DEF FlushTake
  <2>p. PICK p \in {"install"} : pc' = [pc EXCEPT ![w] = p]
    BY <1>8 DEF FlushTake, Goto
  <2>2. frozen_tables \in Seq(SUBSET Nat) /\ n \in Nat
    BY DEF LInv, LTypeOK
  <2>3. /\ frozen_tables' \in Seq(SUBSET Nat)
        /\ DOMAIN frozen_tables' = 1 .. n - 1
        /\ \A i \in 1 .. n - 1 : frozen_tables'[i] = frozen_tables[i]
        /\ n \in DOMAIN frozen_tables /\ old = frozen_tables[n]
        /\ DOMAIN frozen_tables = 1 .. n
    BY <1>8, <2>1, <2>2, WithoutLast
  <2> HIDE DEF old, n
  <2>4. old \in SUBSET Nat
    BY <2>2, <2>3
  <2>5. TakenVersions' = old /\ taken' \in [Threads -> SUBSET Nat]
        /\ \A t \in Threads \ {w} : taken'[t] = taken[t]
    BY <1>7, <2>1, <2>4
  <2>6. FrozenVersions = FrozenVersions' \cup old
    <3>1. \A i \in 1 .. n : i = n \/ i \in 1 .. n - 1
      BY <2>2
    <3>2. \A i \in 1 .. n - 1 : i \in 1 .. n
      BY <2>2
    <3>3. \A v : v \in FrozenVersions <=> \E i \in 1 .. n : v \in frozen_tables[i]
      BY <2>3 DEF FrozenVersions
    <3>4. \A v : v \in FrozenVersions' <=> \E i \in 1 .. n - 1 : v \in frozen_tables[i]
      BY <2>3 DEF FrozenVersions
    <3>5. QED
      BY <2>3, <3>1, <3>2, <3>3, <3>4
  <2>7. Stored' = Stored
    BY <1>3, <1>5, <2>1, <2>5, <2>6 DEF Stored
  <2>8. LTypeOK'
    BY <1>1, <2>p, <2>1, <2>3, <2>5 DEF LInv, LTypeOK, reads
  <2>9. PlacesOrdered'
    <3>1. Newer(current_table', FrozenVersions' \cup TakenVersions' \cup ssts')
      BY <1>3, <2>1, <2>5, <2>6 DEF LInv, PlacesOrdered, Newer
    <3>2. \A i, j \in DOMAIN frozen_tables' : i < j => Newer(frozen_tables'[i], frozen_tables'[j])
      <4>1. \A i \in 1 .. n - 1 : i \in 1 .. n
        BY <2>2
      <4>2. QED
        BY <2>3, <4>1 DEF LInv, PlacesOrdered
    <3>3. Newer(FrozenVersions', old)
      <4>1. ASSUME NEW v \in FrozenVersions', NEW u \in old  PROVE v > u
        <5>1. PICK i \in 1 .. n - 1 : v \in frozen_tables[i]
          BY <2>3 DEF FrozenVersions
        <5>2. i < n /\ i \in DOMAIN frozen_tables
          BY <2>2, <2>3
        <5>3. Newer(frozen_tables[i], frozen_tables[n])
          BY <2>3, <5>2 DEF LInv, PlacesOrdered
        <5>4. QED
          BY <2>3, <5>1, <5>3 DEF Newer
      <4>2. QED
        BY <4>1 DEF Newer
    <3>4. Newer(FrozenVersions', ssts')
      BY <1>3, <2>6 DEF LInv, PlacesOrdered, Newer
    <3>5. QED
      BY <2>5, <3>1, <3>2, <3>3, <3>4 DEF PlacesOrdered, Newer
  <2>10. QED
    BY <1>1, <1>2, <1>3, <1>5, <2>p, <2>1, <2>5, <2>6, <2>7, <2>8, <2>9, MoveOK
<1>9. CASE frozen_tables = <<>>
  <2>1. /\ taken' = [taken EXCEPT ![w] = current_table] /\ frozen_tables' = frozen_tables
        /\ current_table' = {}
    BY <1>9 DEF FlushTake
  <2>2. PICK p \in {"null_sst", "install"} : /\ pc' = [pc EXCEPT ![w] = p]
                                             /\ p = "install" \/ current_table = {}
    BY <1>9 DEF FlushTake, Goto
  <2>3. current_table \in SUBSET Nat
    BY DEF LInv, LTypeOK
  <2>4. /\ TakenVersions' = current_table /\ taken' \in [Threads -> SUBSET Nat]
        /\ taken'[w] = current_table
        /\ \A t \in Threads \ {w} : taken'[t] = taken[t]
    BY <1>7, <2>1, <2>3
  <2>5. FrozenVersions' = {} /\ FrozenVersions = {}
    BY <1>9, <2>1 DEF FrozenVersions
  <2>6. Stored' = Stored
    BY <1>3, <1>5, <2>1, <2>4, <2>5 DEF Stored
  <2>7. LTypeOK'
    BY <1>1, <2>1, <2>2, <2>4 DEF LInv, LTypeOK, reads
  <2>8. PlacesOrdered'
    BY <1>9, <2>1, <2>5 DEF PlacesOrdered, Newer
  <2>9. QED
    BY <1>1, <1>2, <1>3, <1>5, <2>1, <2>2, <2>4, <2>5, <2>6, <2>7, <2>8, MoveOK
<1>10. QED
  BY <1>8, <1>9

\* The new SST is listed.
LEMMA InstallOK ==
  ASSUME LInv, NEW w \in Writers, OneWriter, FlushInstall(w)
  PROVE  LInv'
<1>1. /\ pc[w] = "install" /\ w \in Threads /\ pc' = [pc EXCEPT ![w] = "idle"]
      /\ ssts' = ssts \cup taken[w] /\ taken' = [taken EXCEPT ![w] = {}]
      /\ acked' = acked \cup {id[w]}
      /\ UNCHANGED <<current_table, frozen_tables, next_tranc_id, id, stale, reads>>
  BY DEF FlushInstall, At, Threads, Acknowledge, Goto
<1>2. stale' = {} /\ low' = low
  BY <1>1 DEF reads, LInv, WriterOK
<1>3. taken \in [Threads -> SUBSET Nat] /\ \A t \in Threads \ {w} : taken[t] = {}
  BY <1>1 DEF LInv, LTypeOK, WriterOK, OneWriter
<1>4. /\ \A t \in Threads : taken'[t] = {}
      /\ \A t \in Threads \ {w} : taken'[t] = taken[t]
  BY <1>1, <1>3
<1>5. TakenVersions' = {} /\ TakenVersions = taken[w]
  BY <1>1, <1>3, <1>4 DEF TakenVersions
<1>6. FrozenVersions' = FrozenVersions
  BY <1>1 DEF FrozenVersions
<1>7. Stored' = Stored
  BY <1>1, <1>5, <1>6 DEF Stored
<1>8. LTypeOK'
  BY <1>1, <1>3 DEF LInv, LTypeOK, reads
<1>9. PlacesOrdered'
  BY <1>1, <1>5, <1>6 DEF LInv, PlacesOrdered, Newer
<1>10. PICK p \in {"idle"} : pc' = [pc EXCEPT ![w] = p]
  BY <1>1
<1>11. QED
  BY <1>1, <1>2, <1>4, <1>5, <1>6, <1>7, <1>8, <1>9, <1>10, MoveOK

\* Every step of the writer.
LEMMA WriterStepOK ==
  ASSUME LInv, NEW w \in Writers, OneWriter, Call(w) \/ PutStep(w)
  PROVE  LInv'
<1>1. CASE PutLock(w) \/ SizeLockCur(w) \/ SizeLockFrozen(w) \/ FlushLock(w)
  <2>1. UNCHANGED <<tables, next_tranc_id, id, taken, stale, acked, reads>>
    BY <1>1 DEF PutLock, SizeLockCur, SizeLockFrozen, FlushLock
  <2>2. PICK p \in {"insert", "size_frozen", "flush_frozen", "size", "flush_size", "take"} :
          /\ pc' = [pc EXCEPT ![w] = p]
          /\ pc[w] \notin {"idle", "install", "insert"}
          /\ pc[w] = "put" <=> p = "insert"
    BY <1>1 DEF PutLock, SizeLockCur, SizeLockFrozen, FlushLock, At, Goto
  <2>3. QED
    BY <2>1, <2>2, QuietOK
<1>2. CASE PutSize(w) \/ FlushSize(w)
  <2>1. UNCHANGED <<tables, next_tranc_id, id, taken, stale, reads>>
    BY <1>2 DEF PutSize, FlushSize
  <2>2. PICK p \in {"flush_start", "flush", "idle"} :
          /\ pc[w] \in {"size", "flush_size"}
          /\ pc' = [pc EXCEPT ![w] = p]
          /\ acked' = acked \/ acked' = acked \cup {id[w]}
    BY <1>2 DEF PutSize, FlushSize, At, Goto, Acknowledge
  <2>3. QED
    BY <2>1, <2>2, QuietOK
<1>3. QED
  BY <1>1, <1>2, CallOK, InsertOK, FreezeOK, TakeOK, InstallOK DEF PutStep

-----------------------------------------------------------------------------
(* The steps of a reader.                                                  *)

\* LSM::get draws its id; every acknowledged version is stored somewhere.
LEMMA ReadCallOK ==
  ASSUME LInv, NEW r \in Readers, ReadCall(r)
  PROVE  LInv'
<1>1. /\ FrozenVersions' = FrozenVersions /\ TakenVersions' = TakenVersions
      /\ Stored' = Stored /\ PlacesOrdered'
  BY SamePlaces DEF ReadCall
<1>2. /\ r \in Threads /\ r \notin Writers /\ Writers \cup Readers = Threads
      /\ pc' = [pc EXCEPT ![r] = "read_cur"]
      /\ id' = [id EXCEPT ![r] = next_tranc_id] /\ next_tranc_id' = next_tranc_id + 1
      /\ low' = [low EXCEPT ![r] = Newest(acked)]
      /\ answer' = [answer EXCEPT ![r] = 0]
      /\ UNCHANGED <<tables, taken, stale, acked>>
  BY LocksAssumption DEF ReadCall, Goto, Threads
<1>3. /\ Stored \subseteq Nat /\ next_tranc_id \in Nat /\ acked \subseteq Stored
      /\ \A v \in Stored : v < next_tranc_id
  BY StoredNat DEF LInv, LTypeOK, WriterOK
<1>4. Newest(acked) \in acked \cup {0} /\ Newest(acked) <= next_tranc_id /\ Newest(acked) \in Nat
  <2>1. acked \in SUBSET Nat /\ \A v \in acked : v <= next_tranc_id
    BY <1>3
  <2>2. Newest(acked) \in acked \cup {0}
    BY <1>3, <2>1, MaxWithZero DEF Newest
  <2>3. CASE Newest(acked) = 0
    BY <1>3, <2>2, <2>3
  <2>4. CASE Newest(acked) \in acked
    BY <1>3, <2>1, <2>2, <2>4
  <2>5. QED
    BY <2>2, <2>3, <2>4
<1>5. LTypeOK'
  BY <1>2, <1>4 DEF LInv, LTypeOK, tables
<1>6. WriterOK'
  <2>1. \A t \in Threads \ {r} : pc'[t] = pc[t] /\ id'[t] = id[t]
    BY <1>2 DEF LInv, LTypeOK
  <2>2. \A t \in Threads : taken'[t] # {} => t \in Writers /\ pc'[t] = "install"
    BY <1>2, <2>1 DEF LInv, WriterOK, At
  <2>3. \A v \in Stored' : v < next_tranc_id'
    BY <1>1, <1>2, <1>3
  <2>4. ASSUME NEW w \in Writers
        PROVE  /\ id'[w] < next_tranc_id'
               /\ \A v \in Stored' : v <= id'[w] /\ (pc'[w] \in {"put", "insert"} => v < id'[w])
               /\ pc'[w] \notin {"idle", "put", "insert"} => id'[w] \in Stored'
    <3>1. w \in Threads \ {r} /\ id[w] \in Nat
      BY <1>2 DEF LInv, LTypeOK
    <3>2. QED
      BY <1>1, <1>2, <1>3, <2>1, <3>1 DEF LInv, WriterOK
  <2>5. QED
    BY <1>1, <1>2, <2>2, <2>3, <2>4 DEF LInv, WriterOK, At
<1>7. ReadersOK'
  <2>1. ASSUME NEW t \in Readers \ {r}
        PROVE  pc'[t] = pc[t] /\ id'[t] = id[t] /\ low'[t] = low[t]
    BY <1>2 DEF LInv, LTypeOK
  <2>2. pc'[r] = "read_cur" /\ id'[r] = next_tranc_id /\ low'[r] = Newest(acked)
    BY <1>2 DEF LInv, LTypeOK
  <2>3. low'[r] \in Stored' \cup {0} /\ low'[r] <= id'[r]
    BY <1>1, <1>3, <1>4, <2>2
  <2>4. ssts' = ssts
    BY <1>2 DEF tables
  <2>5. QED
    BY <1>1, <2>1, <2>2, <2>3, <2>4 DEF LInv, ReadersOK, At
<1>8. QED
  BY <1>1, <1>5, <1>6, <1>7 DEF LInv

\* One place of the read path: if what must not be missed is in the place S or in the
\* places `beyond` with older versions, the reader finds it or goes on to them.
LEMMA LookOK ==
  ASSUME LInv, NEW r \in Readers, NEW at, NEW lock, NEW S \in SUBSET Stored, NEW next,
         Look(r, at, lock, S, next),
         NEW beyond \in SUBSET Nat,
         low[r] \in S \cup beyond \cup {0}, low[r] <= id[r], Newer(S, beyond)
  PROVE  /\ answer' = [answer EXCEPT ![r] = answer'[r]] /\ answer'[r] \in Nat
         /\ \/ pc' = [pc EXCEPT ![r] = "idle"] /\ answer'[r] >= low[r]
            \/ pc' = [pc EXCEPT ![r] = next] /\ low[r] \in beyond \cup {0} /\ answer'[r] = 0
<1> DEFINE V == Visible(r, S)
<1>1. /\ answer' = [answer EXCEPT ![r] = Newest(V)]
      /\ pc' = [pc EXCEPT ![r] = IF V # {} THEN "idle" ELSE next]
  BY DEF Look, Goto
<1>2. r \in Threads /\ answer \in [Threads -> Nat] /\ id[r] \in Nat /\ low[r] \in Nat
  BY DEF Threads, LInv, LTypeOK
<1>3. S \subseteq Nat
  BY StoredNat DEF LInv
<1>4. V \in SUBSET Nat /\ \A v \in V : v \in S /\ v <= id[r]
  BY <1>3 DEF Visible
<1>5. /\ Newest(V) \in V \cup {0}
      /\ \A v \in V : v <= Newest(V)
  BY <1>2, <1>4, MaxWithZero DEF Newest
<1>6. answer'[r] = Newest(V) /\ Newest(V) \in Nat
  BY <1>1, <1>2, <1>4, <1>5
<1>7. low[r] \in S => low[r] \in V
  BY DEF Visible
<1> HIDE DEF V
<1>8. CASE V # {}
  <2>1. PICK v \in V : TRUE
    BY <1>8
  <2>2. low[r] \in beyond => v > low[r]
    BY <1>4 DEF Newer
  <2>3. Newest(V) >= low[r]
    BY <1>2, <1>4, <1>5, <1>6, <1>7, <2>1, <2>2
  <2>4. QED
    BY <1>1, <1>6, <1>8, <2>3
<1>9. CASE V = {}
  BY <1>1, <1>5, <1>6, <1>7, <1>9
<1>10. QED
  BY <1>8, <1>9

\* A reader at one of the places: it goes on with what it must not miss still ahead,
\* or ends with an answer that is new enough.
LEMMA ReadStepOK ==
  ASSUME LInv, NEW r \in Readers, ReadStep(r)
  PROVE  LInv' /\ (pc'[r] = "idle" => answer'[r] >= low[r])
<1>1. /\ r \in Threads /\ r \notin Writers /\ Writers \cup Readers = Threads
      /\ UNCHANGED <<tables, next_tranc_id, id, taken, stale, acked, low>>
  BY LocksAssumption DEF ReadStep, ReadCur, ReadFrozen, ReadSsts, Look, Threads
<1>2. /\ FrozenVersions' = FrozenVersions /\ TakenVersions' = TakenVersions
      /\ Stored' = Stored /\ PlacesOrdered'
  BY <1>1, SamePlaces
<1>3. /\ Stored \subseteq Nat /\ low[r] \in Nat /\ DOMAIN pc = Threads
      /\ pc[r] # "idle" => low[r] <= id[r]
  BY <1>1, StoredNat DEF LInv, LTypeOK, ReadersOK, At
<1>4. /\ current_table \cup FrozenVersions \cup TakenVersions \cup ssts = Stored
      /\ FrozenVersions \cup TakenVersions \cup ssts \subseteq Nat
      /\ TakenVersions \cup ssts \subseteq Nat
  BY <1>3 DEF Stored
<1>5. PICK p \in {"idle", "read_frozen", "read_ssts"} :
        /\ pc' = [pc EXCEPT ![r] = p]
        /\ answer' = [answer EXCEPT ![r] = answer'[r]] /\ answer'[r] \in Nat
        /\ p = "idle" => answer'[r] >= low[r]
        /\ p = "read_frozen" => low[r] \in FrozenVersions \cup TakenVersions \cup ssts \cup {0}
        /\ p = "read_ssts" => low[r] \in TakenVersions \cup ssts \cup {0}
        /\ p # "idle" => low[r] <= id[r]
  <2>1. CASE ReadCur(r)
    <3>1. pc[r] = "read_cur" /\ Look(r, "read_cur", "cur", current_table, "read_frozen")
      BY <2>1 DEF ReadCur, Look, At
    <3>2. low[r] \in current_table \cup (FrozenVersions \cup TakenVersions \cup ssts) \cup {0}
      BY <3>1 DEF LInv, ReadersOK, At, Stored
    <3>3. Newer(current_table, FrozenVersions \cup TakenVersions \cup ssts)
      BY DEF LInv, PlacesOrdered
    <3>4. /\ current_table \in SUBSET Stored
          /\ FrozenVersions \cup TakenVersions \cup ssts \in SUBSET Nat /\ low[r] <= id[r]
      BY <1>3, <1>4, <3>1
    <3>5. /\ answer' = [answer EXCEPT ![r] = answer'[r]] /\ answer'[r] \in Nat
          /\ \/ pc' = [pc EXCEPT ![r] = "idle"] /\ answer'[r] >= low[r]
             \/ /\ pc' = [pc EXCEPT ![r] = "read_frozen"]
                /\ low[r] \in (FrozenVersions \cup TakenVersions \cup ssts) \cup {0}
                /\ answer'[r] = 0
      BY <3>1, <3>2, <3>3, <3>4, LookOK
    <3>6. QED
      BY <3>4, <3>5
  <2>2. CASE ReadFrozen(r)
    <3>1. pc[r] = "read_frozen" /\ Look(r, "read_frozen", "frozen", FrozenVersions, "read_ssts")
      BY <2>2 DEF ReadFrozen, Look, At
    <3>2. low[r] \in FrozenVersions \cup (TakenVersions \cup ssts) \cup {0}
      BY <3>1 DEF LInv, ReadersOK, At
    <3>3. Newer(FrozenVersions, TakenVersions \cup ssts)
      BY DEF LInv, PlacesOrdered
    <3>4. /\ FrozenVersions \in SUBSET Stored
          /\ TakenVersions \cup ssts \in SUBSET Nat /\ low[r] <= id[r]
      BY <1>3, <1>4, <3>1
    <3>5. /\ answer' = [answer EXCEPT ![r] = answer'[r]] /\ answer'[r] \in Nat
          /\ \/ pc' = [pc EXCEPT ![r] = "idle"] /\ answer'[r] >= low[r]
             \/ /\ pc' = [pc EXCEPT ![r] = "read_ssts"]
                /\ low[r] \in (TakenVersions \cup ssts) \cup {0}
                /\ answer'[r] = 0
      BY <3>1, <3>2, <3>3, <3>4, LookOK
    <3>6. QED
      BY <3>4, <3>5
  <2>3. CASE ReadSsts(r)
    <3>1. pc[r] = "read_ssts" /\ Look(r, "read_ssts", "ssts", ssts, "idle")
      BY <2>3 DEF ReadSsts, Look, At
    <3>2. TakenVersions = {}
      <4>1. \A t \in Threads : pc[t] # "install"
        BY <3>1, SharedSsts DEF Look
      <4>2. \A t \in Threads : taken[t] = {}
        BY <4>1 DEF LInv, WriterOK, At
      <4>3. QED
        BY <4>2 DEF TakenVersions
    <3>3. low[r] \in ssts \cup {} \cup {0}
      BY <3>1, <3>2 DEF LInv, ReadersOK, At
    <3>4. Newer(ssts, {}) /\ ssts \in SUBSET Stored /\ {} \in SUBSET Nat /\ low[r] <= id[r]
      BY <1>3, <1>4, <3>1 DEF Newer
    <3>5. /\ answer' = [answer EXCEPT ![r] = answer'[r]] /\ answer'[r] \in Nat
          /\ \/ pc' = [pc EXCEPT ![r] = "idle"] /\ answer'[r] >= low[r]
             \/ /\ pc' = [pc EXCEPT ![r] = "idle"]
                /\ low[r] \in {} \cup {0} /\ answer'[r] = 0
      BY <3>1, <3>3, <3>4, LookOK
    <3>6. QED
      BY <1>3, <3>5
  <2>4. QED
    BY <2>1, <2>2, <2>3 DEF ReadStep
<1>6. pc'[r] = p /\ \A t \in Threads \ {r} : pc'[t] = pc[t]
  BY <1>1, <1>3, <1>5
<1>7. LTypeOK'
  BY <1>1, <1>5 DEF LInv, LTypeOK, tables
<1>8. ReadersOK'
  <2>1. \A t \in Readers \ {r} : pc'[t] = pc[t]
    BY <1>1, <1>6
  <2>2. ssts' = ssts /\ current_table' = current_table /\ id' = id /\ low' = low
    BY <1>1 DEF tables
  <2>3. QED
    BY <1>2, <1>5, <1>6, <2>1, <2>2 DEF LInv, ReadersOK, At
<1>9. WriterOK'
  <2>1. \A t \in Threads : taken'[t] # {} => t \in Writers /\ pc'[t] = "install"
    BY <1>1, <1>6 DEF LInv, WriterOK, At
  <2>2. \A w \in Writers : pc'[w] = pc[w]
    BY <1>1, <1>6
  <2>3. QED
    BY <1>1, <1>2, <2>1, <2>2 DEF LInv, WriterOK, At
<1>10. QED
  BY <1>2, <1>5, <1>6, <1>7, <1>8, <1>9 DEF LInv

-----------------------------------------------------------------------------
(* The theorems.                                                           *)

LEMMA LInitOK == Init => LInv
<1> SUFFICES ASSUME Init  PROVE LInv
  OBVIOUS
<1>1. FrozenVersions = {} /\ TakenVersions = {} /\ Stored = {}
  BY DEF Init, FrozenVersions, TakenVersions, Stored
<1>2. LTypeOK
  BY DEF Init, LTypeOK
<1>3. PlacesOrdered
  BY <1>1 DEF Init, PlacesOrdered, Newer
<1>4. WriterOK
  BY <1>1 DEF Init, WriterOK, Threads
<1>5. ReadersOK
  BY DEF Init, ReadersOK, Threads, At
<1>6. QED
  BY <1>2, <1>3, <1>4, <1>5 DEF LInv

LEMMA LStepOK ==
  ASSUME OneWriter
  PROVE  LInv /\ [Next]_vars => LInv'
<1>1. ASSUME LInv, UNCHANGED vars  PROVE LInv'
  <2>1. /\ FrozenVersions' = FrozenVersions /\ TakenVersions' = TakenVersions
        /\ Stored' = Stored /\ PlacesOrdered'
    BY <1>1, SamePlaces DEF vars, thread
  <2>2. LTypeOK'
    BY <1>1 DEF vars, tables, thread, reads, LInv, LTypeOK
  <2>3. WriterOK'
    BY <1>1, <2>1 DEF vars, tables, thread, reads, LInv, WriterOK, At
  <2>4. ReadersOK'
    BY <1>1, <2>1 DEF vars, tables, thread, reads, LInv, ReadersOK, At
  <2>5. QED
    BY <2>1, <2>2, <2>3, <2>4 DEF LInv
<1>2. ASSUME LInv, NEW w \in Writers, Call(w) \/ PutStep(w)  PROVE LInv'
  BY <1>2, WriterStepOK
<1>3. ASSUME LInv, NEW r \in Readers, ReadCall(r) \/ ReadStep(r)  PROVE LInv'
  BY <1>3, ReadCallOK, ReadStepOK
<1>4. ASSUME LInv, Next  PROVE LInv'
  BY <1>1, <1>2, <1>3, <1>4 DEF Next, Finished
<1>5. QED
  BY <1>1, <1>4

\* With one writer, the invariant holds in every reachable state.
THEOREM PlacesInvariant ==
  ASSUME OneWriter
  PROVE  Spec => []LInv
BY LInitOK, LStepOK, PTL DEF Spec

\* With one writer, a read that begins after a put has returned answers with that
\* version or a newer one, wherever the writer moves the tables meanwhile.
THEOREM NoVersionMissed ==
  ASSUME OneWriter
  PROVE  Spec => NoMissedVersion
<1>1. LInv /\ [Next]_vars =>
        [\A t \in Readers : ~At(t, "idle") /\ pc'[t] = "idle" => answer'[t] >= low[t]]_vars
  <2> SUFFICES ASSUME LInv, Next, NEW t \in Readers, ~At(t, "idle"), pc'[t] = "idle"
               PROVE  answer'[t] >= low[t]
    BY DEF vars
  <2>1. DOMAIN pc = Threads /\ t \in Threads /\ t \notin Writers
    BY LocksAssumption DEF LInv, LTypeOK, Threads
  <2>2. ASSUME NEW w \in Writers, Call(w) \/ PutStep(w)  PROVE FALSE
    <3>1. pc' = [pc EXCEPT ![w] = pc'[w]]
      BY <2>1, <2>2 DEF Threads, Call, PutStep, PutLock, PutInsert, PutFreeze, SizeLockCur,
             SizeLockFrozen, PutSize, FlushSize, FlushLock, FlushTake, FlushInstall, Goto,
             Acknowledge
    <3>2. QED
      BY <2>1, <3>1 DEF At
  <2>3. ASSUME NEW r \in Readers, ReadCall(r)  PROVE FALSE
    BY <2>1, <2>3 DEF ReadCall, Goto, At
  <2>4. ASSUME NEW r \in Readers, ReadStep(r)  PROVE r = t
    <3>1. PICK p : pc' = [pc EXCEPT ![r] = p]
      BY <2>4 DEF ReadStep, ReadCur, ReadFrozen, ReadSsts, Look, Goto
    <3>2. QED
      BY <2>1, <3>1 DEF At
  <2>5. ReadStep(t)
    <3>1. ~Finished
      BY <2>1 DEF Finished, At, Threads
    <3>2. PICK r \in Readers : ReadStep(r)
      BY <2>2, <2>3, <3>1 DEF Next
    <3>3. QED
      BY <2>4, <3>2
  <2>6. QED
    BY <2>5, ReadStepOK
<1>2. QED
  BY <1>1, PlacesInvariant, PTL DEF Spec, NoMissedVersion
=============================================================================
