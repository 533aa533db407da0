--------------------------- MODULE MemTableLocks ---------------------------
(***************************************************************************)
(* Threads inside LSMEngine: writers that put and flush, and readers, with *)
(* the three locks they take: cur_mtx and frozen_mtx of MemTable, ssts_mtx *)
(* of LSMEngine.  One key is enough: a version is its transaction id.      *)
(*                                                                         *)
(* A step is what a thread does from taking one lock to the next point at  *)
(* which it waits for a lock or gives one up.  `pc` says where a thread    *)
(* waits, and so which locks it holds.                                     *)
(***************************************************************************)
EXTENDS Integers, SequencesExt

CONSTANTS Writers, Readers,  \* threads
          PerMemLimit,       \* LSM_PER_MEM_SIZE_LIMIT, in entries
          TolMemLimit,       \* LSM_TOL_MEM_SIZE_LIMIT, in entries
          QueuedWritersBlock,\* a waiting exclusive locker keeps new shared ones out
          MaxTrancId         \* bound: transaction ids handed out

ASSUME LocksAssumption ==
  /\ Writers \cap Readers = {}
  /\ PerMemLimit \in Nat /\ TolMemLimit \in Nat \ {0}
  /\ QueuedWritersBlock \in BOOLEAN /\ MaxTrancId \in Nat

VARIABLES
  current_table,  \* the versions in MemTable::current_table
  frozen_tables,  \* MemTable::frozen_tables, newest first
  ssts,           \* the versions in the SSTs listed in level_sst_ids
  next_tranc_id,  \* TranManager::nextTransactionId_
  pc,             \* where each thread is
  id,             \* the transaction id of its call
  taken,          \* what flush_last of a thread has written to its new SST
  stale,          \* threads that are inserting into a table that has been taken away
  acked,          \* history: versions whose put has returned
  low,            \* history: the newest such version when a read began
  answer          \* the version a read returned, 0 for none

tables == <<current_table, frozen_tables, ssts>>
thread == <<pc, id, taken, stale>>
reads  == <<low, answer>>
vars   == <<tables, next_tranc_id, thread, acked, reads>>

Threads == Writers \cup Readers

FrozenVersions == UNION {frozen_tables[i] : i \in DOMAIN frozen_tables}
TotalSize == Cardinality(current_table) + Cardinality(FrozenVersions)

At(t, p) == pc[t] = p
Goto(t, p) == pc' = [pc EXCEPT ![t] = p]

-----------------------------------------------------------------------------
(* Locks.                                                                  *)

\* Mutant of HoldsX: flush gives up ssts_mtx before the new SST is listed.
HoldsXReleasedEarly(t, lock) ==
  pc[t] \in CASE lock = "cur" -> {"insert", "freeze", "apply"}
              [] lock = "frozen" -> {"commit_cur", "apply"}
              [] lock = "ssts" -> {"take"}

\* The lock is held exclusively while the thread is there.  (A freeze and
\* flush_last hold frozen_mtx within one step only.)
HoldsX(t, lock) ==
  pc[t] \in CASE lock = "cur" -> {"insert", "freeze", "apply"}
              [] lock = "frozen" -> {"commit_cur", "apply"}
              [] lock = "ssts" -> {"take", "install"}

\* get_total_size has cur_mtx when it waits for frozen_mtx, and holds both while
\* it calls the two functions that take them again.
HoldsS(t, lock) ==
  pc[t] \in CASE lock = "cur" -> {"size_frozen", "size", "flush_frozen", "flush_size"}
              [] lock = "frozen" -> {"size", "flush_size"}
              [] lock = "ssts" -> {}

WaitsX(t, lock) ==
  pc[t] \in CASE lock = "cur" -> {"put", "commit_cur"}
              [] lock = "frozen" -> {"freeze", "take", "commit"}
              [] lock = "ssts" -> {"flush"}

CanLock(lock) == \A t \in Threads : ~HoldsX(t, lock) /\ ~HoldsS(t, lock)
CanShare(lock) ==
  \A t \in Threads : ~HoldsX(t, lock) /\ ~(QueuedWritersBlock /\ WaitsX(t, lock))

-----------------------------------------------------------------------------
(* Writers.                                                                *)

\* LSM::put and LSM::remove draw their id and wait for cur_mtx.
Call(t) ==
  /\ At(t, "idle")
  /\ next_tranc_id <= MaxTrancId
  /\ id' = [id EXCEPT ![t] = next_tranc_id]
  /\ next_tranc_id' = next_tranc_id + 1
  /\ Goto(t, "put")
  /\ UNCHANGED <<tables, taken, stale, acked, reads>>

PutLock(t) ==
  /\ At(t, "put")
  /\ CanLock("cur")
  /\ Goto(t, "insert")
  /\ UNCHANGED <<tables, next_tranc_id, id, taken, stale, acked, reads>>

\* put_ on the table that was current when the thread looked.  If flush_last
\* has taken that table away meanwhile, the entry goes into an object that
\* nothing refers to any more.
PutInsert(t) ==
  /\ At(t, "insert")
  /\ current_table' = IF t \in stale THEN current_table ELSE current_table \cup {id[t]}
  /\ stale' = stale \ {t}
  /\ Goto(t, IF Cardinality(current_table') > PerMemLimit THEN "freeze" ELSE "put_size")
  /\ UNCHANGED <<frozen_tables, ssts, next_tranc_id, id, taken, acked, reads>>

\* frozen_cur_table_ under both locks.
PutFreeze(t) ==
  /\ At(t, "freeze")
  /\ CanLock("frozen")
  /\ frozen_tables' = <<current_table>> \o frozen_tables
  /\ current_table' = {}
  /\ Goto(t, "put_size")
  /\ UNCHANGED <<ssts, next_tranc_id, id, taken, stale, acked, reads>>

\* get_total_size, its own shared locks, in put and in flush.
SizeLockCur(t) ==
  /\ At(t, "put_size") \/ At(t, "flush_start")
  /\ CanShare("cur")
  /\ Goto(t, IF At(t, "put_size") THEN "size_frozen" ELSE "flush_frozen")
  /\ UNCHANGED <<tables, next_tranc_id, id, taken, stale, acked, reads>>

SizeLockFrozen(t) ==
  /\ At(t, "size_frozen") \/ At(t, "flush_frozen")
  /\ CanShare("frozen")
  /\ Goto(t, IF At(t, "size_frozen") THEN "size" ELSE "flush_size")
  /\ UNCHANGED <<tables, next_tranc_id, id, taken, stale, acked, reads>>

Acknowledge(t) == Goto(t, "idle") /\ acked' = acked \cup {id[t]}

\* Mutant of PutSize: put waits until the memtable is small enough again.
PutSizeWaits(t) ==
  /\ At(t, "size")
  /\ CanShare("frozen")
  /\ CanShare("cur")
  /\ IF TotalSize >= TolMemLimit THEN Goto(t, "put_size") /\ UNCHANGED acked
     ELSE Acknowledge(t)
  /\ UNCHANGED <<tables, next_tranc_id, id, taken, stale, reads>>

\* put: the memtable is small enough, or a flush follows.
PutSize(t) ==
  /\ At(t, "size")
  /\ CanShare("frozen")
  /\ CanShare("cur")
  /\ IF TotalSize >= TolMemLimit THEN Goto(t, "flush_start") /\ UNCHANGED acked
     ELSE Acknowledge(t)
  /\ UNCHANGED <<tables, next_tranc_id, id, taken, stale, reads>>

\* flush: nothing to do, or on to ssts_mtx.
FlushSize(t) ==
  /\ At(t, "flush_size")
  /\ CanShare("frozen")
  /\ CanShare("cur")
  /\ IF TotalSize = 0 THEN Acknowledge(t)
     ELSE Goto(t, "flush") /\ UNCHANGED acked
  /\ UNCHANGED <<tables, next_tranc_id, id, taken, stale, reads>>

\* flush under ssts_mtx; the compaction it may start keeps the versions.
FlushLock(t) ==
  /\ At(t, "flush")
  /\ CanLock("ssts")
  /\ Goto(t, "take")
  /\ UNCHANGED <<tables, next_tranc_id, id, taken, stale, acked, reads>>

\* flush_last, under frozen_mtx and not under cur_mtx.  With no frozen table it
\* takes the current one, whoever is working on it; with an empty one it
\* returns null, which flush goes on to use.
FlushTake(t) ==
  /\ At(t, "take")
  /\ CanLock("frozen")
  /\ IF frozen_tables # <<>>
     THEN /\ taken' = [taken EXCEPT ![t] = Last(frozen_tables)]
          /\ frozen_tables' = Front(frozen_tables)
          /\ Goto(t, "install")
          /\ UNCHANGED <<current_table, stale>>
     ELSE /\ taken' = [taken EXCEPT ![t] = current_table]
          /\ current_table' = {}
          /\ stale' = IF current_table = {} THEN stale
                      ELSE {u \in Writers : At(u, "insert")}
          /\ Goto(t, IF current_table = {} THEN "null_sst" ELSE "install")
          /\ UNCHANGED frozen_tables
  /\ UNCHANGED <<ssts, next_tranc_id, id, acked, reads>>

\* The rest of flush, and the return of put.
FlushInstall(t) ==
  /\ At(t, "install")
  /\ ssts' = ssts \cup taken[t]
  /\ taken' = [taken EXCEPT ![t] = {}]
  /\ Acknowledge(t)
  /\ UNCHANGED <<current_table, frozen_tables, next_tranc_id, id, stale, reads>>

-----------------------------------------------------------------------------
(* Readers.                                                                *)

Newest(S) == Max(S \cup {0})
Visible(t, S) == {v \in S : v <= id[t]}

\* LSM::get draws an id too.
ReadCall(t) ==
  /\ At(t, "idle")
  /\ next_tranc_id <= MaxTrancId
  /\ id' = [id EXCEPT ![t] = next_tranc_id]
  /\ next_tranc_id' = next_tranc_id + 1
  /\ low' = [low EXCEPT ![t] = Newest(acked)]
  /\ answer' = [answer EXCEPT ![t] = 0]
  /\ Goto(t, "read_cur")
  /\ UNCHANGED <<tables, taken, stale, acked>>

\* One place of the read path: the search ends here, or goes on at `next`.
Look(t, at, lock, S, next) ==
  /\ At(t, at)
  /\ CanShare(lock)
  /\ answer' = [answer EXCEPT ![t] = Newest(Visible(t, S))]
  /\ Goto(t, IF Visible(t, S) # {} THEN "idle" ELSE next)
  /\ UNCHANGED <<tables, next_tranc_id, id, taken, stale, acked, low>>

\* MemTable::get leaves cur_mtx before it takes frozen_mtx, and LSMEngine::get
\* takes ssts_mtx after both.
ReadCur(t)    == Look(t, "read_cur", "cur", current_table, "read_frozen")
ReadFrozen(t) == Look(t, "read_frozen", "frozen", FrozenVersions, "read_ssts")
ReadSsts(t)   == Look(t, "read_ssts", "ssts", ssts, "idle")

-----------------------------------------------------------------------------
Init ==
  /\ current_table = {}
  /\ frozen_tables = <<>>
  /\ ssts = {}
  /\ next_tranc_id = 1
  /\ pc = [t \in Threads |-> "idle"]
  /\ id = [t \in Threads |-> 0]
  /\ taken = [t \in Threads |-> {}]
  /\ stale = {}
  /\ acked = {}
  /\ low = [t \in Threads |-> 0]
  /\ answer = [t \in Threads |-> 0]

PutStep(t) ==
  \/ PutLock(t) \/ PutInsert(t) \/ PutFreeze(t) \/ SizeLockCur(t) \/ SizeLockFrozen(t)
  \/ PutSize(t) \/ FlushSize(t) \/ FlushLock(t) \/ FlushTake(t) \/ FlushInstall(t)

ReadStep(t) == ReadCur(t) \/ ReadFrozen(t) \/ ReadSsts(t)

\* All calls have been made and have returned.
Finished ==
  /\ next_tranc_id > MaxTrancId
  /\ \A t \in Threads : At(t, "idle")
  /\ UNCHANGED vars

Next ==
  \/ \E t \in Writers : Call(t) \/ PutStep(t)
  \/ \E t \in Readers : ReadCall(t) \/ ReadStep(t)
  \/ Finished

\* Every thread that can go on does so.  There are finitely many calls, so a
\* shared_mutex that lets readers pass a waiting writer starves nobody for ever.
Fairness ==
  /\ \A t \in Writers : WF_vars(PutStep(t))
  /\ \A t \in Readers : WF_vars(ReadStep(t))

Spec == Init /\ [][Next]_vars /\ Fairness

-----------------------------------------------------------------------------
(* Properties.                                                             *)

\* A read that begins after a put has returned finds that version or a newer
\* one, although the table that holds it may move from current to frozen and to
\* an SST while the reader is between its locks.
NoMissedVersion ==
  [][\A t \in Readers : ~At(t, "idle") /\ pc'[t] = "idle" => answer'[t] >= low[t]]_vars

\* Every call returns: no two threads wait for each other's locks.  A thread that
\* waits for itself, and a flush of an empty memtable, take a second writer.
CallsReturn == \A t \in Threads : ~At(t, "idle") ~> At(t, "idle")
=============================================================================
