---------------------------- MODULE Transactions ----------------------------
(***************************************************************************)
(* Transactions over the storage engine: TranContext with its isolation    *)
(* levels, TranManager's bookkeeping of transaction ids, the write-ahead   *)
(* log, and the recovery a constructor of LSM runs.  Transactions of       *)
(* several clients are open at a time, plain calls come in between, and    *)
(* the process may die between any two steps and while a commit is writing *)
(* its log.                                                                *)
(***************************************************************************)
EXTENDS LsmCrash

CONSTANTS Isolation,  \* the isolation levels in use
          MaxOps      \* bound: puts and removes of one transaction

Unchecked == {"READ_UNCOMMITTED", "READ_COMMITTED"}
Checked   == {"REPEATABLE_READ", "SERIALIZABLE"}

ASSUME TransAssumption == Isolation \subseteq Unchecked \cup Checked /\ MaxOps \in Nat

VARIABLES
  trans,         \* TranManager::activeTrans_: a TranContext per id
  ready,         \* readyToFlushTrancIds_: how each finished transaction ended
  flushed,       \* flushedTrancIds_
  flushed_file,  \* the flushed ids in the tranc_id file
  wal,           \* the put and delete records in the wal files
  opening,       \* LSM::LSM is running
  replay,        \* the records it still has to replay
  committed      \* history: the versions whose commit() returned true

tranVars == <<trans, ready, flushed, flushed_file, wal, opening, replay>>
allVars  == <<crashVars, tranVars, committed>>

\* TranContext.  A record of `operations` is the version it writes, and
\* temp_map is the table of the last write to each key.  The create and commit
\* records are left out: recovery reads them and does nothing with them.
IsContext(c) ==
  /\ c.level \in Isolation
  /\ c.state \in {"active", "aborting", "committed", "aborted"}
  /\ c.operations \in Seq(Version) /\ c.temp_map \in Tables
  /\ DOMAIN c.rollback_map \subseteq Keys
  /\ \A k \in DOMAIN c.rollback_map : c.rollback_map[k] \subseteq Version

\* The map f with y under x, as operator[] of a C++ map stores it.
Bind(f, x, y) == [z \in DOMAIN f \cup {x} |-> IF z = x THEN y ELSE f[z]]

NewContext(l) == [level |-> l, state |-> "active", operations |-> <<>>,
                  temp_map |-> {}, rollback_map |-> <<>>]

In(state) == {t \in DOMAIN trans : trans[t].state = state}

\* No flush and no recovery is under way.
Quiet == Ready /\ ~opening

-----------------------------------------------------------------------------
(* What TranContext asks of the engine.                                    *)

\* LSMEngine::sst_get_.  SstIterator::get_tranc_id gives the id that was asked
\* for, not the id of the entry.
sst_get_(k, q) ==
  LET hit == FirstHit([l \in 0 .. cur_max_level |-> SstsGet(l, k, q)])
  IN  {[v EXCEPT !.id = q] : v \in {w \in hit : w.val # Tombstone}}

\* LSMEngine::get with the id it returns beside the value.
EngineGet(k, q) ==
  IF MemGet(k, q) # {} THEN {v \in MemGet(k, q) : v.val # Tombstone}
  ELSE sst_get_(k, q)

-----------------------------------------------------------------------------
(* TranManager.                                                            *)

\* Mutant of Compress: the last id of the run is dropped with it.
CompressDropsLast(S) ==
  LET last == Max({n \in S : Min(S) .. n \subseteq S})
  IN  {n \in S : n > last}

\* compressSet: the run of consecutive ids at the front becomes its last one.
Compress(S) ==
  LET last == Max({n \in S : Min(S) .. n \subseteq S})
  IN  {n \in S : n >= last}

\* Mutant of AddFlushed: every smaller id counts as flushed, committed or not.
AddFlushedAllBelow(r, id) ==
  LET done == {n \in DOMAIN r.ready : n <= id}
  IN  [ready   |-> [n \in DOMAIN r.ready \ done |-> r.ready[n]],
       flushed |-> Compress(r.flushed \cup done)]

\* Mutant of AddFlushed: the loop stops before the id itself.
AddFlushedStopsEarly(r, id) ==
  LET done == {n \in DOMAIN r.ready : n < id /\ r.ready[n] = "ABORTED"}
  IN  [ready   |-> [n \in DOMAIN r.ready \ done |-> r.ready[n]],
       flushed |-> Compress(r.flushed \cup done)]

\* add_flushed_tranc_id: a marker has reached an SST.
AddFlushed(r, id) ==
  LET done == {n \in DOMAIN r.ready : n = id \/ (n < id /\ r.ready[n] = "ABORTED")}
  IN  [ready   |-> [n \in DOMAIN r.ready \ done |-> r.ready[n]],
       flushed |-> Compress(r.flushed \cup done)]

\* The loop of flush over the markers that have reached the SST, from the largest
\* id down, the order in which the skip list gives them.
AddAllFlushed(r, ids) ==
  LET added[S \in SUBSET ids] ==
        IF S = {} THEN r ELSE AddFlushed(added[S \ {Min(S)}], Min(S))
  IN  added[ids]

\* The records WAL::recover returns and LSM::LSM replays: those whose id is above
\* the smallest flushed one and not flushed itself, by ascending id, those of
\* one id as they were logged.
Replayed(log, F) ==
  LET todo == {i \in DOMAIN log : log[i].id > Min(F) /\ log[i].id \notin F}
      before(i, j) == log[i].id < log[j].id \/ (log[i].id = log[j].id /\ i < j)
      order == CHOOSE s \in [1 .. Cardinality(todo) -> todo] :
                 ToSet(s) = todo /\ \A m, n \in DOMAIN s : m < n => before(s[m], s[n])
  IN  [n \in DOMAIN order |-> log[order[n]]]

-----------------------------------------------------------------------------
(* TranContext.                                                            *)

\* LSM::begin_tran
Begin(l) ==
  /\ Quiet
  /\ NewTrancId
  /\ trans' = Bind(trans, next_tranc_id, NewContext(l))
  /\ UNCHANGED <<memVars, sstVars, mode, job, tranc_id_file, crashes,
                 ready, flushed, flushed_file, wal, opening, replay, committed>>

\* put and remove: read-uncommitted writes go to the engine at once, after the
\* previous value has been noted; the others wait in temp_map.
TranWrite(t, k, x) ==
  LET v == [key |-> k, id |-> t, val |-> x]
  IN  /\ Quiet
      /\ trans[t].state = "active"
      /\ Len(trans[t].operations) < MaxOps
      /\ IF trans[t].level = "READ_UNCOMMITTED"
         THEN /\ trans' = [trans EXCEPT ![t].operations = Append(@, v),
                                        ![t].rollback_map = Bind(@, k, EngineGet(k, 0))]
              /\ EngineWrite({v})
              /\ UNCHANGED next_tranc_id
         ELSE /\ trans' = [trans EXCEPT ![t].operations = Append(@, v),
                                        ![t].temp_map = TablePut(@, {v})]
              /\ UNCHANGED lsmVars
      /\ UNCHANGED <<tranc_id_file, crashes, ready, flushed, flushed_file, wal,
                     opening, replay, committed>>

\* Mutant of Conflict: the frozen tables are not looked at.
ConflictCurrentOnly(t) ==
  /\ trans[t].level \in Checked
  /\ \E k \in KeysOf(trans[t].temp_map) :
       \/ \E v \in TableGet(current_table, k, 0) : v.id > t
       \/ Max(flushed) > t /\ \E v \in sst_get_(k, 0) : v.id > t

\* The check of commit at the levels that have one: some key was written by a
\* transaction with a larger id.
Conflict(t) ==
  /\ trans[t].level \in Checked
  /\ \E k \in KeysOf(trans[t].temp_map) :
       \/ \E v \in MemGet(k, 0) : v.id > t
       \/ Max(flushed) > t /\ \E v \in sst_get_(k, 0) : v.id > t

\* Mutant of CommitConflict: the writes are applied before the check.
CommitConflictTooLate(t) ==
  /\ Quiet
  /\ trans[t].state = "active"
  /\ Conflict(t)
  /\ current_table' = TablePut(current_table, trans[t].temp_map)
  /\ trans' = [trans EXCEPT ![t].state = "aborted"]
  /\ ready' = Bind(ready, t, "ABORTED")
  /\ UNCHANGED <<frozen_tables, frozen_bytes, sstVars, next_tranc_id, mode, job,
                 tranc_id_file, crashes, flushed, flushed_file, wal, opening, replay, committed>>

\* commit that fails its check.
CommitConflict(t) ==
  /\ Quiet
  /\ trans[t].state = "active"
  /\ Conflict(t)
  /\ trans' = [trans EXCEPT ![t].state = "aborted"]
  /\ ready' = Bind(ready, t, "ABORTED")
  /\ UNCHANGED <<crashVars, flushed, flushed_file, wal, opening, replay, committed>>

\* The last write to each key.
FinalWrites(ops) ==
  {ops[i] : i \in {j \in DOMAIN ops :
                     \A n \in DOMAIN ops : n > j => ops[n].key # ops[j].key}}

CommitMarker(t) == [key |-> Marker, id |-> t, val |-> Tombstone]

\* Mutant of Commit: the records stay in the log's buffer.
CommitUnlogged(t) ==
  /\ Quiet
  /\ trans[t].state = "active"
  /\ ~Conflict(t)
  /\ current_table' = TablePut(current_table, trans[t].temp_map \cup {CommitMarker(t)})
  /\ trans' = [trans EXCEPT ![t].state = "committed"]
  /\ ready' = Bind(ready, t, "OP_COMMITTED")
  /\ committed' = committed \cup FinalWrites(trans[t].operations)
  /\ UNCHANGED <<frozen_tables, frozen_bytes, sstVars, next_tranc_id, mode, job,
                 tranc_id_file, crashes, flushed, flushed_file, wal, opening, replay>>

\* Mutant of Commit: the table may be frozen before the marker is written.
CommitFreezes(t) ==
  LET full == TablePut(current_table, trans[t].temp_map)
  IN  /\ Quiet
      /\ trans[t].state = "active"
      /\ ~Conflict(t)
      /\ wal' = wal \o trans[t].operations
      /\ IF Cardinality(full) > PerMemLimit
         THEN /\ current_table' = {CommitMarker(t)}
              /\ frozen_tables' = <<full>> \o frozen_tables
              /\ frozen_bytes' = frozen_bytes + Cardinality(full)
         ELSE /\ current_table' = TablePut(full, {CommitMarker(t)})
              /\ UNCHANGED <<frozen_tables, frozen_bytes>>
      /\ trans' = [trans EXCEPT ![t].state = "committed"]
      /\ ready' = Bind(ready, t, "OP_COMMITTED")
      /\ committed' = committed \cup FinalWrites(trans[t].operations)
      /\ UNCHANGED <<sstVars, next_tranc_id, mode, job, tranc_id_file, crashes,
                     flushed, flushed_file, opening, replay>>

\* commit: the log first, then the writes and the marker go to the current
\* table, which is neither frozen nor flushed here.
Commit(t) ==
  /\ Quiet
  /\ trans[t].state = "active"
  /\ ~Conflict(t)
  /\ wal' = wal \o trans[t].operations
  /\ current_table' = TablePut(current_table, trans[t].temp_map \cup {CommitMarker(t)})
  /\ trans' = [trans EXCEPT ![t].state = "committed"]
  /\ ready' = Bind(ready, t, "OP_COMMITTED")
  /\ committed' = committed \cup FinalWrites(trans[t].operations)
  /\ UNCHANGED <<frozen_tables, frozen_bytes, sstVars, next_tranc_id, mode, job,
                 tranc_id_file, crashes, flushed, flushed_file, opening, replay>>

\* abort.  A read-uncommitted transaction has to undo its writes first.
Abort(t) ==
  /\ Quiet
  /\ trans[t].state = "active"
  /\ IF trans[t].level = "READ_UNCOMMITTED"
     THEN trans' = [trans EXCEPT ![t].state = "aborting"] /\ UNCHANGED ready
     ELSE /\ trans' = [trans EXCEPT ![t].state = "aborted"]
          /\ ready' = Bind(ready, t, "ABORTED")
  /\ UNCHANGED <<crashVars, flushed, flushed_file, wal, opening, replay, committed>>

\* One round of abort's loop over rollback_map: the value noted is written again
\* under the id noted with it, or the key is removed under the own id.  The loop
\* holds no lock, so other calls come between two rounds.
Rollback(t, k) ==
  /\ Quiet
  /\ trans[t].state = "aborting"
  /\ k \in DOMAIN trans[t].rollback_map
  /\ LET old == trans[t].rollback_map[k]
     IN  EngineWrite(IF old # {} THEN old
                     ELSE {[key |-> k, id |-> t, val |-> Tombstone]})
  /\ trans' = [trans EXCEPT ![t].rollback_map =
                 [j \in DOMAIN trans[t].rollback_map \ {k} |-> @[j]]]
  /\ UNCHANGED <<next_tranc_id, tranc_id_file, crashes, ready, flushed,
                 flushed_file, wal, opening, replay, committed>>

AbortDone(t) ==
  /\ Quiet
  /\ trans[t].state = "aborting"
  /\ DOMAIN trans[t].rollback_map = {}
  /\ trans' = [trans EXCEPT ![t].state = "aborted"]
  /\ ready' = Bind(ready, t, "ABORTED")
  /\ UNCHANGED <<crashVars, flushed, flushed_file, wal, opening, replay, committed>>

-----------------------------------------------------------------------------
(* The engine's steps, with what they tell TranManager.                    *)

TranFlushLast ==
  /\ FlushLast
  /\ LET r == AddAllFlushed([ready |-> ready, flushed |-> flushed],
                             MarkerIds(FlushSource))
     IN  ready' = r.ready /\ flushed' = r.flushed
  /\ UNCHANGED <<tranc_id_file, crashes, trans, flushed_file, wal, opening,
                 replay, committed>>

\* A call of class LSM.  ~LSM comes after the last call of abort has returned.
Call == Quiet /\ Request /\ (mode' = "closing" => In("aborting") = {})

EngineStep ==
  /\ \/ Call
     \/ Drain \/ Drained \/ CompactBuild \/ CompactDelete \/ CompactInstall
  /\ UNCHANGED <<tranc_id_file, crashes, tranVars, committed>>

-----------------------------------------------------------------------------
(* Closing, dying and opening.                                             *)

\* LSM::LSM on a directory whose log is `log`, up to the replay.
Open(log, F) ==
  /\ opening' = TRUE
  /\ replay' = Replayed(log, F)
  /\ wal' = log
  /\ flushed' = F
  /\ flushed_file' = F
  /\ trans' = <<>>
  /\ ready' = <<>>

\* ~LSM with an empty memtable, and the next LSM.
TranReopen ==
  /\ Reopen
  /\ tranc_id_file' = next_tranc_id
  /\ Open(wal, flushed)
  /\ UNCHANGED <<crashes, committed>>

Die == Crash /\ Open(wal, flushed_file) /\ UNCHANGED committed

\* The process dies in WAL::log: a part of the records is in the file.
DieInCommit(t) ==
  /\ Quiet
  /\ trans[t].state = "active"
  /\ ~Conflict(t)
  /\ Crash
  /\ \E n \in 1 .. Len(trans[t].operations) :
       Open(wal \o SubSeq(trans[t].operations, 1, n), flushed_file)
  /\ UNCHANGED committed

\* One record of the replay in LSM::LSM.
Replay ==
  /\ opening
  /\ job = Idle
  /\ replay # <<>>
  /\ EngineWrite({Head(replay)})
  /\ replay' = Tail(replay)
  /\ UNCHANGED <<next_tranc_id, tranc_id_file, crashes, trans, ready, flushed,
                 flushed_file, wal, opening, committed>>

\* Mutant of InitNewWal: the next id itself counts as flushed.
InitNewWalOffByOne ==
  /\ opening
  /\ job = Idle
  /\ replay = <<>>
  /\ opening' = FALSE
  /\ wal' = <<>>
  /\ flushed' = {next_tranc_id}
  /\ UNCHANGED <<crashVars, trans, ready, flushed_file, replay, committed>>

\* TranManager::init_new_wal, the end of LSM::LSM.
InitNewWal ==
  /\ opening
  /\ job = Idle
  /\ replay = <<>>
  /\ opening' = FALSE
  /\ wal' = <<>>
  /\ flushed' = {next_tranc_id - 1}
  /\ UNCHANGED <<crashVars, trans, ready, flushed_file, replay, committed>>

-----------------------------------------------------------------------------
TranInit ==
  /\ CrashInit
  /\ trans = <<>>
  /\ ready = <<>>
  /\ flushed = {0}
  /\ flushed_file = {}
  /\ wal = <<>>
  /\ opening = FALSE
  /\ replay = <<>>
  /\ committed = {}

TranNext ==
  \/ \E l \in Isolation : Begin(l)
  \/ \E t \in DOMAIN trans :
       \/ \E k \in Keys : \/ \E x \in Values \cup {Tombstone} : TranWrite(t, k, x)
                          \/ Rollback(t, k)
       \/ Commit(t)
       \/ CommitConflict(t)
       \/ Abort(t)
       \/ AbortDone(t)
       \/ DieInCommit(t)
  \/ TranFlushLast
  \/ EngineStep
  \/ TranReopen
  \/ Die
  \/ Replay
  \/ InitNewWal

TranSpec == TranInit /\ [][TranNext]_allVars
-----------------------------------------------------------------------------
(* Properties.                                                             *)

\* Type invariant of the transaction layer.
TranTypeOK ==
  /\ \A t \in DOMAIN trans : t \in Nat /\ IsContext(trans[t])
  /\ \A t \in DOMAIN ready : t \in Nat /\ ready[t] \in {"OP_COMMITTED", "ABORTED"}
  /\ flushed \subseteq Nat /\ flushed # {}
  /\ flushed_file \subseteq Nat
  /\ wal \in Seq(Version) /\ replay \in Seq(Version)
  /\ opening \in BOOLEAN

\* There is a version of v's key under v's id in S: v, or what a later write
\* under the same id put in its place.
Present(v, S) == \E w \in S : w.key = v.key /\ w.id = v.id

\* Durability: once commit() has returned true the writes are in the store,
\* through every flush, compaction, close and crash; while the constructor
\* runs they may still be in the part of the log it has to replay.
CommittedKept == ~opening => \A v \in committed : Present(v, AllVersions)

\* Recovery skips the ids that count as flushed: those in flushedTrancIds_ and
\* those below all of it.  Every committed write with such an id is in an SST
\* file, however late it was committed.
FlushedIdsOnDisk ==
  \A v \in committed :
    v.id \in flushed \/ v.id <= Min(flushed) => Present(v, FileVersions)

\* A transaction that writes at commit reaches the disk as a whole: its writes
\* and its marker are put in one table, and no flush or compaction tears
\* them apart.
FlushedWhole ==
  \A t \in In("committed") :
    trans[t].level # "READ_UNCOMMITTED" =>
      LET writes == trans[t].temp_map \cup {CommitMarker(t)}
      IN  \/ \A v \in writes : Present(v, FileVersions)
          \/ \A v \in writes : ~Present(v, FileVersions)

\* Whatever id a reader asks with, it does not find a write of a transaction that
\* writes at commit, unless commit() of that transaction has returned true.
NoDirtyReads ==
  \A k \in Keys, q \in 0 .. next_tranc_id : \A v \in Find(k, q) :
    v.id \in DOMAIN trans /\ trans[v.id].level # "READ_UNCOMMITTED"
      => trans[v.id].state = "committed"

\* A reader that finds a version under the id of a committed transaction gets the
\* value that was committed.  abort of a read-uncommitted transaction says that it
\* restores the changes before its own; it writes the value it has noted under the
\* id noted with it, also when that transaction has written again and committed.
CommitsReadBack ==
  \A k \in Keys, q \in 0 .. next_tranc_id : \A v \in Find(k, q), w \in committed :
    w.key = v.key /\ w.id = v.id => w.val = v.val

\* Where every transaction checks for conflicts, commit() succeeds only if no later
\* transaction or plain call has written one of the keys, as long as that write is
\* in the memtable, frozen or not.  Beside transactions that do not check it is
\* false: a late commit of a small id can hide the larger one from the check.
ConflictSeenInMemory ==
  [][\A t \in In("active") :
       t \in DOMAIN trans' /\ trans'[t].state = "committed" /\ trans[t].level \in Checked
         => \A v \in MemVersions : v.key \in KeysOf(trans[t].temp_map) => v.id <= t]_allVars

\* A directory that was closed properly has nothing to replay: every committed
\* transaction counts as flushed by then.  A replay would write its old
\* versions in front of newer ones.
CleanOpenReplaysNothing == [][TranReopen => replay' = <<>>]_allVars
=============================================================================
