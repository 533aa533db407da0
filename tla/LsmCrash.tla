------------------------------ MODULE LsmCrash ------------------------------
(***************************************************************************)
(* The storage engine on a machine that may stop at any step, between two  *)
(* file operations of a flush as well as between two calls.  Writes made   *)
(* through class LSM directly are not logged: what a crash leaves is the   *)
(* SST files and the tranc_id file, which only a clean close writes.       *)
(***************************************************************************)
EXTENDS LsmTree

CONSTANT MaxCrashes  \* bound: crashes in one behaviour

ASSUME CrashesAssumption == MaxCrashes \in Nat

VARIABLES
  tranc_id_file,  \* TranManager::tranc_id_file_; 0 before it is first written
  crashes         \* how many crashes there have been, for the bound only

crashVars == <<lsmVars, tranc_id_file, crashes>>

\* The process dies and the directory is opened again.  Until its first clean
\* close a store has an empty tranc_id file, which TranManager cannot read:
\* such a store does not open again.
Crash ==
  /\ tranc_id_file # 0
  /\ crashes < MaxCrashes
  /\ Load([l \in Level |-> FilesAt(l)])
  /\ next_tranc_id' = tranc_id_file
  /\ crashes' = crashes + 1
  /\ UNCHANGED tranc_id_file

CrashInit == Init /\ tranc_id_file = 0 /\ crashes = 0

CrashNext ==
  \/ Operate /\ UNCHANGED <<tranc_id_file, crashes>>
  \/ Reopen /\ tranc_id_file' = next_tranc_id /\ UNCHANGED crashes
  \/ Crash

CrashSpec == CrashInit /\ [][CrashNext]_crashVars

-----------------------------------------------------------------------------
(* Properties.                                                             *)

FileVersions == UNION {UNION {s.table : s \in FilesAt(l)} : l \in Level}

\* A version that has reached an SST file stays in some SST file, also when
\* the process dies half-way through a compaction: full_compact deletes its
\* inputs only after it has written all of its outputs.
FlushedStaysOnDisk == [][FileVersions \subseteq FileVersions']_crashVars

\* The SST files in the directory, each with the level in its name.
Files == UNION {{<<l, s>> : s \in FilesAt(l)} : l \in Level}

\* No two SST files carry the same id and the next id is above all of them,
\* whatever a crash left behind.  LSMEngine::ssts is keyed by the id: a second
\* file with the same id would hide the data of the first.
SstIdsUnique ==
  /\ \A f, g \in Files : f[2].id = g[2].id => f = g
  /\ \A f \in Files : f[2].id < next_sst_id
=============================================================================
