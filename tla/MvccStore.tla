----------------------------- MODULE MvccStore -----------------------------
(***************************************************************************)
(* What the storage engine promises its callers: a multi-version map.      *)
(* Every write is stamped with a fresh transaction id and stays for ever;  *)
(* a read at id q returns the version with the largest id not above q.     *)
(* Memtables, SSTs, levels, flushes and compactions do not exist here.     *)
(***************************************************************************)
EXTENDS Table

VARIABLES versions,      \* every version ever written
          next_tranc_id  \* the next transaction id

mvccVars == <<versions, next_tranc_id>>

MvccInit == versions = {} /\ next_tranc_id = 1

\* put, put_batch, remove, remove_batch and get: each call takes a fresh id
\* and adds the versions it writes, none for a read, under that id.
MvccNext ==
  /\ versions \subseteq versions'
  /\ \A v \in versions' \ versions : v \in Version /\ v.id = next_tranc_id
  /\ next_tranc_id' = next_tranc_id + 1

MvccSpec == MvccInit /\ [][MvccNext]_mvccVars
=============================================================================
