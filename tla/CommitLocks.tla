---------------------------- MODULE CommitLocks ----------------------------
(***************************************************************************)
(* The threads of MemTableLocks, some of which also commit transactions    *)
(* under REPEATABLE_READ: TranContext::commit takes frozen_mtx, cur_mtx    *)
(* and ssts_mtx in this order, put takes cur_mtx and then frozen_mtx, and  *)
(* flush takes ssts_mtx and then frozen_mtx.                               *)
(***************************************************************************)
EXTENDS MemTableLocks

CONSTANT Committers  \* the writers that commit

ASSUME CommitAssumption == Committers \subseteq Writers

\* begin_tran draws the id; commit waits for frozen_mtx.
CommitCall(t) ==
  /\ At(t, "idle")
  /\ next_tranc_id <= MaxTrancId
  /\ id' = [id EXCEPT ![t] = next_tranc_id]
  /\ next_tranc_id' = next_tranc_id + 1
  /\ Goto(t, "commit")
  /\ UNCHANGED <<tables, taken, stale, acked, reads>>

CommitLockFrozen(t) ==
  /\ At(t, "commit")
  /\ CanLock("frozen")
  /\ Goto(t, "commit_cur")
  /\ UNCHANGED <<tables, next_tranc_id, id, taken, stale, acked, reads>>

CommitLockCur(t) ==
  /\ At(t, "commit_cur")
  /\ CanLock("cur")
  /\ Goto(t, "apply")
  /\ UNCHANGED <<tables, next_tranc_id, id, taken, stale, acked, reads>>

\* The conflict check shares ssts_mtx; the writes go into the current table.
\* Commit never freezes a table and never flushes.  Whether it finds a conflict
\* and writes nothing is for Transactions to say.
CommitApply(t) ==
  /\ At(t, "apply")
  /\ CanShare("ssts")
  /\ current_table' = current_table \cup {id[t]}
  /\ Acknowledge(t)
  /\ UNCHANGED <<frozen_tables, ssts, next_tranc_id, id, taken, stale, reads>>

CommitStep(t) == CommitLockFrozen(t) \/ CommitLockCur(t) \/ CommitApply(t)

CommitNext == Next \/ \E t \in Committers : CommitCall(t) \/ CommitStep(t)

CommitSpec ==
  /\ Init
  /\ [][CommitNext]_vars
  /\ Fairness
  /\ \A t \in Committers : WF_vars(CommitStep(t))
=============================================================================
