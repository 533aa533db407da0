-------------------------- MODULE MCMemTableLocks --------------------------
(***************************************************************************)
(* Model-checking instances of the threads in the engine: one writer and   *)
(* two readers (MemTableLocks.cfg), and two writers, one of which commits  *)
(* transactions (CommitLocks.cfg).                                         *)
(***************************************************************************)
EXTENDS CommitLocks
=============================================================================
