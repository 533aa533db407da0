--------------------------- MODULE MCTransactions ---------------------------
(***************************************************************************)
(* Model-checking instances of the transactions.                           *)
(*                                                                         *)
(* TranDurable.cfg: transactions that write at commit, the bookkeeping of  *)
(* flushed ids, clean closing and isolation.                               *)
(* TranCrash.cfg: transactions that write at commit beside ones that write *)
(* at once and roll back, above flushes and a compaction, with one crash   *)
(* and recovery.                                                           *)
(* TranRollback.cfg: what the abort of a read-uncommitted transaction does *)
(* to a commit of another one.                                             *)
(***************************************************************************)
EXTENDS Transactions
=============================================================================
