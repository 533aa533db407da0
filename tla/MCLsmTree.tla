----------------------------- MODULE MCLsmTree -----------------------------
(***************************************************************************)
(* Model-checking instances of the storage engine without crashes.  The    *)
(* constants are given by the .cfg files:                                  *)
(*   LsmTree.cfg      a memtable of several tables above a shallow tree,   *)
(*                    and termination of flush_all and of the destructor;  *)
(*   LsmDeep.cfg      a memtable of one table above three levels.          *)
(***************************************************************************)
EXTENDS Scans
=============================================================================
