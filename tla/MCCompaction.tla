---------------------------- MODULE MCCompaction ----------------------------
(***************************************************************************)
(* Model-checking instance of one compaction and of the lookups and scans  *)
(* of the SSTs it reads and writes: every way to spread two versions of    *)
(* two keys and of the marker over two SSTs of each level.                 *)
(***************************************************************************)
EXTENDS Compaction
=============================================================================
