---------------------------- MODULE MCBlockCache ----------------------------
(***************************************************************************)
(* Model-checking instance of the block cache: two threads, two SSTs of    *)
(* two blocks, room for three blocks.                                      *)
(***************************************************************************)
EXTENDS BlockCache

\* The threads are interchangeable.
ThreadSymmetry == Permutations(Readers)
=============================================================================
