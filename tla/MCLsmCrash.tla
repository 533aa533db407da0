----------------------------- MODULE MCLsmCrash -----------------------------
(***************************************************************************)
(* Model-checking instance of the storage engine with crashes: what a      *)
(* crash may not do to the SST files (LsmCrash.cfg).                       *)
(***************************************************************************)
EXTENDS LsmCrash
=============================================================================
