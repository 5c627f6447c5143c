---------------------------- MODULE MC_ChainStore ----------------------------
(* The chain cache driven by an arbitrary client: two fork choices per     *)
(* height, blocks up to number 3, a window of one ancestor.                *)
EXTENDS ChainStore

CONSTANTS f1, f2

MCForks == {f1, f2}
=============================================================================
