-------------------------- MODULE MC_ChainStoreBlock --------------------------
(* i64 at 8 bits: -128 .. 127, so "-128" is i64::MIN, the one value whose *)
(* magnitude leaves the positive range while it is accumulated.            *)
EXTENDS ChainStoreBlock
=============================================================================
