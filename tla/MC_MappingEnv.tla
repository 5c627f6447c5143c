------------------------------ MODULE MC_MappingEnv ------------------------------
(* Model-checking instance of MappingEnv: a 20-bit usize, so that the     *)
(* products of 1048 and 1049 kilobytes lie on either side of its maximum, *)
(* besides no cache and the default of 10000 kilobytes scaled down to 100.*)
EXTENDS MappingEnv

MCKbInputs == {0, 100, 1048, 1049}
=============================================================================
