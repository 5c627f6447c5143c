------------------------------ MODULE MC_Trigger ------------------------------
(* Model-checking instance of Trigger: data 0 .. 2, so that two triggers of *)
(* either kind can be below, equal to or above each other.                  *)
EXTENDS Trigger
=============================================================================
